----------------------------- MODULE RefreshService ----------------------------
(***************************************************************************)
(* The refresh service: internal/app/app.go, writing the cache of          *)
(* VehicleCache and the cached-vehicles gauge of internal/obs.             *)
(*                                                                         *)
(* A request r is one call of RefreshAll or RefreshVehicle on behalf of an *)
(* HTTP request, running in its own goroutine.  Each step of a request is  *)
(* one call that another goroutine can see or that waits for the network:  *)
(* a call of the Smartcar API, a critical section of the cache, a store to *)
(* the gauge, a read of the clock.  The API is external: it may fail any   *)
(* call, and must fail it once the browser has gone and the request's      *)
(* context is cancelled.                                                   *)
(***************************************************************************)
EXTENDS VehicleCache, Sequences

CONSTANTS
    Request,           \* the calls of the service
    AllVehicles,       \* the target of RefreshAll
    Allowed,           \* Service.allowedVehicleIDs
    SignalCodes,       \* cfg.SignalCodes, a code may occur twice
    Connections,       \* replies of ListConnections: connections per vehicle
    Replies            \* HTTP statuses of a GetSignal reply, 0 for no API error

ASSUME VehicleAssumption ==
    /\ VehicleID \subseteq Nat
    /\ IsFiniteSet(VehicleID)
    /\ Allowed \subseteq VehicleID
    /\ AllVehicles \notin VehicleID
    /\ NotCached \notin Snapshot

ASSUME ReplyAssumption ==
    /\ SignalCodes \in Seq(Code)
    /\ Connections \subseteq [VehicleID -> Nat]
    /\ Replies \subseteq Nat
    /\ 0 \in Replies

VARIABLES
    cachedVehicles,    \* Metrics.cachedCount, what the gauge observes
    now,               \* the wall clock, moved on by each stamp taken from it
    pc,                \* where each request is
    target,            \* its vehicle, or AllVehicles
    cancelled,         \* whether its context is cancelled
    work,              \* its local variables
    result             \* the error it returned, "none" for nil

serviceVars == <<cachedVehicles, now, pc, target, cancelled, work, result>>
vars == <<cacheVars, serviceVars>>

(* Local variables of a request: the connections still to refresh, the     *)
(* vehicle being refreshed and how far through its signals, the snapshots  *)
(* taken, their number and how many are failures, and the length of List().*)
Work == [pending : [VehicleID -> Nat], current : VehicleID \cup {AllVehicles},
         index : Nat, signals : [Code -> SignalState \cup {"absent"}], failures : Nat,
         batch : Batch, size : Nat, failed : Nat, listed : Nat]

NoWork == [pending |-> [v \in VehicleID |-> 0], current |-> AllVehicles,
           index |-> 1, signals |-> NoSignals, failures |-> 0,
           batch |-> NoVehicles, size |-> 0, failed |-> 0, listed |-> 0]

PC == {"idle", "list", "refresh", "signals", "clear", "count", "gauge", "fail", "returned"}

InFlight(r) == pc[r] \notin {"idle", "returned"}

TypeOK ==
    /\ CacheTypeOK
    /\ cachedVehicles \in Nat
    /\ now \in Nat
    /\ pc \in [Request -> PC]
    /\ target \in [Request -> VehicleID \cup {AllVehicles}]
    /\ cancelled \in [Request -> BOOLEAN]
    /\ work \in [Request -> Work]
    /\ result \in [Request -> StoredError \cup {"none"}]

Init ==
    /\ CacheInit
    /\ cachedVehicles = 0
    /\ now = 0
    /\ pc = [r \in Request |-> "idle"]
    /\ target = [r \in Request |-> AllVehicles]
    /\ cancelled = [r \in Request |-> FALSE]
    /\ work = [r \in Request |-> NoWork]
    /\ result = [r \in Request |-> "none"]

--------------------------------------------------------------------------------
(* Helpers *)

\* (slip: no default, the zero value of SignalState falls through)
MapSignalStateNoDefault(status) ==
    CASE status \in {404, 501, 400} -> "unsupported"
      [] status \in {403, 409, 430, 406} -> "unavailable"
      [] OTHER -> ""

\* mapSignalState, of an error reply's status
MapSignalState(status) ==
    CASE status \in {404, 501, 400} -> "unsupported"
      [] status \in {403, 409, 430, 406} -> "unavailable"
      [] OTHER -> "error"

SignalOf(status) == IF status = 200 THEN "ok" ELSE MapSignalState(status)

\* (slip: the allowlist is not applied to what the API lists)
FilterNothing(conns) == conns

\* filterConnections: with an allowlist, only the connections on it.
FilterConnections(conns) ==
    IF Allowed = {} THEN conns
    ELSE [v \in VehicleID |-> IF v \in Allowed THEN conns[v] ELSE 0]

\* One connection, to vehicle t.
Only(t) == [v \in VehicleID |-> IF v = t THEN 1 ELSE 0]

Selected(m) == {v \in VehicleID : m[v] > 0}

\* filterConnections sorts what the allowlist kept; without one the order is the
\* API's, which is any order.
IsNext(v, pending) ==
    /\ v \in Selected(pending)
    /\ Allowed # {} => \A u \in Selected(pending) : v <= u

FailedSnapshot == [err |-> TRUE, partial |-> FALSE, signals |-> NoSignals, refreshedAt |-> 0]

\* (slip: a partial snapshot counts as a failure)
IsFailureOrPartial(s) == s.err

\* A snapshot that is a failure: Err # nil and not Partial.
IsFailure(s) == s.err /\ ~s.partial

Goto(r, to) == pc' = [pc EXCEPT ![r] = to]

\* RefreshAll and RefreshVehicle return: the error, or none.
Return(r, e) == Goto(r, "returned") /\ result' = [result EXCEPT ![r] = e]

\* (slip: an error is returned but not remembered)
ReturnErrorOnly(r, e) == UNCHANGED lastError /\ Return(r, e)

\* Every error path: remember the error for the dashboard, and return it.
ReturnError(r, e) == SetLastError(e) /\ Return(r, e)

\* refreshVehicleSnapshot returns s for vehicle v, and its caller keeps it.
Append1(w, v, s) ==
    [w EXCEPT !.pending = [w.pending EXCEPT ![v] = @ - 1],
              !.batch = [w.batch EXCEPT ![v] = s],
              !.size = w.size + 1,
              !.failed = IF IsFailure(s) THEN w.failed + 1 ELSE w.failed]

--------------------------------------------------------------------------------
(* Entry: a request arrives. *)

\* RefreshAll, and RefreshVehicle without an allowlist, list the connections.
BeginListing(r, t) ==
    /\ pc[r] = "idle"
    /\ t = AllVehicles \/ Allowed = {}
    /\ target' = [target EXCEPT ![r] = t]
    /\ Goto(r, "list")
    /\ UNCHANGED <<cacheVars, cachedVehicles, now, cancelled, work, result>>

\* RefreshVehicle of a vehicle on the allowlist refreshes it right away.
BeginAllowed(r, t) ==
    /\ pc[r] = "idle"
    /\ t \in Allowed
    /\ target' = [target EXCEPT ![r] = t]
    /\ work' = [work EXCEPT ![r].pending = Only(t)]
    /\ Goto(r, "refresh")
    /\ UNCHANGED <<cacheVars, cachedVehicles, now, cancelled, result>>

\* RefreshVehicle of a vehicle off the allowlist.
RejectNotAllowed(r, t) ==
    /\ pc[r] = "idle"
    /\ t # AllVehicles /\ Allowed # {} /\ t \notin Allowed
    /\ target' = [target EXCEPT ![r] = t]
    /\ ReturnError(r, "not_allowed")
    /\ UNCHANGED <<vehicles, cachedVehicles, now, cancelled, work>>

\* The browser goes away, which cancels the context of its request.
Cancel(r) ==
    /\ InFlight(r)
    /\ ~cancelled[r]
    /\ cancelled' = [cancelled EXCEPT ![r] = TRUE]
    /\ UNCHANGED <<cacheVars, cachedVehicles, now, pc, target, work, result>>

--------------------------------------------------------------------------------
(* ListConnections *)

ListFails(r) ==
    /\ pc[r] = "list"
    /\ ReturnError(r, "list_failed")
    /\ UNCHANGED <<vehicles, cachedVehicles, now, target, cancelled, work>>

\* What a reply selects: RefreshAll filters it, RefreshVehicle looks its vehicle up.
Selection(r, conns) ==
    IF target[r] = AllVehicles THEN FilterConnections(conns)
    ELSE IF conns[target[r]] > 0 THEN Only(target[r]) ELSE NoWork.pending

ListSelectsNone(r, conns) ==
    /\ pc[r] = "list"
    /\ ~cancelled[r]
    /\ Selected(Selection(r, conns)) = {}
    /\ ReturnError(r, "no_vehicles")
    /\ UNCHANGED <<vehicles, cachedVehicles, now, target, cancelled, work>>

ListSelects(r, conns) ==
    /\ pc[r] = "list"
    /\ ~cancelled[r]
    /\ Selected(Selection(r, conns)) # {}
    /\ work' = [work EXCEPT ![r].pending = Selection(r, conns)]
    /\ Goto(r, "refresh")
    /\ UNCHANGED <<cacheVars, cachedVehicles, now, target, cancelled, result>>

--------------------------------------------------------------------------------
(* refreshVehicleSnapshot, for one pending vehicle after the other *)

\* (slip: a vehicle that fails is left out of the batch)
GetVehicleFailsSkipping(r, v) ==
    /\ pc[r] = "refresh"
    /\ IsNext(v, work[r].pending)
    /\ work' = [work EXCEPT ![r].pending = [@ EXCEPT ![v] = @ - 1]]
    /\ UNCHANGED <<cacheVars, cachedVehicles, now, pc, target, cancelled, result>>

GetVehicleFails(r, v) ==
    /\ pc[r] = "refresh"
    /\ IsNext(v, work[r].pending)
    /\ work' = [work EXCEPT ![r] = Append1(@, v, FailedSnapshot)]
    /\ UNCHANGED <<cacheVars, cachedVehicles, now, pc, target, cancelled, result>>

\* (slip: the count of failed signals goes on from one vehicle to the next)
GetVehicleRepliesCounting(r, v) ==
    /\ pc[r] = "refresh"
    /\ ~cancelled[r]
    /\ IsNext(v, work[r].pending)
    /\ work' = [work EXCEPT ![r].current = v, ![r].index = 1, ![r].signals = NoSignals]
    /\ Goto(r, "signals")
    /\ UNCHANGED <<cacheVars, cachedVehicles, now, target, cancelled, result>>

GetVehicleReplies(r, v) ==
    /\ pc[r] = "refresh"
    /\ ~cancelled[r]
    /\ IsNext(v, work[r].pending)
    /\ work' = [work EXCEPT ![r].current = v, ![r].index = 1,
                            ![r].signals = NoSignals, ![r].failures = 0]
    /\ Goto(r, "signals")
    /\ UNCHANGED <<cacheVars, cachedVehicles, now, target, cancelled, result>>

\* (slip: a failed signal is not counted)
AddSignalUncounted(w, code, status) ==
    [w EXCEPT !.signals = [w.signals EXCEPT ![code] = SignalOf(status)], !.index = w.index + 1]

\* The reply to one GetSignal goes into the snapshot and the loop goes on.
AddSignal(w, code, status) ==
    [w EXCEPT !.signals = [w.signals EXCEPT ![code] = SignalOf(status)],
              !.failures = IF status = 200 THEN w.failures ELSE w.failures + 1,
              !.index = w.index + 1]

GetSignal(r, status) ==
    /\ pc[r] = "signals"
    /\ work[r].index <= Len(SignalCodes)
    /\ cancelled[r] => status = 0
    /\ work' = [work EXCEPT ![r] = AddSignal(@, SignalCodes[@.index], status)]
    /\ UNCHANGED <<cacheVars, cachedVehicles, now, pc, target, cancelled, result>>

\* The snapshot of a vehicle whose signals were asked for, Partial if any failed.
SnapshotOf(w, time) ==
    [err |-> w.failures > 0, partial |-> w.failures > 0,
     signals |-> w.signals, refreshedAt |-> time]

\* All signals asked for: stamp the snapshot and keep it.
TakeSnapshot(r) ==
    /\ pc[r] = "signals"
    /\ work[r].index > Len(SignalCodes)
    /\ now' = now + 1
    /\ work' = [work EXCEPT ![r] = Append1(@, @.current, SnapshotOf(@, now + 1))]
    /\ Goto(r, "refresh")
    /\ UNCHANGED <<cacheVars, cachedVehicles, target, cancelled, result>>

--------------------------------------------------------------------------------
(* The end: Save or SaveMany, the remembered error, the gauge *)

AllFailed(r) == work[r].failed = work[r].size

\* RefreshVehicle keeps the old remembered error until it stores its own; every
\* other path clears it first.
SaveSnapshots(r) ==
    /\ pc[r] = "refresh"
    /\ Selected(work[r].pending) = {}
    /\ SaveMany(work[r].batch)
    /\ Goto(r, IF target[r] # AllVehicles /\ AllFailed(r) THEN "fail" ELSE "clear")
    /\ UNCHANGED <<lastError, cachedVehicles, now, target, cancelled, work, result>>

\* SetLastError(nil).
ClearError(r) ==
    /\ pc[r] = "clear"
    /\ SetLastError("none")
    /\ Goto(r, "count")
    /\ UNCHANGED <<vehicles, cachedVehicles, now, target, cancelled, work, result>>

CountCached(r) ==
    /\ pc[r] = "count"
    /\ work' = [work EXCEPT ![r].listed = Cardinality(Keys(vehicles))]
    /\ Goto(r, "gauge")
    /\ UNCHANGED <<cacheVars, cachedVehicles, now, target, cancelled, result>>

\* SetCachedVehicles, then success unless every vehicle failed.
SetGauge(r) ==
    /\ pc[r] = "gauge"
    /\ cachedVehicles' = work[r].listed
    /\ IF AllFailed(r) THEN Goto(r, "fail") /\ UNCHANGED result ELSE Return(r, "none")
    /\ UNCHANGED <<cacheVars, now, target, cancelled, work>>

ReportFailure(r) ==
    /\ pc[r] = "fail"
    /\ ReturnError(r, IF target[r] = AllVehicles THEN "all_failed" ELSE "vehicle_failed")
    /\ UNCHANGED <<vehicles, cachedVehicles, now, target, cancelled, work>>

--------------------------------------------------------------------------------
Begin(r) == \E t \in VehicleID \cup {AllVehicles} :
    BeginListing(r, t) \/ BeginAllowed(r, t) \/ RejectNotAllowed(r, t)

ListConnections(r) ==
    \/ ListFails(r)
    \/ \E conns \in Connections : ListSelectsNone(r, conns) \/ ListSelects(r, conns)

RefreshSnapshot(r) ==
    \/ \E v \in VehicleID : GetVehicleFails(r, v) \/ GetVehicleReplies(r, v)
    \/ \E status \in Replies : GetSignal(r, status)
    \/ TakeSnapshot(r)

Finish(r) ==
    SaveSnapshots(r) \/ ClearError(r) \/ CountCached(r) \/ SetGauge(r) \/ ReportFailure(r)

\* The steps of a request once it has arrived; the code runs on without waiting
\* for anything but API calls, which return (see SmartcarClient).
Progress(r) == ListConnections(r) \/ RefreshSnapshot(r) \/ Finish(r)

Next == \E r \in Request : Begin(r) \/ Cancel(r) \/ Progress(r)

Spec == Init /\ [][Next]_vars /\ \A r \in Request : WF_vars(Progress(r))

--------------------------------------------------------------------------------
(* Properties *)

Failing(r) == pc[r] = "returned" /\ result[r] # "none"
Succeeded(r) == pc[r] = "returned" /\ result[r] = "none"

\* The code of this place of the list is asked for again further on.
AskedAgain(i) == \E j \in (i + 1)..Len(SignalCodes) : SignalCodes[j] = SignalCodes[i]

\* What RefreshAll and RefreshVehicle write is coherent, and stays so in the
\* cache whatever requests overlap: a failure carries neither signals nor a
\* time; anything else has an entry for every configured code, was stamped by a
\* time that has passed, and is called partial if and only if some signal did not
\* arrive: one that it shows so or, of a code configured more than once, one whose
\* entry a later reply has overwritten.
Coherent(s) ==
    \/ s = FailedSnapshot
    \/ /\ s.refreshedAt \in 1..now
       /\ s.partial = s.err
       /\ \A i \in 1..Len(SignalCodes) : s.signals[SignalCodes[i]] # "absent"
       /\ (\E c \in Code : s.signals[c] \notin {"ok", "absent"}) => s.partial
       /\ s.partial => \E i \in 1..Len(SignalCodes) :
                          s.signals[SignalCodes[i]] # "ok" \/ AskedAgain(i)

CacheCoherent == \A v \in Keys(vehicles) : Coherent(vehicles[v])

\* With an allowlist no vehicle off it ever reaches the cache, whatever the API
\* lists and whatever vehicle a refresh names.
OnlyAllowedCached == Allowed # {} => Keys(vehicles) \subseteq Allowed

\* The gauge is set from a List() taken earlier, and other requests save in
\* between and after: it may lag behind the cache but never runs ahead of it.
GaugeNeverAhead == cachedVehicles <= Cardinality(Keys(vehicles))

\* RefreshAll clears the remembered error before it stores its own, so a failed
\* refresh has no banner for a while.  Once every request has returned the
\* banner is one that some request left: an error one of them returned, or none
\* only if one of them succeeded.
BannerAtRest ==
    (~ \E r \in Request : InFlight(r)) =>
        \/ \A r \in Request : pc[r] = "idle"
        \/ lastError # "none" /\ \E r \in Request : Failing(r) /\ result[r] = lastError
        \/ lastError = "none" /\ \E r \in Request : Succeeded(r)

\* README.md:14: "Preserves the latest successful snapshots in memory between
\* page loads."  A snapshot of a vehicle that succeeded is only ever replaced by
\* a later one that succeeded.
LatestSuccessKept ==
    [][\A v \in Keys(vehicles) : ~vehicles[v].err =>
          /\ vehicles'[v] # NotCached
          /\ ~IsFailure(vehicles'[v])
          /\ vehicles'[v].refreshedAt >= vehicles[v].refreshedAt]_vars

--------------------------------------------------------------------------------
(* Refinement of AtomicRefresh *)

\* Where each request is, seen from the cache.
PhaseOf(r) ==
    CASE pc[r] = "idle" -> "idle"
      [] pc[r] \in {"list", "refresh", "signals"} -> "running"
      [] pc[r] \in {"clear", "count", "gauge", "fail"} -> "installed"
      [] pc[r] = "returned" -> "returned"

InstalledBy(r) == IF PhaseOf(r) \in {"installed", "returned"} THEN work[r].batch ELSE NoVehicles

\* The vehicles it has refreshed and those it has still to refresh.
AskedBy(r) == Keys(work[r].batch) \cup Selected(work[r].pending)

Phase == [r \in Request |-> PhaseOf(r)]
Asked == [r \in Request |-> AskedBy(r)]
Installed == [r \in Request |-> InstalledBy(r)]

Atomic == INSTANCE AtomicRefresh WITH
    cache <- vehicles, banner <- lastError, outcome <- result,
    phase <- Phase, asked <- Asked, installed <- Installed,
    Permitted <- IF Allowed = {} THEN VehicleID ELSE Allowed, Failure <- FailedSnapshot

\* Each request changes the cache in one step, with a snapshot of every vehicle it
\* has selected, whichever of them fail and wherever it is cancelled; and it returns
\* an error only if all it put there are failures: unsupported or unavailable
\* signals never make it fail (RefreshAll, RefreshVehicle; README.md:97).
RefreshIsAtomic == Atomic!Spec
================================================================================
