-------------------------- MODULE RefreshServiceProofs -------------------------
(***************************************************************************)
(* Theorems about RefreshService for any set of vehicles, allowlist, API   *)
(* and number of overlapping requests.                                     *)
(***************************************************************************)
EXTENDS RefreshService, FiniteSetTheorems, TLAPS

--------------------------------------------------------------------------------
(* Lemmas about the operators *)

\* A snapshot that carries the signals read so far is a snapshot.
LEMMA FailedSnapshotType == FailedSnapshot \in Snapshot
BY DEF FailedSnapshot, Snapshot, NoSignals

\* NotCached is no snapshot, so a batch has a key for every snapshot put into it.
LEMMA KeysOfBatch ==
    ASSUME NEW b \in Batch
    PROVE  \A v \in VehicleID : v \in Keys(b) <=> b[v] \in Snapshot
BY VehicleAssumption DEF Keys, Batch

LEMMA SignalType == ASSUME NEW status PROVE SignalOf(status) \in SignalState
BY DEF SignalOf, MapSignalState, SignalState

\* Assigning to fields of a request's locals keeps them typed.
LEMMA SetPending ==
    ASSUME NEW w \in Work, NEW p \in [VehicleID -> Nat]
    PROVE  [w EXCEPT !.pending = p] \in Work
BY Zenon DEF Work

LEMMA SetBatch ==
    ASSUME NEW w \in Work, NEW p \in [VehicleID -> Nat], NEW b \in Batch,
           NEW n \in Nat, NEW m \in Nat
    PROVE  [w EXCEPT !.pending = p, !.batch = b, !.size = n, !.failed = m] \in Work
BY Zenon DEF Work

LEMMA SetCurrent ==
    ASSUME NEW w \in Work, NEW v \in VehicleID, NEW i \in Nat,
           NEW s \in [Code -> SignalState \cup {"absent"}], NEW n \in Nat
    PROVE  [w EXCEPT !.current = v, !.index = i, !.signals = s, !.failures = n] \in Work
BY Zenon DEF Work

LEMMA SetSignals ==
    ASSUME NEW w \in Work, NEW s \in [Code -> SignalState \cup {"absent"}],
           NEW n \in Nat, NEW i \in Nat
    PROVE  [w EXCEPT !.signals = s, !.failures = n, !.index = i] \in Work
BY Zenon DEF Work

LEMMA SetListed ==
    ASSUME NEW w \in Work, NEW n \in Nat
    PROVE  [w EXCEPT !.listed = n] \in Work
BY Zenon DEF Work

\* Keeping the snapshot of a vehicle that was pending keeps the locals typed.
LEMMA Append1Type ==
    ASSUME NEW w \in Work, NEW v \in VehicleID, NEW s \in Snapshot, w.pending[v] > 0
    PROVE  Append1(w, v, s) \in Work
<1> DEFINE p == [w.pending EXCEPT ![v] = @ - 1]
           b == [w.batch EXCEPT ![v] = s]
           n == w.size + 1
           m == IF IsFailure(s) THEN w.failed + 1 ELSE w.failed
<1>1. p \in [VehicleID -> Nat]
  BY DEF Work
<1>2. b \in Batch
  BY DEF Work, Batch
<1>3. n \in Nat /\ m \in Nat
  BY DEF Work
<1>4. Append1(w, v, s) = [w EXCEPT !.pending = p, !.batch = b, !.size = n, !.failed = m]
  BY DEF Append1
<1> HIDE DEF p, b, n, m
<1>5. [w EXCEPT !.pending = p, !.batch = b, !.size = n, !.failed = m] \in Work
  BY <1>1, <1>2, <1>3, SetBatch, Zenon
<1> QED
  BY <1>4, <1>5, Zenon

\* So does adding the reply to a GetSignal.
LEMMA AddSignalType ==
    ASSUME NEW w \in Work, NEW code, NEW status
    PROVE  /\ AddSignal(w, code, status) \in Work
           /\ AddSignal(w, code, status).current = w.current
           /\ AddSignal(w, code, status).pending = w.pending
<1> DEFINE s == [w.signals EXCEPT ![code] = SignalOf(status)]
           n == IF status = 200 THEN w.failures ELSE w.failures + 1
           m == w.index + 1
<1>1. s \in [Code -> SignalState \cup {"absent"}]
  BY SignalType DEF Work
<1>2. n \in Nat /\ m \in Nat
  BY DEF Work
<1>3. AddSignal(w, code, status) = [w EXCEPT !.signals = s, !.failures = n, !.index = m]
  BY DEF AddSignal
<1> HIDE DEF s, n, m
<1>4. [w EXCEPT !.signals = s, !.failures = n, !.index = m] \in Work
  BY <1>1, <1>2, SetSignals, Zenon
<1>5. AddSignal(w, code, status) \in Work
  BY <1>3, <1>4, Zenon
<1> QED
  BY <1>3, <1>5 DEF Work

\* The snapshot of a vehicle whose signals were read is a snapshot.
LEMMA SnapshotOfType ==
    ASSUME NEW w \in Work, NEW time \in Nat PROVE SnapshotOf(w, time) \in Snapshot
<1> DEFINE e == w.failures > 0
<1>1. e \in BOOLEAN /\ w.signals \in [Code -> SignalState \cup {"absent"}]
  BY DEF Work
<1> HIDE DEF e
<1>2. [err |-> e, partial |-> e, signals |-> w.signals, refreshedAt |-> time] \in Snapshot
  BY <1>1, Zenon DEF Snapshot
<1> QED
  BY <1>2 DEF SnapshotOf, e

\* What ListConnections selects counts connections, none for another vehicle.
LEMMA SelectionType ==
    ASSUME NEW r \in Request, NEW conns \in Connections
    PROVE  Selection(r, conns) \in [VehicleID -> Nat]
BY ReplyAssumption DEF Selection, FilterConnections, Only, NoWork

--------------------------------------------------------------------------------
(* Type correctness.  While a request reads the signals of a vehicle that      *)
(* vehicle is still pending, so the count of connections left never runs below *)
(* zero.                                                                       *)

CurrentPending ==
    \A r \in Request : pc[r] = "signals" =>
        work[r].current \in VehicleID /\ work[r].pending[work[r].current] > 0

TypeInv == TypeOK /\ CurrentPending

\* The inductive invariant behind type correctness.
LEMMA TypeInvariant == Init /\ [][Next]_vars => []TypeInv
<1>1. Init => TypeInv
  BY VehicleAssumption
  DEF Init, TypeInv, TypeOK, CurrentPending, CacheInit, CacheTypeOK, NoWork, Work,
      NoVehicles, Batch, NoSignals, PC
<1>2. TypeInv /\ [Next]_vars => TypeInv'
  <2> SUFFICES ASSUME TypeInv, [Next]_vars PROVE TypeInv'
    OBVIOUS
  <2> USE DEF TypeInv, TypeOK, CurrentPending, CacheTypeOK, cacheVars, Goto, PC
  <2>1. ASSUME NEW r \in Request, NEW t \in VehicleID \cup {AllVehicles}, BeginListing(r, t)
        PROVE  TypeInv'
    BY <2>1 DEF BeginListing
  <2>2. ASSUME NEW r \in Request, NEW t \in VehicleID \cup {AllVehicles}, BeginAllowed(r, t)
        PROVE  TypeInv'
    <3>1. t \in VehicleID
      BY <2>2, VehicleAssumption DEF BeginAllowed
    <3>2. [work[r] EXCEPT !.pending = Only(t)] \in Work
      <4>1. Only(t) \in [VehicleID -> Nat]
        BY DEF Only
      <4> QED
        BY <4>1, SetPending, Zenon
    <3>3. work' \in [Request -> Work]
      BY <2>2, <3>2 DEF BeginAllowed
    <3> QED
      BY <2>2, <3>3 DEF BeginAllowed
  <2>3. ASSUME NEW r \in Request, NEW t \in VehicleID \cup {AllVehicles},
               RejectNotAllowed(r, t)
        PROVE  TypeInv'
    BY <2>3 DEF RejectNotAllowed, ReturnError, SetLastError, Return, StoredError
  <2>4. ASSUME NEW r \in Request, Cancel(r) PROVE TypeInv'
    BY <2>4 DEF Cancel
  <2>5. ASSUME NEW r \in Request, ListFails(r) PROVE TypeInv'
    BY <2>5 DEF ListFails, ReturnError, SetLastError, Return, StoredError
  <2>6. ASSUME NEW r \in Request, NEW conns \in Connections, ListSelectsNone(r, conns)
        PROVE  TypeInv'
    BY <2>6 DEF ListSelectsNone, ReturnError, SetLastError, Return, StoredError
  <2>7. ASSUME NEW r \in Request, NEW conns \in Connections, ListSelects(r, conns)
        PROVE  TypeInv'
    <3>1. [work[r] EXCEPT !.pending = Selection(r, conns)] \in Work
      BY SelectionType, SetPending, Zenon
    <3>2. work' \in [Request -> Work]
      BY <2>7, <3>1 DEF ListSelects
    <3> QED
      BY <2>7, <3>2 DEF ListSelects
  <2>8. ASSUME NEW r \in Request, NEW v \in VehicleID, GetVehicleFails(r, v) PROVE TypeInv'
    <3>1. work[r].pending[v] > 0
      BY <2>8 DEF GetVehicleFails, IsNext, Selected
    <3>2. Append1(work[r], v, FailedSnapshot) \in Work
      BY <3>1, Append1Type, FailedSnapshotType
    <3>3. work' \in [Request -> Work]
      BY <2>8, <3>2 DEF GetVehicleFails
    <3> QED
      BY <2>8, <3>3 DEF GetVehicleFails
  <2>9. ASSUME NEW r \in Request, NEW v \in VehicleID, GetVehicleReplies(r, v) PROVE TypeInv'
    <3> DEFINE w == [work[r] EXCEPT !.current = v, !.index = 1, !.signals = NoSignals,
                                    !.failures = 0]
    <3>0. 0 \in Nat /\ 1 \in Nat
      OBVIOUS
    <3>1. NoSignals \in [Code -> SignalState \cup {"absent"}]
      BY DEF NoSignals
    <3>2. w \in Work
      BY <3>0, <3>1, SetCurrent, Zenon
    <3>3. w.current = v /\ w.pending = work[r].pending
      BY DEF Work
    <3>4. work' = [work EXCEPT ![r] = w]
      BY <2>9 DEF GetVehicleReplies
    <3>5. work[r].pending[v] > 0
      BY <2>9 DEF GetVehicleReplies, IsNext, Selected
    <3> HIDE DEF w
    <3>6. TypeOK'
      <4>1. work' \in [Request -> Work]
        BY <3>2, <3>4
      <4> QED
        BY <2>9, <4>1 DEF GetVehicleReplies
    <3>7. ASSUME NEW q \in Request, pc'[q] = "signals"
          PROVE  work'[q].current \in VehicleID /\ work'[q].pending[work'[q].current] > 0
      BY <2>9, <3>3, <3>4, <3>5, <3>7 DEF GetVehicleReplies
    <3> QED
      BY <3>6, <3>7
  <2>10. ASSUME NEW r \in Request, NEW status \in Replies, GetSignal(r, status) PROVE TypeInv'
    <3> DEFINE w == AddSignal(work[r], SignalCodes[work[r].index], status)
    <3>1. w \in Work /\ w.current = work[r].current /\ w.pending = work[r].pending
      BY AddSignalType
    <3>2. work' = [work EXCEPT ![r] = w]
      BY <2>10 DEF GetSignal
    <3> HIDE DEF w
    <3> QED
      BY <2>10, <3>1, <3>2 DEF GetSignal
  <2>11. ASSUME NEW r \in Request, TakeSnapshot(r) PROVE TypeInv'
    <3>1. SnapshotOf(work[r], now + 1) \in Snapshot
      BY SnapshotOfType
    <3>2. work[r].current \in VehicleID /\ work[r].pending[work[r].current] > 0
      BY <2>11 DEF TakeSnapshot
    <3>3. Append1(work[r], work[r].current, SnapshotOf(work[r], now + 1)) \in Work
      BY <3>1, <3>2, Append1Type
    <3>4. work' \in [Request -> Work]
      BY <2>11, <3>3 DEF TakeSnapshot
    <3> QED
      BY <2>11, <3>4 DEF TakeSnapshot
  <2>12. ASSUME NEW r \in Request, SaveSnapshots(r) PROVE TypeInv'
    <3>1. work[r].batch \in Batch
      BY DEF Work
    <3>2. vehicles' \in Batch
      BY <2>12, <3>1 DEF SaveSnapshots, SaveMany, Batch
    <3> QED
      BY <2>12, <3>2 DEF SaveSnapshots
  <2>13. ASSUME NEW r \in Request, ClearError(r) PROVE TypeInv'
    BY <2>13 DEF ClearError, SetLastError
  <2>14. ASSUME NEW r \in Request, CountCached(r) PROVE TypeInv'
    <3>1. Cardinality(Keys(vehicles)) \in Nat
      BY VehicleAssumption, FS_Subset, FS_CardinalityType DEF Keys
    <3>2. [work[r] EXCEPT !.listed = Cardinality(Keys(vehicles))] \in Work
      BY <3>1, SetListed, Zenon
    <3>3. work' \in [Request -> Work]
      BY <2>14, <3>2 DEF CountCached
    <3> QED
      BY <2>14, <3>3 DEF CountCached
  <2>15. ASSUME NEW r \in Request, SetGauge(r) PROVE TypeInv'
    <3>1. work[r].listed \in Nat
      BY DEF Work
    <3> QED
      BY <2>15, <3>1 DEF SetGauge, Return
  <2>16. ASSUME NEW r \in Request, ReportFailure(r) PROVE TypeInv'
    BY <2>16 DEF ReportFailure, ReturnError, SetLastError, Return, StoredError
  <2>17. CASE UNCHANGED vars
    BY <2>17 DEF vars, serviceVars
  <2> QED
    BY <2>1, <2>2, <2>3, <2>4, <2>5, <2>6, <2>7, <2>8, <2>9, <2>10, <2>11, <2>12, <2>13,
       <2>14, <2>15, <2>16, <2>17
    DEF Next, Begin, Progress, ListConnections, RefreshSnapshot, Finish
<1> QED
  BY <1>1, <1>2, PTL DEF Spec

\* Every value stays in its type, whatever requests overlap: no count of the
\* service runs below zero and no error or signal state is left without a name.
THEOREM TypeCorrect == Spec => []TypeOK
BY TypeInvariant, PTL DEF Spec, TypeInv

--------------------------------------------------------------------------------
(* The gauge.  Keys are never taken out of the cache, so a count of them taken *)
(* earlier is at most the count now; the invariant says so of the counts that  *)
(* requests hold between List() and SetCachedVehicles.                         *)

GaugeInv ==
    /\ GaugeNeverAhead
    /\ \A r \in Request : pc[r] = "gauge" => work[r].listed <= Cardinality(Keys(vehicles))

\* No step takes a key out of the cache.
LEMMA KeysGrow == TypeInv /\ [Next]_vars => Keys(vehicles) \subseteq Keys(vehicles')
<1> SUFFICES ASSUME TypeInv, [Next]_vars PROVE Keys(vehicles) \subseteq Keys(vehicles')
  OBVIOUS
<1>1. CASE UNCHANGED vehicles
  BY <1>1
<1>2. ASSUME NEW r \in Request, SaveSnapshots(r) PROVE Keys(vehicles) \subseteq Keys(vehicles')
  BY <1>2 DEF SaveSnapshots, SaveMany, Keys
<1>3. (\E r \in Request : SaveSnapshots(r)) \/ UNCHANGED vehicles
  BY DEF Next, Begin, BeginListing, BeginAllowed, RejectNotAllowed, Cancel, Progress,
         ListConnections, ListFails, ListSelectsNone, ListSelects, RefreshSnapshot,
         GetVehicleFails, GetVehicleReplies, GetSignal, TakeSnapshot, Finish, ClearError,
         CountCached, SetGauge, ReportFailure, vars, cacheVars
<1> QED
  BY <1>1, <1>2, <1>3

\* So their number never goes down, and it is a natural number.
LEMMA CountGrows ==
    ASSUME TypeInv, [Next]_vars
    PROVE  /\ Cardinality(Keys(vehicles)) \in Nat
           /\ Cardinality(Keys(vehicles')) \in Nat
           /\ Cardinality(Keys(vehicles)) <= Cardinality(Keys(vehicles'))
<1>1. IsFiniteSet(Keys(vehicles'))
  BY VehicleAssumption, FS_Subset DEF Keys
<1>2. Keys(vehicles) \subseteq Keys(vehicles')
  BY KeysGrow
<1> QED
  BY <1>1, <1>2, FS_Subset, FS_CardinalityType

\* The cached-vehicles gauge never runs ahead of the cache.
THEOREM GaugeSafe == Spec => []GaugeNeverAhead
<1>1. Init => GaugeInv
  <2> SUFFICES ASSUME Init PROVE GaugeInv
    OBVIOUS
  <2>1. Keys(vehicles) = {}
    BY DEF Init, CacheInit, NoVehicles, Keys
  <2>2. Cardinality(Keys(vehicles)) = 0
    BY <2>1, FS_EmptySet
  <2> QED
    BY <2>2 DEF Init, GaugeInv, GaugeNeverAhead
<1>2. TypeInv /\ TypeInv' /\ GaugeInv /\ [Next]_vars => GaugeInv'
  <2> SUFFICES ASSUME TypeInv, TypeInv', GaugeInv, [Next]_vars PROVE GaugeInv'
    OBVIOUS
  <2> DEFINE n == Cardinality(Keys(vehicles))
             m == Cardinality(Keys(vehicles'))
  <2>1. n \in Nat /\ m \in Nat /\ n <= m
    BY CountGrows
  <2>2. cachedVehicles <= n /\ \A r \in Request : pc[r] = "gauge" => work[r].listed <= n
    BY DEF GaugeInv, GaugeNeverAhead
  <2>3. cachedVehicles \in Nat /\ \A r \in Request : work[r].listed \in Nat
    BY DEF TypeInv, TypeOK, Work
  <2>4. SUFFICES cachedVehicles' <= m /\ \A r \in Request : pc'[r] = "gauge" => work'[r].listed <= m
    BY DEF GaugeInv, GaugeNeverAhead
  <2>5. pc \in [Request -> PC] /\ work \in [Request -> Work]
    BY DEF TypeInv, TypeOK
  <2> HIDE DEF n, m
  <2>6. ASSUME NEW r \in Request, CountCached(r)
        PROVE  cachedVehicles' <= m /\ \A q \in Request : pc'[q] = "gauge" => work'[q].listed <= m
    <3>1. work' = [work EXCEPT ![r] = [work[r] EXCEPT !.listed = n]]
      BY <2>6 DEF CountCached, n
    <3>2. [work[r] EXCEPT !.listed = n].listed = n
      BY <2>5 DEF Work
    <3>3. cachedVehicles' = cachedVehicles /\ pc' = [pc EXCEPT ![r] = "gauge"]
      BY <2>6 DEF CountCached, Goto
    <3> QED
      BY <2>1, <2>2, <2>3, <2>5, <3>1, <3>2, <3>3
  <2>7. ASSUME NEW r \in Request, SetGauge(r)
        PROVE  cachedVehicles' <= m /\ \A q \in Request : pc'[q] = "gauge" => work'[q].listed <= m
    BY <2>1, <2>2, <2>3, <2>5, <2>7 DEF SetGauge, Goto, Return
  <2>8. ASSUME NEW r \in Request, Begin(r) \/ Cancel(r) \/ ListConnections(r)
                  \/ RefreshSnapshot(r) \/ SaveSnapshots(r) \/ ClearError(r) \/ ReportFailure(r)
        PROVE  cachedVehicles' <= m /\ \A q \in Request : pc'[q] = "gauge" => work'[q].listed <= m
    <3>1. /\ cachedVehicles' = cachedVehicles
          /\ \A q \in Request : pc'[q] = "gauge" => pc[q] = "gauge" /\ work'[q] = work[q]
      BY <2>5, <2>8
      DEF Begin, BeginListing, BeginAllowed, RejectNotAllowed, Cancel, ListConnections,
          ListFails, ListSelectsNone, ListSelects, RefreshSnapshot, GetVehicleFails,
          GetVehicleReplies, GetSignal, TakeSnapshot, SaveSnapshots, ClearError,
          ReportFailure, Goto, Return, ReturnError
    <3> QED
      BY <2>1, <2>2, <2>3, <3>1
  <2>9. CASE UNCHANGED vars
    BY <2>1, <2>2, <2>3, <2>9 DEF vars, serviceVars
  <2> QED
    BY <2>6, <2>7, <2>8, <2>9 DEF Next, Progress, Finish
<1> QED
  BY <1>1, <1>2, TypeInvariant, PTL DEF Spec, GaugeInv

--------------------------------------------------------------------------------
(* The banner.  A remembered error was returned by the request that left it,   *)
(* at every instant; no error is remembered only before the first request,     *)
(* while one is in flight or after one has succeeded.                          *)

BannerInv ==
    /\ lastError # "none" => \E r \in Request : Failing(r) /\ result[r] = lastError
    /\ lastError = "none" => \/ \A r \in Request : pc[r] = "idle"
                            \/ \E r \in Request : InFlight(r) \/ Succeeded(r)

\* Once no refresh is in flight, the dashboard's banner is the outcome of one.
THEOREM BannerSafe == Spec => []BannerAtRest
<1>1. Init => BannerInv
  BY DEF Init, CacheInit, BannerInv
<1>2. TypeInv /\ BannerInv /\ [Next]_vars => BannerInv'
  <2> SUFFICES ASSUME TypeInv, BannerInv, [Next]_vars PROVE BannerInv'
    OBVIOUS
  <2>1. pc \in [Request -> PC] /\ result \in [Request -> StoredError \cup {"none"}]
    BY DEF TypeInv, TypeOK
  <2> USE DEF BannerInv, Failing, Succeeded, InFlight
  <2>2. ASSUME NEW r \in Request, NEW e \in StoredError, pc[r] # "returned", ReturnError(r, e)
        PROVE  BannerInv'
    <3>1. lastError' = e /\ pc'[r] = "returned" /\ result'[r] = e /\ e # "none"
      BY <2>1, <2>2 DEF ReturnError, SetLastError, Return, Goto, StoredError
    <3> QED
      BY <3>1
  <2>3. ASSUME NEW r \in Request, pc[r] # "returned", UNCHANGED result,
               lastError' \in {lastError, "none"},
               NEW to \in PC \ {"idle", "returned"}, Goto(r, to)
        PROVE  BannerInv'
    <3>1. pc' = [pc EXCEPT ![r] = to] /\ pc'[r] = to
      BY <2>1, <2>3 DEF Goto
    <3>2. CASE lastError' = "none"
      BY <3>1, <3>2
    <3>3. CASE lastError' = lastError
      BY <2>1, <2>3, <3>1, <3>3
    <3> QED
      BY <2>3, <3>2, <3>3
  <2>4. ASSUME NEW r \in Request, Begin(r) PROVE BannerInv'
    <3>1. CASE \E t \in VehicleID \cup {AllVehicles} : BeginListing(r, t)
      BY <2>3, <3>1 DEF BeginListing, cacheVars, PC
    <3>2. CASE \E t \in VehicleID \cup {AllVehicles} : BeginAllowed(r, t)
      BY <2>3, <3>2 DEF BeginAllowed, cacheVars, PC
    <3>3. CASE \E t \in VehicleID \cup {AllVehicles} : RejectNotAllowed(r, t)
      BY <2>2, <3>3 DEF RejectNotAllowed, StoredError
    <3> QED
      BY <2>4, <3>1, <3>2, <3>3 DEF Begin
  <2>5. ASSUME NEW r \in Request, Cancel(r) PROVE BannerInv'
    BY <2>5 DEF Cancel, cacheVars
  <2>6. ASSUME NEW r \in Request, ListConnections(r) PROVE BannerInv'
    <3>1. CASE ListFails(r)
      BY <2>2, <3>1 DEF ListFails, StoredError
    <3>2. CASE \E conns \in Connections : ListSelectsNone(r, conns)
      BY <2>2, <3>2 DEF ListSelectsNone, StoredError
    <3>3. CASE \E conns \in Connections : ListSelects(r, conns)
      BY <2>3, <3>3 DEF ListSelects, cacheVars, PC
    <3> QED
      BY <2>6, <3>1, <3>2, <3>3 DEF ListConnections
  <2>7. ASSUME NEW r \in Request, RefreshSnapshot(r) PROVE BannerInv'
    <3>1. CASE \E v \in VehicleID : GetVehicleFails(r, v)
      BY <3>1 DEF GetVehicleFails, cacheVars
    <3>2. CASE \E v \in VehicleID : GetVehicleReplies(r, v)
      BY <2>3, <3>2 DEF GetVehicleReplies, cacheVars, PC
    <3>3. CASE \E status \in Replies : GetSignal(r, status)
      BY <3>3 DEF GetSignal, cacheVars
    <3>4. CASE TakeSnapshot(r)
      BY <2>3, <3>4 DEF TakeSnapshot, cacheVars, PC
    <3> QED
      BY <2>7, <3>1, <3>2, <3>3, <3>4 DEF RefreshSnapshot
  <2>8. ASSUME NEW r \in Request, Finish(r) PROVE BannerInv'
    <3>1. CASE SaveSnapshots(r)
      BY <2>3, <3>1 DEF SaveSnapshots, PC
    <3>2. CASE ClearError(r)
      BY <2>3, <3>2 DEF ClearError, SetLastError, PC
    <3>3. CASE CountCached(r)
      BY <2>3, <3>3 DEF CountCached, cacheVars, PC
    <3>4. CASE SetGauge(r)
      <4>1. CASE AllFailed(r)
        BY <2>3, <3>4, <4>1 DEF SetGauge, cacheVars, PC
      <4>2. CASE ~AllFailed(r)
        <5>1. /\ lastError' = lastError
              /\ pc' = [pc EXCEPT ![r] = "returned"]
              /\ result' = [result EXCEPT ![r] = "none"]
              /\ pc[r] = "gauge"
          BY <3>4, <4>2 DEF SetGauge, Return, Goto, cacheVars
        <5> QED
          BY <2>1, <5>1
      <4> QED
        BY <4>1, <4>2
    <3>5. CASE ReportFailure(r)
      BY <2>2, <3>5 DEF ReportFailure, StoredError
    <3> QED
      BY <2>8, <3>1, <3>2, <3>3, <3>4, <3>5 DEF Finish
  <2>9. CASE UNCHANGED vars
    BY <2>9 DEF vars, cacheVars, serviceVars
  <2> QED
    BY <2>4, <2>5, <2>6, <2>7, <2>8, <2>9 DEF Next, Progress
<1>3. BannerInv => BannerAtRest
  BY DEF BannerInv, BannerAtRest
<1> QED
  BY <1>1, <1>2, <1>3, TypeInvariant, PTL DEF Spec

--------------------------------------------------------------------------------
(***************************************************************************)
(* What the refresh service writes into the cache.  The argument follows a *)
(* snapshot from the locals of its request, work[r], through the batch     *)
(* into the cache.                                                         *)
(***************************************************************************)

(* Lemmas: what the steps do to the locals of a request *)

\* Keeping a snapshot counts it, and adds its vehicle to the batch ...
LEMMA Append1Fields ==
    ASSUME NEW w \in Work, NEW v \in VehicleID, NEW s \in Snapshot
    PROVE  /\ Append1(w, v, s).pending = [w.pending EXCEPT ![v] = @ - 1]
           /\ Append1(w, v, s).batch = [w.batch EXCEPT ![v] = s]
           /\ Append1(w, v, s).size = w.size + 1
           /\ Append1(w, v, s).failed = IF IsFailure(s) THEN w.failed + 1 ELSE w.failed
BY DEF Append1, Work

\* ... and no other vehicle to what is pending or in the batch.
LEMMA Append1Keys ==
    ASSUME NEW w \in Work, NEW v \in VehicleID, NEW s \in Snapshot
    PROVE  /\ Keys(Append1(w, v, s).batch) \subseteq Keys(w.batch) \cup {v}
           /\ Selected(Append1(w, v, s).pending) \subseteq Selected(w.pending)
<1>1. w.batch \in Batch /\ w.pending \in [VehicleID -> Nat]
  BY DEF Work
<1>2. Keys([w.batch EXCEPT ![v] = s]) \subseteq Keys(w.batch) \cup {v}
  BY <1>1, VehicleAssumption DEF Batch, Keys
<1>3. Selected([w.pending EXCEPT ![v] = @ - 1]) \subseteq Selected(w.pending)
  BY <1>1 DEF Selected
<1> QED
  BY <1>2, <1>3, Append1Fields

\* The steps between two snapshots leave the batch and what is pending alone.
LEMMA OtherFields ==
    ASSUME TypeInv, NEW r \in Request,
           \/ \E v \in VehicleID : GetVehicleReplies(r, v)
           \/ \E status \in Replies : GetSignal(r, status)
           \/ CountCached(r)
    PROVE  /\ vehicles' = vehicles
           /\ \A q \in Request : /\ work'[q].pending = work[q].pending
                                 /\ work'[q].batch = work[q].batch
                                 /\ work'[q].size = work[q].size
                                 /\ work'[q].failed = work[q].failed
<1> USE DEF TypeInv, TypeOK, cacheVars
<1>1. ASSUME NEW v \in VehicleID, GetVehicleReplies(r, v)
      PROVE  /\ vehicles' = vehicles
             /\ \E w \in Work : /\ work' = [work EXCEPT ![r] = w]
                               /\ w.pending = work[r].pending /\ w.batch = work[r].batch
                               /\ w.size = work[r].size /\ w.failed = work[r].failed
  <2> DEFINE w == [work[r] EXCEPT !.current = v, !.index = 1, !.signals = NoSignals,
                                  !.failures = 0]
  <2>1. NoSignals \in [Code -> SignalState \cup {"absent"}] /\ 0 \in Nat /\ 1 \in Nat
    BY DEF NoSignals
  <2>2. w \in Work
    BY <2>1, SetCurrent, Zenon
  <2>3. /\ w.pending = work[r].pending /\ w.batch = work[r].batch
        /\ w.size = work[r].size /\ w.failed = work[r].failed
    BY DEF Work
  <2>4. vehicles' = vehicles /\ work' = [work EXCEPT ![r] = w]
    BY <1>1 DEF GetVehicleReplies
  <2> HIDE DEF w
  <2> QED
    BY <2>2, <2>3, <2>4
<1>2. ASSUME NEW status \in Replies, GetSignal(r, status)
      PROVE  /\ vehicles' = vehicles
             /\ \E w \in Work : /\ work' = [work EXCEPT ![r] = w]
                               /\ w.pending = work[r].pending /\ w.batch = work[r].batch
                               /\ w.size = work[r].size /\ w.failed = work[r].failed
  <2> DEFINE w == AddSignal(work[r], SignalCodes[work[r].index], status)
  <2>1. w \in Work
    BY AddSignalType
  <2>2. /\ w.pending = work[r].pending /\ w.batch = work[r].batch
        /\ w.size = work[r].size /\ w.failed = work[r].failed
    BY DEF AddSignal, Work
  <2>3. vehicles' = vehicles /\ work' = [work EXCEPT ![r] = w]
    BY <1>2 DEF GetSignal
  <2> HIDE DEF w
  <2> QED
    BY <2>1, <2>2, <2>3
<1>3. CASE CountCached(r)
  BY <1>3 DEF CountCached, Work
<1> QED
  BY <1>1, <1>2, <1>3

--------------------------------------------------------------------------------
(* The allowlist.  With one, RefreshVehicle never lists and the listing of     *)
(* RefreshAll is filtered, so nothing off it is ever pending, in a batch or in *)
(* the cache.                                                                  *)

AllowedInv == Allowed # {} =>
    /\ Keys(vehicles) \subseteq Allowed
    /\ \A r \in Request : /\ Selected(work[r].pending) \subseteq Allowed
                          /\ Keys(work[r].batch) \subseteq Allowed
                          /\ pc[r] = "list" => target[r] = AllVehicles

\* No step brings a vehicle off the allowlist any closer to the cache.
LEMMA AllowedStep == TypeInv /\ AllowedInv /\ [Next]_vars => AllowedInv'
<1> SUFFICES ASSUME TypeInv, AllowedInv, [Next]_vars, Allowed # {} PROVE AllowedInv'
  BY DEF AllowedInv
<1>1. /\ pc \in [Request -> PC] /\ work \in [Request -> Work]
      /\ target \in [Request -> VehicleID \cup {AllVehicles}]
  BY DEF TypeInv, TypeOK
<1> USE DEF AllowedInv
<1>2. ASSUME NEW r \in Request, NEW t \in VehicleID \cup {AllVehicles}, BeginListing(r, t)
      PROVE  AllowedInv'
  BY <1>1, <1>2 DEF BeginListing, Goto, cacheVars
<1>3. ASSUME NEW r \in Request, NEW t \in VehicleID \cup {AllVehicles}, BeginAllowed(r, t)
      PROVE  AllowedInv'
  <2>1. /\ work'[r].pending = Only(t) /\ work'[r].batch = work[r].batch
        /\ \A q \in Request \ {r} : work'[q] = work[q]
    BY <1>1, <1>3 DEF BeginAllowed, Work
  <2>2. Selected(Only(t)) \subseteq Allowed
    BY <1>3 DEF BeginAllowed, Selected, Only
  <2> QED
    BY <1>1, <1>3, <2>1, <2>2 DEF BeginAllowed, Goto, cacheVars
<1>4. ASSUME NEW r \in Request, NEW conns \in Connections, ListSelects(r, conns)
      PROVE  AllowedInv'
  <2>1. target[r] = AllVehicles
    BY <1>4 DEF ListSelects
  <2>2. Selection(r, conns) = [v \in VehicleID |-> IF v \in Allowed THEN conns[v] ELSE 0]
    BY <2>1 DEF Selection, FilterConnections
  <2>3. Selected(Selection(r, conns)) \subseteq Allowed
    BY <2>2 DEF Selected
  <2>4. /\ work'[r].pending = Selection(r, conns) /\ work'[r].batch = work[r].batch
        /\ \A q \in Request \ {r} : work'[q] = work[q]
    BY <1>1, <1>4 DEF ListSelects, Work
  <2> QED
    BY <1>1, <1>4, <2>3, <2>4 DEF ListSelects, Goto, cacheVars
<1>5. ASSUME NEW r \in Request, NEW v \in VehicleID, NEW s \in Snapshot,
             work[r].pending[v] > 0, work' = [work EXCEPT ![r] = Append1(@, v, s)],
             UNCHANGED <<vehicles, target>>, NEW to \in PC \ {"list"},
             pc' = [pc EXCEPT ![r] = to]
      PROVE  AllowedInv'
  <2>1. v \in Allowed
    BY <1>5 DEF Selected
  <2>2. /\ Keys(work'[r].batch) \subseteq Keys(work[r].batch) \cup {v}
        /\ Selected(work'[r].pending) \subseteq Selected(work[r].pending)
    <3>1. work'[r] = Append1(work[r], v, s) /\ work[r] \in Work
      BY <1>1, <1>5
    <3> QED
      BY <3>1, Append1Keys, Zenon
  <2> QED
    BY <1>1, <1>5, <2>1, <2>2
<1>6. ASSUME NEW r \in Request, NEW v \in VehicleID, GetVehicleFails(r, v) PROVE AllowedInv'
  <2>1. pc' = [pc EXCEPT ![r] = "refresh"]
    BY <1>1, <1>6 DEF GetVehicleFails
  <2> QED
    BY <1>5, <1>6, <2>1, FailedSnapshotType
    DEF GetVehicleFails, IsNext, Selected, PC, cacheVars
<1>7. ASSUME NEW r \in Request, TakeSnapshot(r) PROVE AllowedInv'
  <2>1. work[r].current \in VehicleID /\ work[r].pending[work[r].current] > 0
    BY <1>7 DEF TakeSnapshot, TypeInv, CurrentPending
  <2>2. SnapshotOf(work[r], now + 1) \in Snapshot
    BY <1>1, SnapshotOfType DEF TypeInv, TypeOK
  <2> QED
    BY <1>5, <1>7, <2>1, <2>2 DEF TakeSnapshot, Goto, PC, cacheVars
<1>8. ASSUME NEW r \in Request, SaveSnapshots(r) PROVE AllowedInv'
  <2>1. Keys(vehicles') \subseteq Keys(vehicles) \cup Keys(work[r].batch)
    BY <1>8 DEF SaveSnapshots, SaveMany, Keys
  <2> QED
    BY <1>1, <1>8, <2>1 DEF SaveSnapshots, Goto
<1>9. ASSUME NEW r \in Request,
             \/ \E v \in VehicleID : GetVehicleReplies(r, v)
             \/ \E status \in Replies : GetSignal(r, status)
             \/ CountCached(r)
      PROVE  AllowedInv'
  <2>1. \A q \in Request : pc'[q] = "list" => pc[q] = "list" /\ target'[q] = target[q]
    BY <1>1, <1>9 DEF GetVehicleReplies, GetSignal, CountCached, Goto
  <2> QED
    BY <1>9, <2>1, OtherFields
<1>10. ASSUME NEW r \in Request,
              \/ \E t \in VehicleID \cup {AllVehicles} : RejectNotAllowed(r, t)
              \/ Cancel(r) \/ ListFails(r)
              \/ \E conns \in Connections : ListSelectsNone(r, conns)
              \/ ClearError(r) \/ SetGauge(r) \/ ReportFailure(r)
       PROVE  AllowedInv'
  <2>1. /\ vehicles' = vehicles /\ work' = work
        /\ \A q \in Request : pc'[q] = "list" => pc[q] = "list" /\ target'[q] = target[q]
    BY <1>1, <1>10
    DEF RejectNotAllowed, Cancel, ListFails, ListSelectsNone, ClearError, SetGauge,
        ReportFailure, ReturnError, Return, Goto, cacheVars
  <2> QED
    BY <2>1
<1>11. CASE UNCHANGED vars
  BY <1>11 DEF vars, cacheVars, serviceVars
<1> QED
  BY <1>2, <1>3, <1>4, <1>6, <1>7, <1>8, <1>9, <1>10, <1>11
  DEF Next, Begin, Progress, ListConnections, RefreshSnapshot, Finish

LEMMA AllowedInvariant == Init /\ [][Next]_vars => []AllowedInv
<1>1. Init => AllowedInv
  BY DEF Init, AllowedInv, CacheInit, NoVehicles, NoWork, Keys, Selected
<1> QED
  BY <1>1, AllowedStep, TypeInvariant, PTL

\* With an allowlist nothing off it reaches the cache, whatever the API lists
\* and whatever vehicle a refresh names (filterConnections, RefreshVehicle).
THEOREM AllowlistSafe == Spec => []OnlyAllowedCached
<1>1. AllowedInv => OnlyAllowedCached
  BY DEF AllowedInv, OnlyAllowedCached
<1> QED
  BY <1>1, AllowedInvariant, PTL DEF Spec

--------------------------------------------------------------------------------
(* Coherence.  While the signals of a vehicle are read, every code read so far *)
(* has an entry, every entry that is not ok has been counted, and what has been*)
(* counted shows unless the same code was asked for again; a snapshot is made  *)
(* of them only once all codes are read, and never changes afterwards.         *)

\* The code at place i of the list is also at one after it, but before place n.
AskedBefore(i, n) == \E j \in i + 1..n - 1 : SignalCodes[j] = SignalCodes[i]

Reading(w) ==
    /\ w.index \in 1..Len(SignalCodes) + 1
    /\ \A i \in 1..w.index - 1 : w.signals[SignalCodes[i]] # "absent"
    /\ (\E c \in Code : w.signals[c] \notin {"ok", "absent"}) => w.failures > 0
    /\ w.failures > 0 => \E i \in 1..w.index - 1 :
           w.signals[SignalCodes[i]] # "ok" \/ AskedBefore(i, w.index)

CoherentAt(s, time) ==
    \/ s = FailedSnapshot
    \/ /\ s.refreshedAt \in 1..time
       /\ s.partial = s.err
       /\ \A i \in 1..Len(SignalCodes) : s.signals[SignalCodes[i]] # "absent"
       /\ (\E c \in Code : s.signals[c] \notin {"ok", "absent"}) => s.partial
       /\ s.partial => \E i \in 1..Len(SignalCodes) :
                          s.signals[SignalCodes[i]] # "ok" \/ AskedAgain(i)

CoherentInv ==
    /\ \A v \in Keys(vehicles) : CoherentAt(vehicles[v], now)
    /\ \A r \in Request :
           /\ \A v \in Keys(work[r].batch) : CoherentAt(work[r].batch[v], now)
           /\ pc[r] = "signals" => Reading(work[r])

\* The configured codes are codes, at the positions the loop runs over.
LEMMA CodeAt ==
    /\ Len(SignalCodes) \in Nat
    /\ \A i \in 1..Len(SignalCodes) : SignalCodes[i] \in Code
BY ReplyAssumption

\* The reply to a GetSignal leaves the reading consistent, whatever its status.
LEMMA AddSignalReading ==
    ASSUME NEW w \in Work, Reading(w), w.index <= Len(SignalCodes), NEW status
    PROVE  Reading(AddSignal(w, SignalCodes[w.index], status))
<1> DEFINE code == SignalCodes[w.index]
           a == AddSignal(w, code, status)
<1>1. w.index \in 1..Len(SignalCodes) /\ code \in Code
  BY CodeAt DEF Reading, Work
<1>2. w.signals \in [Code -> SignalState \cup {"absent"}] /\ w.failures \in Nat
  BY DEF Work
<1>3. /\ a.index = w.index + 1
      /\ a.signals = [w.signals EXCEPT ![code] = SignalOf(status)]
      /\ a.failures = IF status = 200 THEN w.failures ELSE w.failures + 1
  BY DEF AddSignal, Work
<1>4. SignalOf(status) # "absent" /\ (status = 200 <=> SignalOf(status) = "ok")
  BY DEF SignalOf, MapSignalState
<1> HIDE DEF a, code
<1>5. a.index \in 1..Len(SignalCodes) + 1
  BY <1>1, <1>3, CodeAt
<1>6. ASSUME NEW i \in 1..a.index - 1 PROVE a.signals[SignalCodes[i]] # "absent"
  <2>1. i \in 1..w.index - 1 \/ i = w.index
    BY <1>1, <1>3, CodeAt
  <2>2. i \in 1..Len(SignalCodes) /\ SignalCodes[i] \in Code
    BY <1>1, <2>1, CodeAt
  <2>3. CASE SignalCodes[i] = code
    BY <1>1, <1>2, <1>3, <1>4, <2>3
  <2>4. CASE SignalCodes[i] # code
    <3>1. i \in 1..w.index - 1
      BY <2>1, <2>4 DEF code
    <3> QED
      BY <1>2, <1>3, <2>2, <2>4, <3>1 DEF Reading
  <2> QED
    BY <2>3, <2>4
<1>7. ASSUME NEW c \in Code, a.signals[c] \notin {"ok", "absent"} PROVE a.failures > 0
  <2>1. CASE status = 200
    BY <1>1, <1>2, <1>3, <1>4, <1>7, <2>1 DEF Reading
  <2>2. CASE status # 200
    BY <1>2, <1>3, <2>2
  <2> QED
    BY <2>1, <2>2
<1>8. ASSUME a.failures > 0
      PROVE  \E i \in 1..a.index - 1 :
                 a.signals[SignalCodes[i]] # "ok" \/ AskedBefore(i, a.index)
  <2>1. CASE status # 200
    <3>1. w.index \in 1..a.index - 1 /\ a.signals[SignalCodes[w.index]] # "ok"
      BY <1>1, <1>2, <1>3, <1>4, <2>1, CodeAt DEF code
    <3> QED
      BY <3>1
  <2>2. CASE status = 200
    <3>1. PICK i \in 1..w.index - 1 :
                   w.signals[SignalCodes[i]] # "ok" \/ AskedBefore(i, w.index)
      BY <1>3, <1>8, <2>2 DEF Reading
    <3>2. i \in 1..a.index - 1 /\ SignalCodes[i] \in Code
      BY <1>1, <1>3, CodeAt
    <3>3. CASE SignalCodes[i] = code
      <4>1. w.index \in i + 1..a.index - 1
        BY <1>1, <1>3, CodeAt
      <4> QED
        BY <3>2, <3>3, <4>1 DEF AskedBefore, code
    <3>4. CASE SignalCodes[i] # code
      <4>1. AskedBefore(i, w.index) => AskedBefore(i, a.index)
        BY <1>1, <1>3, CodeAt DEF AskedBefore
      <4> QED
        BY <1>2, <1>3, <3>1, <3>2, <3>4, <4>1
    <3> QED
      BY <3>3, <3>4
  <2> QED
    BY <2>1, <2>2
<1>9. Reading(a)
  BY <1>5, <1>6, <1>7, <1>8 DEF Reading
<1> QED
  BY <1>9 DEF a, code

\* Once all codes are read, the snapshot made of them is coherent ...
LEMMA SnapshotCoherent ==
    ASSUME NEW w \in Work, Reading(w), w.index > Len(SignalCodes), NEW time \in Nat \ {0}
    PROVE  CoherentAt(SnapshotOf(w, time), time)
<1> DEFINE s == SnapshotOf(w, time)
<1>1. s.signals = w.signals /\ s.refreshedAt = time
  BY DEF SnapshotOf
<1>2. s.partial = (w.failures > 0) /\ s.err = (w.failures > 0)
  BY DEF SnapshotOf
<1>3. w.index = Len(SignalCodes) + 1
  BY CodeAt DEF Reading, Work
<1>4. \A i \in 1..Len(SignalCodes) : w.signals[SignalCodes[i]] # "absent"
  BY <1>3, CodeAt DEF Reading
<1>5. (\E c \in Code : w.signals[c] \notin {"ok", "absent"}) => w.failures > 0
  BY DEF Reading
<1>6. w.failures > 0 => \E i \in 1..Len(SignalCodes) :
                            w.signals[SignalCodes[i]] # "ok" \/ AskedAgain(i)
  <2>1. \A i \in 1..Len(SignalCodes) : AskedBefore(i, w.index) <=> AskedAgain(i)
    BY <1>3, CodeAt DEF AskedBefore, AskedAgain
  <2>2. 1..w.index - 1 = 1..Len(SignalCodes)
    BY <1>3, CodeAt
  <2> QED
    BY <2>1, <2>2 DEF Reading
<1>7. time \in 1..time
  OBVIOUS
<1> HIDE DEF s
<1>8. CoherentAt(s, time)
  BY <1>1, <1>2, <1>4, <1>5, <1>6, <1>7, Zenon DEF CoherentAt
<1> QED
  BY <1>8 DEF s

\* ... and stays so: the clock only moves on.
LEMMA CoherentLater ==
    ASSUME NEW s \in Snapshot, NEW t \in Nat, NEW u \in Nat, t <= u, CoherentAt(s, t)
    PROVE  CoherentAt(s, u)
<1>1. s.refreshedAt \in 1..t => s.refreshedAt \in 1..u
  BY DEF Snapshot
<1> QED
  BY <1>1, Zenon DEF CoherentAt

\* No step writes anything but coherent snapshots, into a batch or the cache.
LEMMA CoherentStep == TypeInv /\ CoherentInv /\ [Next]_vars => CoherentInv'
<1> SUFFICES ASSUME TypeInv, CoherentInv, [Next]_vars PROVE CoherentInv'
  OBVIOUS
<1>1. pc \in [Request -> PC] /\ work \in [Request -> Work] /\ now \in Nat
  BY DEF TypeInv, TypeOK
<1> USE DEF CoherentInv
<1>2. ASSUME NEW r \in Request, NEW p \in [VehicleID -> Nat],
             work' = [work EXCEPT ![r].pending = p], UNCHANGED <<vehicles, now>>,
             pc' = [pc EXCEPT ![r] = "refresh"]
      PROVE  CoherentInv'
  <2>1. \A q \in Request : work'[q].batch = work[q].batch
    BY <1>1, <1>2 DEF Work
  <2>2. \A q \in Request : pc'[q] = "signals" => pc[q] = "signals" /\ work'[q] = work[q]
    BY <1>1, <1>2
  <2> QED
    BY <1>2, <2>1, <2>2
<1>3. ASSUME NEW r \in Request, NEW t \in VehicleID \cup {AllVehicles}, BeginAllowed(r, t)
      PROVE  CoherentInv'
  <2>1. Only(t) \in [VehicleID -> Nat]
    BY DEF Only
  <2> QED
    BY <1>2, <1>3, <2>1 DEF BeginAllowed, Goto, cacheVars
<1>4. ASSUME NEW r \in Request, NEW conns \in Connections, ListSelects(r, conns)
      PROVE  CoherentInv'
  BY <1>2, <1>4, SelectionType DEF ListSelects, Goto, cacheVars
<1>5. ASSUME NEW r \in Request, NEW v \in VehicleID, NEW s \in Snapshot,
             work' = [work EXCEPT ![r] = Append1(@, v, s)], UNCHANGED vehicles,
             now' \in Nat, now <= now', CoherentAt(s, now'),
             pc' = [pc EXCEPT ![r] = "refresh"]
      PROVE  CoherentInv'
  <2>1. \A u \in Snapshot : CoherentAt(u, now) => CoherentAt(u, now')
    BY <1>1, <1>5, CoherentLater, Zenon
  <2>2. \A u \in Keys(vehicles') : CoherentAt(vehicles'[u], now')
    BY <1>5, <2>1, KeysOfBatch DEF TypeInv, TypeOK, CacheTypeOK, Keys
  <2>3. ASSUME NEW q \in Request, NEW u \in Keys(work'[q].batch)
        PROVE  CoherentAt(work'[q].batch[u], now')
    <3>1. \A p \in Request : work[p].batch \in Batch
      BY <1>1 DEF Work
    <3>2. CASE q # r
      <4>1. work'[q] = work[q]
        BY <1>1, <1>5, <3>2
      <4>2. u \in Keys(work[q].batch) /\ work[q].batch[u] \in Snapshot
        BY <2>3, <3>1, <4>1, KeysOfBatch DEF Keys
      <4> QED
        BY <2>1, <4>1, <4>2
    <3>3. CASE q = r
      <4>1. work'[q] = Append1(work[r], v, s)
        BY <1>1, <1>5, <3>3
      <4>2. work'[q].batch = [work[r].batch EXCEPT ![v] = s]
        <5>1. work[r] \in Work
          BY <1>1
        <5>2. Append1(work[r], v, s).batch = [work[r].batch EXCEPT ![v] = s]
          BY <5>1 DEF Append1, Work
        <5> QED
          BY <4>1, <5>2, Zenon
      <4>3. u \in VehicleID
        BY <2>3 DEF Keys
      <4>4. CASE u = v
        BY <1>5, <3>1, <4>2, <4>4 DEF Batch
      <4>5. CASE u # v
        <5>1. work'[q].batch[u] = work[r].batch[u]
          BY <3>1, <4>2, <4>3, <4>5 DEF Batch
        <5>2. u \in Keys(work[r].batch) /\ work[r].batch[u] \in Snapshot
          BY <2>3, <3>1, <4>3, <5>1, KeysOfBatch DEF Keys
        <5> QED
          BY <2>1, <5>1, <5>2
      <4> QED
        BY <4>4, <4>5
    <3> QED
      BY <3>2, <3>3
  <2>4. \A q \in Request : pc'[q] = "signals" => pc[q] = "signals" /\ work'[q] = work[q]
    BY <1>1, <1>5
  <2> QED
    BY <2>2, <2>3, <2>4
<1>6. ASSUME NEW r \in Request, NEW v \in VehicleID, GetVehicleFails(r, v) PROVE CoherentInv'
  <2>1. CoherentAt(FailedSnapshot, now)
    BY DEF CoherentAt
  <2>2. pc' = [pc EXCEPT ![r] = "refresh"] /\ UNCHANGED <<vehicles, now>>
    BY <1>1, <1>6 DEF GetVehicleFails, cacheVars
  <2>3. now' \in Nat /\ now <= now' /\ CoherentAt(FailedSnapshot, now')
    BY <1>1, <2>1, <2>2
  <2>4. work' = [work EXCEPT ![r] = Append1(@, v, FailedSnapshot)]
    BY <1>6 DEF GetVehicleFails
  <2> QED
    BY <1>5, <2>2, <2>3, <2>4, FailedSnapshotType, Zenon
<1>7. ASSUME NEW r \in Request, TakeSnapshot(r) PROVE CoherentInv'
  <2>1. /\ work[r].current \in VehicleID
        /\ Reading(work[r]) /\ work[r].index > Len(SignalCodes)
    BY <1>7 DEF TakeSnapshot, TypeInv, CurrentPending
  <2>2. now + 1 \in Nat \ {0} /\ now <= now + 1
    BY <1>1
  <2>3. CoherentAt(SnapshotOf(work[r], now + 1), now + 1)
    BY <1>1, <2>1, <2>2, SnapshotCoherent
  <2>4. SnapshotOf(work[r], now + 1) \in Snapshot
    BY <1>1, <2>2, SnapshotOfType
  <2> QED
    BY <1>5, <1>7, <2>1, <2>2, <2>3, <2>4 DEF TakeSnapshot, Goto, cacheVars
<1>8. ASSUME NEW r \in Request, SaveSnapshots(r) PROVE CoherentInv'
  <2>1. \A v \in Keys(vehicles') :
            \/ v \in Keys(work[r].batch) /\ vehicles'[v] = work[r].batch[v]
            \/ v \in Keys(vehicles) /\ vehicles'[v] = vehicles[v]
    BY <1>8 DEF SaveSnapshots, SaveMany, Keys
  <2>2. \A q \in Request : pc'[q] = "signals" => pc[q] = "signals"
    BY <1>1, <1>8 DEF SaveSnapshots, Goto
  <2> QED
    BY <1>8, <2>1, <2>2 DEF SaveSnapshots
<1>9. ASSUME NEW r \in Request, NEW v \in VehicleID, GetVehicleReplies(r, v) PROVE CoherentInv'
  <2> DEFINE w == [work[r] EXCEPT !.current = v, !.index = 1, !.signals = NoSignals,
                                  !.failures = 0]
  <2>1. work' = [work EXCEPT ![r] = w] /\ now' = now
    BY <1>9 DEF GetVehicleReplies
  <2>2. w.index = 1 /\ w.signals = NoSignals
    BY <1>1 DEF Work
  <2>3. Reading(w)
    BY <2>2, CodeAt DEF Reading, NoSignals
  <2> HIDE DEF w
  <2>4. \A q \in Request : pc'[q] = "signals" => Reading(work'[q])
    BY <1>1, <1>9, <2>1, <2>3 DEF GetVehicleReplies, Goto
  <2> QED
    BY <1>9, <2>1, <2>4, OtherFields
<1>10. ASSUME NEW r \in Request, NEW status \in Replies, GetSignal(r, status)
       PROVE  CoherentInv'
  <2>1. /\ pc' = pc /\ now' = now /\ pc[r] = "signals" /\ work[r].index <= Len(SignalCodes)
        /\ work' = [work EXCEPT ![r] = AddSignal(@, SignalCodes[@.index], status)]
    BY <1>10 DEF GetSignal
  <2>2. Reading(AddSignal(work[r], SignalCodes[work[r].index], status))
    BY <1>1, <2>1, AddSignalReading
  <2>3. \A q \in Request : pc'[q] = "signals" => Reading(work'[q])
    BY <1>1, <2>1, <2>2
  <2> QED
    BY <1>10, <2>1, <2>3, OtherFields
<1>11. ASSUME NEW r \in Request, CountCached(r) PROVE CoherentInv'
  <2>1. \A q \in Request : pc'[q] = "signals" => pc[q] = "signals" /\ work'[q] = work[q]
    BY <1>1, <1>11 DEF CountCached, Goto
  <2>2. now' = now
    BY <1>11 DEF CountCached
  <2> QED
    BY <1>11, <2>1, <2>2, OtherFields
<1>12. ASSUME NEW r \in Request,
              \/ \E t \in VehicleID \cup {AllVehicles} :
                     BeginListing(r, t) \/ RejectNotAllowed(r, t)
              \/ Cancel(r) \/ ListFails(r)
              \/ \E conns \in Connections : ListSelectsNone(r, conns)
              \/ ClearError(r) \/ SetGauge(r) \/ ReportFailure(r)
       PROVE  CoherentInv'
  <2>1. /\ vehicles' = vehicles /\ work' = work /\ now' = now
        /\ \A q \in Request : pc'[q] = "signals" => pc[q] = "signals"
    BY <1>1, <1>12
    DEF BeginListing, RejectNotAllowed, Cancel, ListFails, ListSelectsNone, ClearError,
        SetGauge, ReportFailure, ReturnError, Return, Goto, cacheVars
  <2> QED
    BY <2>1
<1>13. CASE UNCHANGED vars
  BY <1>13 DEF vars, cacheVars, serviceVars
<1> QED
  BY <1>3, <1>4, <1>6, <1>7, <1>8, <1>9, <1>10, <1>11, <1>12, <1>13
  DEF Next, Begin, Progress, ListConnections, RefreshSnapshot, Finish

LEMMA CoherentInvariant == Init /\ [][Next]_vars => []CoherentInv
<1>1. Init => CoherentInv
  BY DEF Init, CoherentInv, CacheInit, NoVehicles, NoWork, Keys
<1> QED
  BY <1>1, CoherentStep, TypeInvariant, PTL

\* Every snapshot in the cache is coherent, whatever requests overlap, whatever
\* the API replies and however often a code is configured: a failure is bare,
\* and anything else is called partial if and only if a signal did not arrive
\* (refreshVehicleSnapshot).
THEOREM CoherentSafe == Spec => []CacheCoherent
<1>1. CoherentInv => CacheCoherent
  BY DEF CoherentInv, CoherentAt, CacheCoherent, Coherent
<1> QED
  BY <1>1, CoherentInvariant, PTL DEF Spec

--------------------------------------------------------------------------------
(* Failing.  No request counts more failures than snapshots, and it counts as  *)
(* many only while every snapshot it keeps is bare: a partial one is counted   *)
(* as a snapshot and never as a failure, whatever its signals.                 *)

\* Unsupported or unavailable signals do not fail a refresh (README.md:97): when
\* one fails after the connections were listed, each vehicle it kept is one
\* whose GetVehicle failed.
PartialNeverFails ==
    \A r \in Request : Failing(r) =>
        \A v \in Keys(work[r].batch) : work[r].batch[v] = FailedSnapshot

AllBare(w) == \A v \in Keys(w.batch) : w.batch[v] = FailedSnapshot

Counted(w) == w.failed <= w.size /\ (w.failed = w.size => AllBare(w))

FailingInv == \A r \in Request :
    /\ Counted(work[r])
    /\ pc[r] \in {"idle", "list"} => AllBare(work[r])
    /\ pc[r] = "fail" => AllFailed(r)
    /\ Failing(r) => AllBare(work[r])

\* Keeping a bare or a stamped snapshot keeps the counts and the batch in step.
LEMMA Append1Counted ==
    ASSUME NEW w \in Work, NEW v \in VehicleID, NEW s \in Snapshot, Counted(w),
           s = FailedSnapshot \/ ~IsFailure(s)
    PROVE  Counted(Append1(w, v, s))
<1> DEFINE a == Append1(w, v, s)
<1>1. /\ a.batch = [w.batch EXCEPT ![v] = s] /\ a.size = w.size + 1
      /\ a.failed = IF IsFailure(s) THEN w.failed + 1 ELSE w.failed
  BY DEF Append1, Work
<1>2. w.batch \in Batch /\ w.size \in Nat /\ w.failed \in Nat /\ w.failed <= w.size
  BY DEF Work, Counted
<1> SUFFICES Counted(a)
  OBVIOUS
<1> HIDE DEF a
<1>3. CASE ~IsFailure(s)
  BY <1>1, <1>2, <1>3 DEF Counted
<1>4. CASE IsFailure(s)
  <2>1. a.failed = w.failed + 1 /\ s = FailedSnapshot
    BY <1>1, <1>4
  <2>2. a.failed <= a.size /\ (a.failed = a.size => AllBare(w))
    BY <1>1, <1>2, <2>1 DEF Counted
  <2>3. AllBare(w) => AllBare(a)
    BY <1>1, <1>2, <2>1 DEF AllBare, Keys, Batch
  <2> QED
    BY <2>2, <2>3 DEF Counted
<1> QED
  BY <1>3, <1>4

\* A snapshot made of signals is no failure: it is partial whenever it has an error.
LEMMA SnapshotNoFailure == ASSUME NEW w, NEW time PROVE ~IsFailure(SnapshotOf(w, time))
BY DEF IsFailure, SnapshotOf

\* No step fails a request that keeps anything but bare snapshots.
LEMMA FailingStep == TypeInv /\ FailingInv /\ [Next]_vars => FailingInv'
<1> SUFFICES ASSUME TypeInv, FailingInv, [Next]_vars PROVE FailingInv'
  OBVIOUS
<1>1. /\ pc \in [Request -> PC] /\ work \in [Request -> Work]
      /\ result \in [Request -> StoredError \cup {"none"}]
  BY DEF TypeInv, TypeOK
<1> USE DEF FailingInv
<1>2. ASSUME NEW r \in Request,
             \A q \in Request : /\ work'[q].batch = work[q].batch
                               /\ work'[q].size = work[q].size
                               /\ work'[q].failed = work[q].failed,
             UNCHANGED result, NEW to \in PC \ {"idle", "list", "fail", "returned"},
             pc' = [pc EXCEPT ![r] = to]
      PROVE  FailingInv'
  BY <1>1, <1>2 DEF Counted, AllBare, AllFailed, Failing
<1>3. ASSUME NEW r \in Request, NEW t \in VehicleID \cup {AllVehicles}, BeginListing(r, t)
      PROVE  FailingInv'
  BY <1>1, <1>3 DEF BeginListing, Goto, AllFailed, Failing
<1>4. ASSUME NEW r \in Request, NEW t \in VehicleID \cup {AllVehicles}, BeginAllowed(r, t)
      PROVE  FailingInv'
  <2>1. \A q \in Request : /\ work'[q].batch = work[q].batch
                          /\ work'[q].size = work[q].size /\ work'[q].failed = work[q].failed
    BY <1>1, <1>4 DEF BeginAllowed, Work
  <2> QED
    BY <1>2, <1>4, <2>1 DEF BeginAllowed, Goto, PC
<1>5. ASSUME NEW r \in Request, NEW conns \in Connections, ListSelects(r, conns)
      PROVE  FailingInv'
  <2>1. \A q \in Request : /\ work'[q].batch = work[q].batch
                          /\ work'[q].size = work[q].size /\ work'[q].failed = work[q].failed
    BY <1>1, <1>5 DEF ListSelects, Work
  <2> QED
    BY <1>2, <1>5, <2>1 DEF ListSelects, Goto, PC
<1>6. ASSUME NEW r \in Request, UNCHANGED work, AllBare(work[r]), pc[r] # "returned",
             NEW e \in StoredError, Return(r, e)
      PROVE  FailingInv'
  BY <1>1, <1>6 DEF Return, Goto, AllFailed, Failing
<1>7. ASSUME NEW r \in Request,
             \/ \E t \in VehicleID \cup {AllVehicles} : RejectNotAllowed(r, t)
             \/ ListFails(r) \/ \E conns \in Connections : ListSelectsNone(r, conns)
      PROVE  FailingInv'
  BY <1>6, <1>7 DEF RejectNotAllowed, ListFails, ListSelectsNone, ReturnError, StoredError
<1>8. ASSUME NEW r \in Request, NEW v \in VehicleID, NEW s \in Snapshot,
             s = FailedSnapshot \/ ~IsFailure(s),
             work' = [work EXCEPT ![r] = Append1(@, v, s)], UNCHANGED result,
             pc' = [pc EXCEPT ![r] = "refresh"]
      PROVE  FailingInv'
  <2>1. Counted(Append1(work[r], v, s))
    BY <1>1, <1>8, Append1Counted
  <2> QED
    BY <1>1, <1>8, <2>1 DEF AllFailed, Failing
<1>9. ASSUME NEW r \in Request, NEW v \in VehicleID, GetVehicleFails(r, v) PROVE FailingInv'
  <2>1. pc' = [pc EXCEPT ![r] = "refresh"] /\ UNCHANGED result
    BY <1>1, <1>9 DEF GetVehicleFails
  <2>2. work' = [work EXCEPT ![r] = Append1(@, v, FailedSnapshot)]
    BY <1>9 DEF GetVehicleFails
  <2> QED
    BY <1>8, <2>1, <2>2, FailedSnapshotType, Zenon
<1>10. ASSUME NEW r \in Request, TakeSnapshot(r) PROVE FailingInv'
  <2>1. work[r].current \in VehicleID
    BY <1>10 DEF TakeSnapshot, TypeInv, CurrentPending
  <2>2. SnapshotOf(work[r], now + 1) \in Snapshot
    BY <1>1, SnapshotOfType DEF TypeInv, TypeOK
  <2> QED
    BY <1>8, <1>10, <2>1, <2>2, SnapshotNoFailure DEF TakeSnapshot, Goto
<1>11. ASSUME NEW r \in Request, SaveSnapshots(r) PROVE FailingInv'
  BY <1>1, <1>11 DEF SaveSnapshots, Goto, AllFailed, Failing
<1>12. ASSUME NEW r \in Request, NEW v \in VehicleID, GetVehicleReplies(r, v) PROVE FailingInv'
  BY <1>2, <1>12, OtherFields DEF GetVehicleReplies, Goto, PC
<1>13. ASSUME NEW r \in Request, NEW status \in Replies, GetSignal(r, status)
       PROVE  FailingInv'
  <2>1. pc' = [pc EXCEPT ![r] = "signals"] /\ UNCHANGED result
    BY <1>1, <1>13 DEF GetSignal
  <2> QED
    BY <1>2, <1>13, <2>1, OtherFields DEF PC
<1>14. ASSUME NEW r \in Request, ClearError(r) \/ CountCached(r) PROVE FailingInv'
  <2>1. CASE ClearError(r)
    BY <1>2, <2>1 DEF ClearError, Goto, PC
  <2>2. CASE CountCached(r)
    BY <1>2, <2>2, OtherFields DEF CountCached, Goto, PC
  <2> QED
    BY <1>14, <2>1, <2>2
<1>15. ASSUME NEW r \in Request, SetGauge(r) PROVE FailingInv'
  BY <1>1, <1>15 DEF SetGauge, Return, Goto, AllFailed, Failing
<1>16. ASSUME NEW r \in Request, ReportFailure(r) PROVE FailingInv'
  <2>1. AllBare(work[r])
    BY <1>16 DEF ReportFailure, AllFailed, Counted
  <2> QED
    BY <1>6, <1>16, <2>1 DEF ReportFailure, ReturnError, StoredError
<1>17. CASE UNCHANGED vars \/ \E r \in Request : Cancel(r)
  BY <1>17 DEF Cancel, AllFailed, Failing, vars, serviceVars
<1> QED
  BY <1>3, <1>4, <1>5, <1>7, <1>9, <1>10, <1>11, <1>12, <1>13, <1>14, <1>15, <1>16, <1>17
  DEF Next, Begin, Progress, ListConnections, RefreshSnapshot, Finish

\* Signals that do not arrive never fail a refresh (README.md:97), however many
\* vehicles and signals it has: a request that fails keeps bare failures only.
THEOREM PartialSafe == Spec => []PartialNeverFails
<1>1. Init => FailingInv
  BY DEF Init, FailingInv, Counted, AllBare, AllFailed, Failing, NoWork, NoVehicles, Keys
<1>2. FailingInv => PartialNeverFails
  BY DEF FailingInv, PartialNeverFails, AllBare
<1> QED
  BY <1>1, <1>2, FailingStep, TypeInvariant, PTL DEF Spec

--------------------------------------------------------------------------------
(* Refinement.  A request reaches the cache with a snapshot of each vehicle it *)
(* has selected and with at least one: a vehicle is pending until its snapshot *)
(* is in the batch.  Before it lists, a request has neither.                   *)

BatchInv == \A r \in Request :
    /\ pc[r] \in {"idle", "list"} => work[r].batch = NoVehicles /\ AskedBy(r) = {}
    /\ pc[r] \in {"refresh", "signals"} =>
           Selected(work[r].pending) # {} \/ work[r].batch # NoVehicles
    /\ pc[r] # "returned" => result[r] = "none"

\* A batch that a snapshot was put into is not empty.
LEMMA Append1NotEmpty ==
    ASSUME NEW w \in Work, NEW v \in VehicleID, NEW s \in Snapshot
    PROVE  Append1(w, v, s).batch # NoVehicles
<1>1. Append1(w, v, s).batch = [w.batch EXCEPT ![v] = s]
  BY DEF Append1, Work
<1> QED
  BY <1>1, VehicleAssumption DEF Work, Batch, NoVehicles

\* A vehicle that is no longer pending once its snapshot is kept is in the batch.
LEMMA Append1Asked ==
    ASSUME NEW w \in Work, NEW v \in VehicleID, NEW s \in Snapshot, w.pending[v] > 0
    PROVE  Keys(Append1(w, v, s).batch) \cup Selected(Append1(w, v, s).pending)
               = Keys(w.batch) \cup Selected(w.pending)
<1>1. w.batch \in Batch /\ w.pending \in [VehicleID -> Nat]
  BY DEF Work
<1>2. Keys([w.batch EXCEPT ![v] = s]) = Keys(w.batch) \cup {v}
  BY <1>1, VehicleAssumption DEF Batch, Keys
<1>3. /\ Selected([w.pending EXCEPT ![v] = @ - 1]) \subseteq Selected(w.pending)
      /\ Selected(w.pending) \subseteq Selected([w.pending EXCEPT ![v] = @ - 1]) \cup {v}
      /\ v \in Selected(w.pending)
  BY <1>1 DEF Selected
<1> QED
  BY <1>2, <1>3, Append1Fields

\* No step takes the last vehicle from what is pending without keeping its snapshot.
LEMMA BatchStep == TypeInv /\ BatchInv /\ [Next]_vars => BatchInv'
<1> SUFFICES ASSUME TypeInv, BatchInv, [Next]_vars PROVE BatchInv'
  OBVIOUS
<1>1. /\ pc \in [Request -> PC] /\ work \in [Request -> Work]
      /\ result \in [Request -> StoredError \cup {"none"}]
  BY DEF TypeInv, TypeOK
<1> USE DEF BatchInv
<1>2. ASSUME NEW r \in Request, NEW p \in [VehicleID -> Nat], Selected(p) # {},
             work' = [work EXCEPT ![r].pending = p], UNCHANGED result, pc[r] # "returned",
             pc' = [pc EXCEPT ![r] = "refresh"]
      PROVE  BatchInv'
  <2>1. work'[r].pending = p /\ \A q \in Request \ {r} : work'[q] = work[q]
    BY <1>1, <1>2 DEF Work
  <2> QED
    BY <1>1, <1>2, <2>1 DEF AskedBy
<1>3. ASSUME NEW r \in Request, NEW t \in VehicleID \cup {AllVehicles}, BeginAllowed(r, t)
      PROVE  BatchInv'
  <2>1. t \in VehicleID /\ Only(t) \in [VehicleID -> Nat] /\ t \in Selected(Only(t))
    BY <1>3, VehicleAssumption DEF BeginAllowed, Only, Selected
  <2> QED
    BY <1>2, <1>3, <2>1 DEF BeginAllowed, Goto
<1>4. ASSUME NEW r \in Request, NEW conns \in Connections, ListSelects(r, conns)
      PROVE  BatchInv'
  BY <1>2, <1>4, SelectionType DEF ListSelects, Goto
<1>5. ASSUME NEW r \in Request, NEW v \in VehicleID, NEW s \in Snapshot,
             work' = [work EXCEPT ![r] = Append1(@, v, s)], UNCHANGED result,
             pc[r] # "returned", pc' = [pc EXCEPT ![r] = "refresh"]
      PROVE  BatchInv'
  <2>1. Append1(work[r], v, s).batch # NoVehicles
    BY <1>1, Append1NotEmpty
  <2> QED
    BY <1>1, <1>5, <2>1 DEF AskedBy
<1>6. ASSUME NEW r \in Request, NEW v \in VehicleID, GetVehicleFails(r, v) PROVE BatchInv'
  <2>1. /\ pc' = [pc EXCEPT ![r] = "refresh"] /\ UNCHANGED result /\ pc[r] # "returned"
        /\ work' = [work EXCEPT ![r] = Append1(@, v, FailedSnapshot)]
    BY <1>1, <1>6 DEF GetVehicleFails
  <2> QED
    BY <1>5, <2>1, FailedSnapshotType, Zenon
<1>7. ASSUME NEW r \in Request, TakeSnapshot(r) PROVE BatchInv'
  <2>1. work[r].current \in VehicleID
    BY <1>7 DEF TakeSnapshot, TypeInv, CurrentPending
  <2>2. SnapshotOf(work[r], now + 1) \in Snapshot
    BY <1>1, SnapshotOfType DEF TypeInv, TypeOK
  <2> QED
    BY <1>5, <1>7, <2>1, <2>2 DEF TakeSnapshot, Goto
<1>8. ASSUME NEW r \in Request,
             \/ \E v \in VehicleID : GetVehicleReplies(r, v)
             \/ \E status \in Replies : GetSignal(r, status)
             \/ CountCached(r)
      PROVE  BatchInv'
  <2>1. /\ UNCHANGED result
        /\ \A q \in Request : /\ pc'[q] \in {"idle", "list"} => pc[q] \in {"idle", "list"}
                              /\ pc'[q] \in {"refresh", "signals"} => pc[q] \in {"refresh", "signals"}
                              /\ pc'[q] # "returned" => pc[q] # "returned"
    BY <1>1, <1>8 DEF GetVehicleReplies, GetSignal, CountCached, Goto
  <2> QED
    BY <1>8, <2>1, OtherFields DEF AskedBy
<1>9. ASSUME NEW r \in Request,
             \/ \E t \in VehicleID \cup {AllVehicles} :
                    BeginListing(r, t) \/ RejectNotAllowed(r, t)
             \/ Cancel(r) \/ ListFails(r)
             \/ \E conns \in Connections : ListSelectsNone(r, conns)
             \/ SaveSnapshots(r) \/ ClearError(r) \/ SetGauge(r) \/ ReportFailure(r)
      PROVE  BatchInv'
  BY <1>1, <1>9
  DEF BeginListing, RejectNotAllowed, Cancel, ListFails, ListSelectsNone, SaveSnapshots,
      ClearError, SetGauge, ReportFailure, ReturnError, Return, Goto, AskedBy
<1>10. CASE UNCHANGED vars
  BY <1>10 DEF vars, serviceVars, AskedBy
<1> QED
  BY <1>3, <1>4, <1>6, <1>7, <1>8, <1>9, <1>10
  DEF Next, Begin, Progress, ListConnections, RefreshSnapshot, Finish

\* What AtomicRefresh sees of a request.
LEMMA Seen ==
    ASSUME NEW r \in Request
    PROVE  /\ Phase[r] = PhaseOf(r) /\ [Phase EXCEPT ![r] = PhaseOf(r)] = Phase
           /\ Asked[r] = AskedBy(r) /\ [Asked EXCEPT ![r] = AskedBy(r)] = Asked
           /\ Installed[r] = InstalledBy(r) /\ [Installed EXCEPT ![r] = InstalledBy(r)] = Installed
BY DEF Phase, Asked, Installed

\* A step of request r moves r alone, in these eyes too.
LEMMA MovesAlone ==
    ASSUME TypeInv, NEW r \in Request, NEW to \in PC, pc' = [pc EXCEPT ![r] = to],
           \A q \in Request \ {r} : work'[q] = work[q]
    PROVE  /\ Phase' = [Phase EXCEPT ![r] = PhaseOf(r)']
           /\ Asked' = [Asked EXCEPT ![r] = AskedBy(r)'] /\ Asked'[r] = AskedBy(r)'
           /\ Installed' = [Installed EXCEPT ![r] = InstalledBy(r)']
           /\ pc'[r] = to
<1>1. pc \in [Request -> PC]
  BY DEF TypeInv, TypeOK
<1>2. \A q \in Request \ {r} : PhaseOf(q)' = PhaseOf(q)
  BY <1>1 DEF PhaseOf
<1>3. \A q \in Request \ {r} : InstalledBy(q)' = InstalledBy(q)
  BY <1>1, <1>2 DEF InstalledBy
<1>4. \A q \in Request \ {r} : AskedBy(q)' = AskedBy(q)
  BY DEF AskedBy
<1>5. Asked' = [Asked EXCEPT ![r] = AskedBy(r)'] /\ Asked'[r] = AskedBy(r)'
  BY <1>4 DEF Asked
<1> QED
  BY <1>1, <1>2, <1>3, <1>5 DEF Phase, Installed

\* A step that neither AtomicRefresh's phase of r nor the cache shows.
LEMMA Hidden ==
    ASSUME TypeInv, NEW r \in Request, NEW to \in PC, pc' = [pc EXCEPT ![r] = to],
           \A q \in Request \ {r} : work'[q] = work[q],
           UNCHANGED <<vehicles, lastError, result>>,
           PhaseOf(r)' = PhaseOf(r), AskedBy(r)' = AskedBy(r), InstalledBy(r)' = InstalledBy(r)
    PROVE  UNCHANGED Atomic!avars
<1>1. Phase' = Phase /\ Asked' = Asked /\ Installed' = Installed
  <2>1. /\ Phase' = [Phase EXCEPT ![r] = PhaseOf(r)]
        /\ Asked' = [Asked EXCEPT ![r] = AskedBy(r)]
        /\ Installed' = [Installed EXCEPT ![r] = InstalledBy(r)]
    BY MovesAlone
  <2> QED
    BY <2>1, Seen
<1> QED
  BY <1>1 DEF Atomic!avars

\* Returning an error is a Fail of AtomicRefresh if r put in nothing but failures.
LEMMA FailStep ==
    ASSUME TypeInv, NEW r \in Request, NEW e \in StoredError, ReturnError(r, e),
           UNCHANGED <<vehicles, work>>, pc[r] # "returned", AllBare(work[r]),
           PhaseOf(r) \in {"idle", "running"} => work[r].batch = NoVehicles
    PROVE  Atomic!Next
<1>1. /\ pc \in [Request -> PC] /\ work[r].batch \in Batch
      /\ result \in [Request -> StoredError \cup {"none"}]
  BY DEF TypeInv, TypeOK, Work
<1>2. /\ pc' = [pc EXCEPT ![r] = "returned"] /\ result' = [result EXCEPT ![r] = e]
      /\ lastError' = e /\ e # "none"
  BY DEF ReturnError, SetLastError, Return, Goto, StoredError
<1>3. /\ Phase' = [Phase EXCEPT ![r] = PhaseOf(r)']
      /\ Asked' = [Asked EXCEPT ![r] = AskedBy(r)']
      /\ Installed' = [Installed EXCEPT ![r] = InstalledBy(r)']
      /\ pc'[r] = "returned"
  BY <1>2, MovesAlone DEF PC
<1>4. PhaseOf(r) # "returned" /\ PhaseOf(r)' = "returned"
  BY <1>1, <1>3 DEF PhaseOf, PC
<1>5. InstalledBy(r)' = work[r].batch /\ InstalledBy(r) = work[r].batch
  <2>1. PhaseOf(r) \in {"idle", "running", "installed"}
    BY <1>1, <1>4 DEF PhaseOf, PC
  <2> QED
    BY <1>4, <2>1 DEF InstalledBy
<1>6. \A v \in VehicleID : Installed[r][v] \in {NotCached, FailedSnapshot}
  BY <1>1, <1>5, Seen DEF AllBare, Keys, Batch
<1>7. Installed' = Installed /\ Asked' = Asked
  <2>1. AskedBy(r)' = AskedBy(r)
    BY DEF AskedBy
  <2> QED
    BY <1>3, <1>5, <2>1, Seen
<1>8. Phase[r] # "returned" /\ Phase' = [Phase EXCEPT ![r] = "returned"]
  BY <1>3, <1>4, Seen
<1>9. result'[r] = e
  BY <1>1, <1>2
<1>10. Atomic!Fail(r, result'[r])
  BY <1>2, <1>6, <1>7, <1>8, <1>9 DEF Atomic!Fail
<1> QED
  BY <1>10 DEF Atomic!Next

\* Putting the batch into the cache is an Install.
LEMMA InstallStep ==
    ASSUME TypeInv, BatchInv, NEW r \in Request, SaveSnapshots(r)
    PROVE  Atomic!Next
<1> DEFINE to == IF target[r] # AllVehicles /\ AllFailed(r) THEN "fail" ELSE "clear"
           b == work[r].batch
<1>1. /\ pc[r] = "refresh" /\ Selected(work[r].pending) = {}
      /\ pc' = [pc EXCEPT ![r] = to] /\ to \in {"fail", "clear"} /\ SaveMany(b)
      /\ UNCHANGED <<lastError, work, result>>
  BY DEF SaveSnapshots, Goto
<1>2. b \in Batch /\ b # NoVehicles
  BY <1>1 DEF TypeInv, TypeOK, Work, BatchInv
<1>3. PhaseOf(r) = "running"
  BY <1>1 DEF PhaseOf
<1> HIDE DEF to, b
<1>4. /\ Phase' = [Phase EXCEPT ![r] = PhaseOf(r)']
      /\ Asked' = [Asked EXCEPT ![r] = AskedBy(r)']
      /\ Installed' = [Installed EXCEPT ![r] = InstalledBy(r)']
      /\ pc'[r] = to
  BY <1>1, MovesAlone DEF PC
<1>5. PhaseOf(r)' = "installed"
  BY <1>1, <1>4 DEF PhaseOf
<1>6. InstalledBy(r)' = b
  BY <1>1, <1>5 DEF InstalledBy, b
<1>7. Phase[r] = "running" /\ Phase' = [Phase EXCEPT ![r] = "installed"]
  BY <1>3, <1>4, <1>5, Seen
<1>8. Installed' = [Installed EXCEPT ![r] = b] /\ Installed'[r] = b
  <2>1. r \in DOMAIN Installed
    BY DEF Installed
  <2> QED
    BY <1>4, <1>6, <2>1
<1>9. Asked[r] = {v \in VehicleID : b[v] # NotCached} /\ Asked' = Asked
  <2>1. AskedBy(r)' = AskedBy(r) /\ AskedBy(r) = Keys(b)
    BY <1>1 DEF AskedBy, b
  <2> QED
    BY <1>4, <2>1, Seen DEF Keys
<1>10. Atomic!Install(r, b)
  BY <1>1, <1>2, <1>7, <1>8, <1>9
  DEF Atomic!Install, Atomic!Nothing, SaveMany, Batch, NoVehicles
<1> QED
  BY <1>8, <1>10 DEF Atomic!Next

\* Every step is one of AtomicRefresh, or none that the cache's readers see.
LEMMA AtomicStep ==
    ASSUME TypeInv, AllowedInv', FailingInv, BatchInv, [Next]_vars
    PROVE  Atomic!Next \/ UNCHANGED Atomic!avars
<1>1. /\ pc \in [Request -> PC] /\ work \in [Request -> Work]
      /\ result \in [Request -> StoredError \cup {"none"}]
  BY DEF TypeInv, TypeOK
<1> DEFINE Permitted == IF Allowed = {} THEN VehicleID ELSE Allowed
<1>0. ASSUME NEW r \in Request PROVE AskedBy(r)' \subseteq Permitted
  BY DEF AllowedInv, AskedBy, Keys, Selected
<1> HIDE DEF Permitted
<1>2. ASSUME NEW r \in Request, pc[r] = "idle", NEW to \in {"list", "refresh"},
             pc' = [pc EXCEPT ![r] = to], \A q \in Request \ {r} : work'[q] = work[q],
             UNCHANGED <<cacheVars, result>>
      PROVE  Atomic!Next
  <2>1. /\ Phase' = [Phase EXCEPT ![r] = PhaseOf(r)']
        /\ Asked' = [Asked EXCEPT ![r] = AskedBy(r)'] /\ Asked'[r] = AskedBy(r)'
        /\ Installed' = [Installed EXCEPT ![r] = InstalledBy(r)']
        /\ pc'[r] = to
    BY <1>2, MovesAlone DEF PC
  <2>2. PhaseOf(r) = "idle" /\ PhaseOf(r)' = "running"
    BY <1>2, <2>1 DEF PhaseOf
  <2>3. Installed' = Installed /\ Phase[r] = "idle" /\ Phase' = [Phase EXCEPT ![r] = "running"]
    <3>1. InstalledBy(r)' = NoVehicles /\ InstalledBy(r) = NoVehicles
      BY <2>2 DEF InstalledBy
    <3> QED
      BY <2>1, <2>2, <3>1, Seen
  <2>4. Atomic!Start(r, Asked'[r])
    BY <1>0, <1>2, <2>1, <2>3 DEF Atomic!Start, cacheVars, Permitted
  <2> QED
    BY <2>4 DEF Atomic!Next
<1>3. ASSUME NEW r \in Request, pc[r] \in {"list", "refresh", "signals"},
             NEW to \in {"list", "refresh", "signals"}, pc' = [pc EXCEPT ![r] = to],
             \A q \in Request \ {r} : work'[q] = work[q], UNCHANGED <<cacheVars, result>>
      PROVE  /\ Phase[r] = "running" /\ Phase' = Phase /\ Installed' = Installed
             /\ Asked' = [Asked EXCEPT ![r] = AskedBy(r)'] /\ Asked'[r] = AskedBy(r)'
             /\ AskedBy(r)' = AskedBy(r) => UNCHANGED Atomic!avars
  <2>1. to \in PC
    BY <1>3 DEF PC
  <2>2. /\ Phase' = [Phase EXCEPT ![r] = PhaseOf(r)']
        /\ Asked' = [Asked EXCEPT ![r] = AskedBy(r)'] /\ Asked'[r] = AskedBy(r)'
        /\ Installed' = [Installed EXCEPT ![r] = InstalledBy(r)']
        /\ pc'[r] = to
    BY <1>3, <2>1, MovesAlone
  <2>3. PhaseOf(r) = "running" /\ PhaseOf(r)' = "running"
    BY <1>3, <2>2 DEF PhaseOf
  <2>4. InstalledBy(r)' = InstalledBy(r)
    BY <2>3 DEF InstalledBy
  <2>5. ASSUME AskedBy(r)' = AskedBy(r) PROVE UNCHANGED Atomic!avars
    BY <1>3, <2>1, <2>3, <2>4, <2>5, Hidden DEF cacheVars
  <2> QED
    BY <2>2, <2>3, <2>4, <2>5, Seen
<1>4. ASSUME NEW r \in Request, pc[r] \in {"clear", "count", "gauge", "fail"},
             NEW to \in {"clear", "count", "gauge", "fail"}, pc' = [pc EXCEPT ![r] = to],
             \A q \in Request \ {r} : work'[q] = work[q],
             work'[r].batch = work[r].batch, work'[r].pending = work[r].pending,
             UNCHANGED <<vehicles, result>>
      PROVE  /\ Phase[r] = "installed"
             /\ Phase' = Phase /\ Asked' = Asked /\ Installed' = Installed
  <2>1. /\ Phase' = [Phase EXCEPT ![r] = PhaseOf(r)']
        /\ Asked' = [Asked EXCEPT ![r] = AskedBy(r)']
        /\ Installed' = [Installed EXCEPT ![r] = InstalledBy(r)']
        /\ pc'[r] = to
    BY <1>4, MovesAlone DEF PC
  <2>2. PhaseOf(r) = "installed" /\ PhaseOf(r)' = "installed"
    BY <1>4, <2>1 DEF PhaseOf
  <2>3. InstalledBy(r)' = InstalledBy(r) /\ AskedBy(r)' = AskedBy(r)
    BY <1>4, <2>2 DEF InstalledBy, AskedBy
  <2> QED
    BY <2>1, <2>2, <2>3, Seen
<1>5. ASSUME NEW r \in Request, Begin(r) PROVE Atomic!Next
  <2>1. CASE \E t \in VehicleID \cup {AllVehicles} : BeginListing(r, t)
    BY <1>2, <2>1 DEF BeginListing, Goto
  <2>2. CASE \E t \in VehicleID \cup {AllVehicles} : BeginAllowed(r, t)
    BY <1>1, <1>2, <2>2 DEF BeginAllowed, Goto
  <2>3. CASE \E t \in VehicleID \cup {AllVehicles} : RejectNotAllowed(r, t)
    <3>1. work[r].batch = NoVehicles /\ AllBare(work[r])
      BY <2>3 DEF RejectNotAllowed, BatchInv, AllBare, Keys, NoVehicles
    <3> QED
      BY <2>3, <3>1, FailStep DEF RejectNotAllowed, StoredError
  <2> QED
    BY <1>5, <2>1, <2>2, <2>3 DEF Begin
<1>6. ASSUME NEW r \in Request, Cancel(r) PROVE UNCHANGED Atomic!avars
  BY <1>6
  DEF Cancel, cacheVars, Atomic!avars, Phase, PhaseOf, Asked, AskedBy, Installed, InstalledBy
<1>7. ASSUME NEW r \in Request, ListConnections(r)
      PROVE  Atomic!Next \/ UNCHANGED Atomic!avars
  <2>1. CASE ListFails(r) \/ \E conns \in Connections : ListSelectsNone(r, conns)
    <3>1. pc[r] = "list" /\ UNCHANGED <<vehicles, work>>
      BY <2>1 DEF ListFails, ListSelectsNone
    <3>2. work[r].batch = NoVehicles /\ AllBare(work[r])
      BY <3>1 DEF BatchInv, AllBare, Keys, NoVehicles
    <3> QED
      BY <2>1, <3>1, <3>2, FailStep DEF ListFails, ListSelectsNone, StoredError
  <2>2. CASE \E conns \in Connections : ListSelects(r, conns)
    <3>1. /\ pc[r] = "list" /\ pc' = [pc EXCEPT ![r] = "refresh"]
          /\ \A q \in Request \ {r} : work'[q] = work[q]
          /\ UNCHANGED <<cacheVars, result>>
      BY <1>1, <2>2 DEF ListSelects, Goto
    <3>2. Asked[r] = {}
      BY <3>1, Seen DEF BatchInv
    <3>3. /\ Phase[r] = "running" /\ Phase' = Phase /\ Installed' = Installed
          /\ Asked' = [Asked EXCEPT ![r] = AskedBy(r)'] /\ Asked'[r] = AskedBy(r)'
      BY <1>3, <3>1
    <3>4. Atomic!Select(r, Asked'[r])
      BY <1>0, <3>1, <3>2, <3>3 DEF Atomic!Select, cacheVars, Permitted
    <3> QED
      BY <3>4 DEF Atomic!Next
  <2> QED
    BY <1>7, <2>1, <2>2 DEF ListConnections
<1>8. ASSUME NEW r \in Request, RefreshSnapshot(r) PROVE UNCHANGED Atomic!avars
  <2>1. ASSUME NEW v \in VehicleID, NEW snap \in Snapshot, work[r].pending[v] > 0,
               work' = [work EXCEPT ![r] = Append1(@, v, snap)],
               pc[r] \in {"refresh", "signals"}, pc' = [pc EXCEPT ![r] = "refresh"],
               UNCHANGED <<cacheVars, result>>
        PROVE  UNCHANGED Atomic!avars
    <3>1. work'[r] = Append1(work[r], v, snap) /\ \A q \in Request \ {r} : work'[q] = work[q]
      BY <1>1, <2>1
    <3>2. AskedBy(r)' = AskedBy(r)
      BY <1>1, <2>1, <3>1, Append1Asked DEF AskedBy
    <3> QED
      BY <1>3, <2>1, <3>1, <3>2
  <2>2. CASE \E v \in VehicleID : GetVehicleFails(r, v)
    <3>1. PICK v \in VehicleID : GetVehicleFails(r, v)
      BY <2>2
    <3>2. /\ pc[r] = "refresh" /\ pc' = [pc EXCEPT ![r] = "refresh"]
          /\ work[r].pending[v] > 0
          /\ work' = [work EXCEPT ![r] = Append1(@, v, FailedSnapshot)]
          /\ UNCHANGED <<cacheVars, result>>
      BY <1>1, <3>1 DEF GetVehicleFails, IsNext, Selected
    <3> QED
      BY <2>1, <3>2, FailedSnapshotType
  <2>3. CASE TakeSnapshot(r)
    <3>1. work[r].current \in VehicleID /\ work[r].pending[work[r].current] > 0
      BY <2>3 DEF TakeSnapshot, TypeInv, CurrentPending
    <3>2. SnapshotOf(work[r], now + 1) \in Snapshot
      BY <1>1, SnapshotOfType DEF TypeInv, TypeOK
    <3> QED
      BY <2>1, <2>3, <3>1, <3>2 DEF TakeSnapshot, Goto
  <2>4. CASE \E v \in VehicleID : GetVehicleReplies(r, v)
    <3>1. AskedBy(r)' = AskedBy(r)
      BY <2>4, OtherFields DEF AskedBy
    <3>2. /\ pc[r] = "refresh" /\ pc' = [pc EXCEPT ![r] = "signals"]
          /\ \A q \in Request \ {r} : work'[q] = work[q]
          /\ UNCHANGED <<cacheVars, result>>
      BY <1>1, <2>4 DEF GetVehicleReplies, Goto
    <3> QED
      BY <1>3, <3>1, <3>2
  <2>5. CASE \E status \in Replies : GetSignal(r, status)
    <3>1. AskedBy(r)' = AskedBy(r)
      BY <2>5, OtherFields DEF AskedBy
    <3>2. /\ pc[r] = "signals" /\ pc' = [pc EXCEPT ![r] = "signals"]
          /\ \A q \in Request \ {r} : work'[q] = work[q]
          /\ UNCHANGED <<cacheVars, result>>
      BY <1>1, <2>5 DEF GetSignal
    <3> QED
      BY <1>3, <3>1, <3>2
  <2> QED
    BY <1>8, <2>2, <2>3, <2>4, <2>5 DEF RefreshSnapshot
<1>9. ASSUME NEW r \in Request, ClearError(r) PROVE Atomic!Next
  <2>1. Phase[r] = "installed" /\ Phase' = Phase /\ Asked' = Asked /\ Installed' = Installed
    BY <1>4, <1>9 DEF ClearError, Goto
  <2>2. Atomic!Clear(r)
    BY <1>9, <2>1 DEF ClearError, SetLastError, Atomic!Clear
  <2> QED
    BY <2>2 DEF Atomic!Next
<1>10. ASSUME NEW r \in Request, CountCached(r) PROVE UNCHANGED Atomic!avars
  <2>1. /\ work'[r].batch = work[r].batch /\ work'[r].pending = work[r].pending
        /\ \A q \in Request \ {r} : work'[q] = work[q]
    BY <1>1, <1>10, OtherFields DEF CountCached
  <2>2. Phase' = Phase /\ Asked' = Asked /\ Installed' = Installed
    BY <1>4, <1>10, <2>1 DEF CountCached, Goto, cacheVars
  <2> QED
    BY <1>10, <2>2 DEF CountCached, cacheVars, Atomic!avars
<1>11. ASSUME NEW r \in Request, SetGauge(r)
       PROVE  Atomic!Next \/ UNCHANGED Atomic!avars
  <2>1. CASE AllFailed(r)
    <3>1. Phase' = Phase /\ Asked' = Asked /\ Installed' = Installed
      BY <1>4, <1>11, <2>1 DEF SetGauge, Goto, cacheVars
    <3> QED
      BY <1>11, <2>1, <3>1 DEF SetGauge, cacheVars, Atomic!avars
  <2>2. CASE ~AllFailed(r)
    <3>1. /\ pc[r] = "gauge" /\ pc' = [pc EXCEPT ![r] = "returned"]
          /\ result' = [result EXCEPT ![r] = "none"] /\ UNCHANGED <<cacheVars, work>>
      BY <1>11, <2>2 DEF SetGauge, Return, Goto
    <3>2. result' = result
      BY <1>1, <3>1 DEF BatchInv
    <3>3. /\ Phase' = [Phase EXCEPT ![r] = PhaseOf(r)']
          /\ Asked' = [Asked EXCEPT ![r] = AskedBy(r)']
          /\ Installed' = [Installed EXCEPT ![r] = InstalledBy(r)']
          /\ pc'[r] = "returned"
      BY <3>1, MovesAlone DEF PC
    <3>4. PhaseOf(r) = "installed" /\ PhaseOf(r)' = "returned"
      BY <3>1, <3>3 DEF PhaseOf
    <3>5. InstalledBy(r)' = InstalledBy(r) /\ AskedBy(r)' = AskedBy(r)
      BY <3>1, <3>4 DEF InstalledBy, AskedBy
    <3>6. /\ Phase[r] = "installed" /\ Phase' = [Phase EXCEPT ![r] = "returned"]
          /\ Asked' = Asked /\ Installed' = Installed
      BY <3>3, <3>4, <3>5, Seen
    <3>7. Atomic!Succeed(r)
      BY <3>1, <3>2, <3>6 DEF Atomic!Succeed, cacheVars
    <3> QED
      BY <3>7 DEF Atomic!Next
  <2> QED
    BY <2>1, <2>2
<1>12. ASSUME NEW r \in Request, ReportFailure(r) PROVE Atomic!Next
  <2>1. pc[r] = "fail" /\ AllBare(work[r]) /\ PhaseOf(r) = "installed"
    BY <1>12 DEF ReportFailure, FailingInv, AllFailed, Counted, PhaseOf
  <2> QED
    BY <1>12, <2>1, FailStep DEF ReportFailure, StoredError
<1>13. CASE UNCHANGED vars
  BY <1>13
  DEF vars, cacheVars, serviceVars, Atomic!avars, Phase, PhaseOf, Asked, AskedBy, Installed,
      InstalledBy
<1> QED
  BY <1>5, <1>6, <1>7, <1>8, <1>9, <1>10, <1>11, <1>12, <1>13, InstallStep
  DEF Next, Progress, Finish

\* No fairness is needed for it.
LEMMA AtomicSafety == Init /\ [][Next]_vars => RefreshIsAtomic
<1>1. Init => Atomic!Init /\ AllowedInv /\ FailingInv /\ BatchInv
  <2> SUFFICES ASSUME Init PROVE Atomic!Init /\ AllowedInv /\ FailingInv /\ BatchInv
    OBVIOUS
  <2>1. \A r \in Request : PhaseOf(r) = "idle" /\ AskedBy(r) = {} /\ InstalledBy(r) = NoVehicles
    BY DEF Init, PhaseOf, AskedBy, InstalledBy, NoWork, NoVehicles, Keys, Selected
  <2>2. Atomic!Init
    BY <2>1 DEF Init, CacheInit, Atomic!Init, Atomic!Nothing, NoVehicles, Phase, Asked, Installed
  <2>3. AllowedInv
    BY DEF Init, AllowedInv, CacheInit, NoVehicles, NoWork, Keys, Selected
  <2>4. FailingInv
    BY DEF Init, FailingInv, Counted, AllBare, AllFailed, Failing, NoWork, NoVehicles, Keys
  <2>5. BatchInv
    BY <2>1 DEF Init, BatchInv, NoWork
  <2> QED
    BY <2>2, <2>3, <2>4, <2>5
<1>2. TypeInv /\ AllowedInv' /\ FailingInv /\ BatchInv /\ [Next]_vars
          => [Atomic!Next]_(Atomic!avars)
  BY AtomicStep
<1> QED
  BY <1>1, <1>2, TypeInvariant, AllowedStep, FailingStep, BatchStep, PTL
  DEF RefreshIsAtomic, Atomic!Spec

\* RefreshService implements AtomicRefresh: however requests overlap, each puts a
\* snapshot of every vehicle it has selected into the cache at one instant or leaves
\* it alone, and fails only if all of them are failures (RefreshAll, RefreshVehicle,
\* SaveMany).
THEOREM RefreshAtomic == Spec => RefreshIsAtomic
BY AtomicSafety, PTL DEF Spec
================================================================================
