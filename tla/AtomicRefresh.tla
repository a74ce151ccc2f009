------------------------------ MODULE AtomicRefresh ----------------------------
(***************************************************************************)
(* What the refresh service promises those who read the cache: a refresh   *)
(* either leaves the cache alone or puts a snapshot of every vehicle it    *)
(* was to refresh into it at one instant, once; and its outcome is an      *)
(* error only if it put in nothing but failures.                           *)
(***************************************************************************)
CONSTANTS VehicleID, Request, Permitted, Snapshot, NotCached, Failure

VARIABLES
    cache,       \* VehicleID -> snapshot or NotCached
    banner,      \* the remembered error
    phase,       \* "idle", "running", "installed" or "returned"
    asked,       \* the vehicles each request is to refresh
    installed,   \* what each request has put into the cache
    outcome      \* the error a request returned, or "none"

avars == <<cache, banner, phase, asked, installed, outcome>>

Nothing == [v \in VehicleID |-> NotCached]

Init ==
    /\ cache = Nothing
    /\ banner = "none"
    /\ phase = [r \in Request |-> "idle"]
    /\ asked = [r \in Request |-> {}]
    /\ installed = [r \in Request |-> Nothing]
    /\ outcome = [r \in Request |-> "none"]

\* Some vehicles to refresh may be known from the start ...
Start(r, V) ==
    /\ phase[r] = "idle"
    /\ V \subseteq Permitted
    /\ phase' = [phase EXCEPT ![r] = "running"]
    /\ asked' = [asked EXCEPT ![r] = V]
    /\ UNCHANGED <<cache, banner, installed, outcome>>

\* ... or they are found out later, once and for all.
Select(r, V) ==
    /\ phase[r] = "running" /\ asked[r] = {}
    /\ V \subseteq Permitted
    /\ asked' = [asked EXCEPT ![r] = V]
    /\ UNCHANGED <<cache, banner, phase, installed, outcome>>

\* Return with an error e, remembering it.
Fail(r, e) ==
    /\ phase[r] # "returned"
    /\ e # "none"
    /\ \A v \in VehicleID : installed[r][v] \in {NotCached, Failure}
    /\ phase' = [phase EXCEPT ![r] = "returned"]
    /\ outcome' = [outcome EXCEPT ![r] = e]
    /\ banner' = e
    /\ UNCHANGED <<cache, asked, installed>>

\* Put the map b, of snapshots of just the vehicles asked for, into the cache.
Install(r, b) ==
    /\ phase[r] = "running"
    /\ b \in [VehicleID -> Snapshot \cup {NotCached}]
    /\ b # Nothing
    /\ asked[r] = {v \in VehicleID : b[v] # NotCached}
    /\ cache' = [v \in VehicleID |-> IF b[v] # NotCached THEN b[v] ELSE cache[v]]
    /\ installed' = [installed EXCEPT ![r] = b]
    /\ phase' = [phase EXCEPT ![r] = "installed"]
    /\ UNCHANGED <<banner, asked, outcome>>

Clear(r) ==
    /\ phase[r] = "installed"
    /\ banner' = "none"
    /\ UNCHANGED <<cache, phase, asked, installed, outcome>>

Succeed(r) ==
    /\ phase[r] = "installed"
    /\ phase' = [phase EXCEPT ![r] = "returned"]
    /\ UNCHANGED <<cache, banner, asked, installed, outcome>>

Next == \E r \in Request :
    \/ Start(r, asked'[r]) \/ Select(r, asked'[r])
    \/ Clear(r) \/ Succeed(r)
    \/ Fail(r, outcome'[r])
    \/ Install(r, installed'[r])

Spec == Init /\ [][Next]_avars
================================================================================
