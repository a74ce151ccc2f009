------------------------------ MODULE VehicleCache ------------------------------
(***************************************************************************)
(* The in-memory vehicle cache: internal/store/memory.go, and the snapshot *)
(* records it keeps.                                                       *)
(*                                                                         *)
(* MemoryStore is a map under one RWMutex: every method is one critical    *)
(* section, so every method is one atomic operator here, and two calls are *)
(* two steps.  The methods copy what they take and give out (lines         *)
(* 100-121), which is the value semantics of TLA+.                         *)
(***************************************************************************)
EXTENDS Integers, FiniteSets

CONSTANTS
    VehicleID,   \* the vehicle identifiers, numbers so that they can be sorted
    Code,        \* the signal codes
    NotCached    \* what a key absent from the map is mapped to

VARIABLES
    vehicles,    \* MemoryStore.vehicles: VehicleID -> snapshot or NotCached
    lastError    \* MemoryStore.lastError, "none" for nil

cacheVars == <<vehicles, lastError>>

\* smartcar.SignalState
SignalState == {"ok", "unsupported", "unavailable", "error"}

\* VehicleSnapshot: err and partial are its flags (Err # nil, Partial), a code
\* absent from its Signals map is "absent", and refreshedAt 0 is the zero time.
Snapshot == [err : BOOLEAN, partial : BOOLEAN,
             signals : [Code -> SignalState \cup {"absent"}], refreshedAt : Nat]

\* The errors the service stores with SetLastError, told apart by their cause.
StoredError == {"list_failed", "no_vehicles", "not_allowed", "all_failed", "vehicle_failed"}

NoSignals == [c \in Code |-> "absent"]

Batch == [VehicleID -> Snapshot \cup {NotCached}]

NoVehicles == [v \in VehicleID |-> NotCached]

\* The vehicles a map of snapshots has a key for.
Keys(m) == {v \in VehicleID : m[v] # NotCached}

\* (slip: the map is replaced by the batch)
SaveOnly(batch) == vehicles' = batch

\* Save and SaveMany: overwrite the entries of the batch under one lock.  A
\* batch that holds a vehicle twice is merged by the caller, the later one kept,
\* as the loop of SaveMany does.
SaveMany(batch) ==
    vehicles' = [v \in VehicleID |-> IF batch[v] # NotCached THEN batch[v] ELSE vehicles[v]]

SetLastError(e) == lastError' = e

CacheInit == vehicles = NoVehicles /\ lastError = "none"

CacheTypeOK == vehicles \in Batch /\ lastError \in StoredError \cup {"none"}
================================================================================
