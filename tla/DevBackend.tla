------------------------------- MODULE DevBackend ------------------------------
(***************************************************************************)
(* The development backend, devsmartcar.go: an implementation of           *)
(* smartcar.API from canned scenarios.  Its scenario "partial" is how the  *)
(* pages are tried by hand with signals that fail in every way the program *)
(* tells apart, so it has to show each way, whatever codes are configured. *)
(*                                                                         *)
(* A reply is told by its kind, which stands for the status of newAPIError *)
(* and its message; the codes are what parseCSV of config.go leaves:       *)
(* trimmed, not blank, possibly repeated.                                  *)
(***************************************************************************)
EXTENDS Integers, FiniteSets, SequencesExt

CONSTANTS
    Code,        \* signal codes
    Vehicle,     \* vehicle IDs a caller asks for
    MaxCodes     \* bound on the length of the configured list

ASSUME MaxCodesAssumption == MaxCodes \in Nat

Scenarios == {"happy", "partial", "empty", "failure"}
Failures  == {"unsupported", "unavailable", "error"}

VARIABLES
    scenario,     \* cfg.Scenario and cfg.SignalCodes, as New gets them
    signalCodes,
    at,           \* the loop New is in; "ready" once it has returned
    i,            \* where that loop is
    uniqueCodes,
    outcomes,     \* partialOutcomes: the failure of some codes
    nextFallback, \* the first fallback its loop has not passed
    listed,       \* the vehicles ListConnections has returned
    reply         \* the last reply

cfg == <<scenario, signalCodes>>
served == <<listed, reply>>
vars == <<cfg, at, i, uniqueCodes, outcomes, nextFallback, served>>

Connections == {"dev-4runner", "dev-tacoma"}

BuiltInVehicles == {"dev-4runner", "dev-tacoma"}

\* validateScenario refuses any other scenario.
Init ==
    /\ scenario \in Scenarios
    /\ signalCodes \in BoundedSeq(Code, MaxCodes)
    /\ at = "unique" /\ i = 1 /\ nextFallback = 1
    /\ uniqueCodes = <<>>
    /\ outcomes = [c \in {} |-> "none"]
    /\ listed = {}
    /\ reply = [vehicle |-> "none", kind |-> "none"]

--------------------------------------------------------------------------------
(* New: buildPartialOutcomes, an iteration of a loop at a time *)

\* The loop has ended and the next one starts.
Enter(place) == at' = place /\ i' = 1

UniqueSignalCode ==
    /\ at = "unique" /\ i <= Len(signalCodes)
    /\ uniqueCodes' = IF signalCodes[i] \in ToSet(uniqueCodes) THEN uniqueCodes
                      ELSE Append(uniqueCodes, signalCodes[i])
    /\ i' = i + 1
    /\ UNCHANGED <<cfg, at, outcomes, nextFallback, served>>

UniqueDone ==
    /\ at = "unique" /\ i > Len(signalCodes)
    /\ Enter("preferred")
    /\ UNCHANGED <<cfg, uniqueCodes, outcomes, nextFallback, served>>

\* (slip: nobody has an outcome yet)
HasNone(outcome) == FALSE

HasOutcome(outcome) == \E c \in DOMAIN outcomes : outcomes[c] = outcome

Assign(code, outcome) ==
    outcomes' = [c \in DOMAIN outcomes \cup {code} |->
                     IF c = code THEN outcome ELSE outcomes[c]]

Preferred == <<
    [outcome |-> "unsupported",
     codes   |-> <<"diagnostics-dtclist", "diagnostics-brakefluid">>],
    [outcome |-> "unavailable",
     codes   |-> <<"service-isinservice", "internalcombustionengine-fuellevel">>],
    [outcome |-> "error",
     codes   |-> <<"service-records", "internalcombustionengine-range">>] >>

Assignable(k) ==
    /\ ~HasOutcome(Preferred[i].outcome)
    /\ Preferred[i].codes[k] \in ToSet(uniqueCodes) \ DOMAIN outcomes

\* assignPreferredOutcome: the first of the preferred codes that can gets it.
AssignPreferred ==
    /\ at = "preferred" /\ i <= 3
    /\ \E k \in 1..2 :
          /\ Assignable(k) /\ \A j \in 1..(k - 1) : ~Assignable(j)
          /\ Assign(Preferred[i].codes[k], Preferred[i].outcome)
    /\ i' = i + 1
    /\ UNCHANGED <<cfg, at, uniqueCodes, nextFallback, served>>

NoPreferred ==
    /\ at = "preferred" /\ i <= 3
    /\ \A k \in 1..2 : ~Assignable(k)
    /\ i' = i + 1
    /\ UNCHANGED <<cfg, at, uniqueCodes, outcomes, nextFallback, served>>

PreferredDone ==
    /\ at = "preferred" /\ i > 3
    /\ Enter("fallback")
    /\ UNCHANGED <<cfg, uniqueCodes, outcomes, nextFallback, served>>

Fallbacks == <<"unsupported", "unavailable", "error">>

InFallbacks == at = "fallback" /\ i <= Len(uniqueCodes) /\ nextFallback <= 3

SkipAssigned ==
    /\ InFallbacks
    /\ uniqueCodes[i] \in DOMAIN outcomes
    /\ i' = i + 1
    /\ UNCHANGED <<cfg, at, uniqueCodes, outcomes, nextFallback, served>>

\* The inner loop over the fallbacks passes one that some code has ...
PassFallback ==
    /\ InFallbacks
    /\ uniqueCodes[i] \notin DOMAIN outcomes
    /\ HasOutcome(Fallbacks[nextFallback])
    /\ nextFallback' = nextFallback + 1
    /\ UNCHANGED <<cfg, at, i, uniqueCodes, outcomes, served>>

\* ... and ends at one that none has.
AssignFallback ==
    /\ InFallbacks
    /\ uniqueCodes[i] \notin DOMAIN outcomes
    /\ ~HasOutcome(Fallbacks[nextFallback])
    /\ Assign(uniqueCodes[i], Fallbacks[nextFallback])
    /\ nextFallback' = nextFallback + 1
    /\ i' = i + 1
    /\ UNCHANGED <<cfg, at, uniqueCodes, served>>

FallbackDone ==
    /\ at = "fallback" /\ ~InFallbacks
    /\ at' = "ready"
    /\ UNCHANGED <<cfg, i, uniqueCodes, outcomes, nextFallback, served>>

New ==
    \/ UniqueSignalCode \/ UniqueDone
    \/ AssignPreferred \/ NoPreferred \/ PreferredDone
    \/ SkipAssigned \/ PassFallback \/ AssignFallback \/ FallbackDone

--------------------------------------------------------------------------------
(* The API *)

ListKind ==
    IF scenario \in {"empty", "failure"} THEN scenario ELSE "success"

\* A context that is done comes first.
ListConnections ==
    /\ at = "ready"
    /\ \E k \in {ListKind, "cancelled"} :
          /\ reply' = [vehicle |-> "none", kind |-> k]
          /\ listed' = IF k = "success" THEN listed \cup Connections ELSE listed
    /\ UNCHANGED <<cfg, at, i, uniqueCodes, outcomes, nextFallback>>

VehicleKind(v) ==
    IF scenario = "failure" THEN "failure"
    ELSE IF v \in BuiltInVehicles /\ scenario # "empty" THEN "success"
    ELSE "not_found"

SignalKind(v, c) ==
    IF VehicleKind(v) = "success" /\ scenario = "partial" /\ v = "dev-4runner"
       /\ c \in DOMAIN outcomes
    THEN outcomes[c]
    ELSE VehicleKind(v)

Reply(v, kind) ==
    /\ at = "ready"
    /\ \E k \in {kind, "cancelled"} : reply' = [vehicle |-> v, kind |-> k]
    /\ UNCHANGED <<cfg, at, i, uniqueCodes, outcomes, nextFallback, listed>>

GetVehicle(v) == Reply(v, VehicleKind(v))

GetSignal(v, c) == Reply(v, SignalKind(v, c))

Next ==
    \/ New
    \/ ListConnections
    \/ \E v \in Vehicle : GetVehicle(v) \/ \E c \in Code : GetSignal(v, c)

Spec == Init /\ [][Next]_vars

--------------------------------------------------------------------------------
(* Properties *)

\* "--dev-scenario partial": the failures shown for the 4Runner are as many as the
\* configured codes allow, each for one code, so with four codes every state of a
\* signal is on the page (buildPartialOutcomes, GetSignal).
EveryFailureShown ==
    at = "ready" /\ scenario = "partial" =>
        LET configured == ToSet(signalCodes)
            failing    == {c \in configured : SignalKind("dev-4runner", c) \in Failures}
        IN  /\ Cardinality(failing) = Min({3, Cardinality(configured)})
            /\ \A c, d \in failing :
                   SignalKind("dev-4runner", c) = SignalKind("dev-4runner", d) => c = d
================================================================================
