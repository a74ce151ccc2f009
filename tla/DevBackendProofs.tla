---------------------------- MODULE DevBackendProofs ---------------------------
(***************************************************************************)
(* Theorems about DevBackend for any list of configured codes.             *)
(***************************************************************************)
EXTENDS DevBackend, FiniteSetTheorems, TLAPS

TypeInv ==
    /\ scenario \in Scenarios
    /\ signalCodes \in Seq(Code)
    /\ uniqueCodes \in Seq(Code)
    /\ at \in {"unique", "preferred", "fallback", "ready"}
    /\ i \in Nat \ {0}
    /\ nextFallback \in 1..4

\* The list without repetitions has the codes of the part of the configured list
\* that has been read.
UniqueInv ==
    /\ at = "unique" =>
          /\ i <= Len(signalCodes) + 1
          /\ ToSet(uniqueCodes) = {signalCodes[k] : k \in 1..(i - 1)}
          /\ DOMAIN outcomes = {}
    /\ at # "unique" => ToSet(uniqueCodes) = ToSet(signalCodes)

\* Outcomes are failures of configured codes, each of one code at most.
OutcomesInv ==
    /\ outcomes \in [DOMAIN outcomes -> Failures]
    /\ DOMAIN outcomes \subseteq ToSet(uniqueCodes)
    /\ \A c, d \in DOMAIN outcomes : outcomes[c] = outcomes[d] => c = d

\* The last loop leaves behind it only fallbacks that some code has and codes that
\* have an outcome; so it ends with one of the two for all.
FallbackInv ==
    /\ at \in {"unique", "preferred"} => nextFallback = 1
    /\ \A j \in 1..(nextFallback - 1) : HasOutcome(Fallbacks[j])
    /\ at \in {"fallback", "ready"} =>
          \A k \in 1..(i - 1) : k <= Len(uniqueCodes) => uniqueCodes[k] \in DOMAIN outcomes
    /\ at = "ready" => i > Len(uniqueCodes) \/ nextFallback = 4

Inv == TypeInv /\ UniqueInv /\ OutcomesInv /\ FallbackInv

LEMMA InitInv == Init => Inv
<1> SUFFICES ASSUME Init PROVE Inv
  OBVIOUS
<1> USE DEF Init
<1>1. signalCodes \in Seq(Code)
  <2>1. PICK m \in 0..MaxCodes : signalCodes \in [1..m -> Code]
    BY DEF BoundedSeq, SeqOf
  <2> QED
    BY <2>1, MaxCodesAssumption
<1>2. TypeInv
  BY <1>1 DEF TypeInv
<1>3. UniqueInv /\ OutcomesInv /\ FallbackInv
  <2>1. DOMAIN outcomes = {} /\ ToSet(uniqueCodes) = {}
    BY DEF ToSet
  <2>2. UniqueInv
    BY <1>1, <2>1 DEF UniqueInv
  <2>3. OutcomesInv
    BY <2>1 DEF OutcomesInv
  <2>4. FallbackInv
    BY DEF FallbackInv
  <2> QED
    BY <2>2, <2>3, <2>4
<1> QED
  BY <1>2, <1>3 DEF Inv

--------------------------------------------------------------------------------
(* Assigning an outcome *)

\* Giving a configured code that has none an outcome that none has keeps them one
\* to one, and takes none away.
LEMMA AssignStep ==
    ASSUME TypeInv, OutcomesInv, NEW code, NEW outcome \in Failures,
           code \in ToSet(uniqueCodes) \ DOMAIN outcomes, ~HasOutcome(outcome),
           Assign(code, outcome), uniqueCodes' = uniqueCodes
    PROVE  /\ OutcomesInv'
           /\ DOMAIN outcomes' = DOMAIN outcomes \cup {code}
           /\ HasOutcome(outcome)'
           /\ \A o \in Failures : HasOutcome(o) => HasOutcome(o)'
<1>1. DOMAIN outcomes' = DOMAIN outcomes \cup {code}
  BY DEF Assign
<1>2. outcomes'[code] = outcome /\ \A c \in DOMAIN outcomes : outcomes'[c] = outcomes[c]
  BY DEF Assign
<1>3. outcomes' \in [DOMAIN outcomes' -> Failures]
  BY DEF Assign, OutcomesInv
<1>4. \A c, d \in DOMAIN outcomes' : outcomes'[c] = outcomes'[d] => c = d
  BY <1>1, <1>2 DEF OutcomesInv, HasOutcome
<1>5. HasOutcome(outcome)' /\ \A o \in Failures : HasOutcome(o) => HasOutcome(o)'
  BY <1>1, <1>2 DEF HasOutcome
<1>6. DOMAIN outcomes' \subseteq ToSet(uniqueCodes')
  BY <1>1 DEF OutcomesInv
<1> QED
  BY <1>1, <1>3, <1>4, <1>5, <1>6 DEF OutcomesInv

\* Steps of the API, and a loop that ends, leave what New has built.
LEMMA OtherStep ==
    ASSUME Inv, UNCHANGED <<cfg, uniqueCodes, outcomes, nextFallback>>,
           \/ UNCHANGED <<at, i>>
           \/ at = "preferred" /\ at' \in {"preferred", "fallback"} /\ i' \in Nat \ {0}
              /\ (at' = "fallback" => i' = 1)
    PROVE  Inv'
<1>1. TypeInv'
  BY DEF Inv, TypeInv, cfg
<1>2. UniqueInv'
  BY DEF Inv, UniqueInv, cfg
<1>3. OutcomesInv'
  BY DEF Inv, OutcomesInv
<1>4. FallbackInv'
  BY DEF Inv, TypeInv, FallbackInv, HasOutcome
<1> QED
  BY <1>1, <1>2, <1>3, <1>4 DEF Inv

--------------------------------------------------------------------------------
(* The loops *)

LEMMA UniqueStep == Inv /\ (UniqueSignalCode \/ UniqueDone) => Inv'
<1>1. ASSUME Inv, UniqueSignalCode PROVE Inv'
  <2> USE <1>1 DEF Inv, UniqueSignalCode, cfg
  <2>1. signalCodes[i] \in Code /\ i \in 1..Len(signalCodes)
    BY DEF TypeInv
  <2>2. TypeInv'
    BY <2>1 DEF TypeInv
  <2>3. ToSet(uniqueCodes') = ToSet(uniqueCodes) \cup {signalCodes[i]}
    <3>1. CASE signalCodes[i] \in ToSet(uniqueCodes)
      BY <3>1
    <3>2. CASE signalCodes[i] \notin ToSet(uniqueCodes)
      <4>1. uniqueCodes' = Append(uniqueCodes, signalCodes[i])
        BY <3>2
      <4>2. /\ DOMAIN uniqueCodes' = 1..(Len(uniqueCodes) + 1)
            /\ uniqueCodes'[Len(uniqueCodes) + 1] = signalCodes[i]
            /\ \A k \in 1..Len(uniqueCodes) : uniqueCodes'[k] = uniqueCodes[k]
            /\ Len(uniqueCodes) \in Nat /\ DOMAIN uniqueCodes = 1..Len(uniqueCodes)
        BY <2>1, <4>1 DEF TypeInv
      <4> QED
        BY <4>2 DEF ToSet
    <3> QED
      BY <3>1, <3>2
  <2>4. UniqueInv'
    <3>1. {signalCodes[k] : k \in 1..i} = {signalCodes[k] : k \in 1..(i - 1)} \cup {signalCodes[i]}
      BY <2>1
    <3> QED
      BY <2>1, <2>3, <3>1 DEF TypeInv, UniqueInv
  <2>5. OutcomesInv'
    BY <2>3 DEF OutcomesInv
  <2>6. FallbackInv'
    BY DEF FallbackInv, HasOutcome
  <2> QED
    BY <2>2, <2>4, <2>5, <2>6
<1>2. ASSUME Inv, UniqueDone PROVE Inv'
  <2> USE <1>2 DEF Inv, UniqueDone, Enter, cfg
  <2>1. TypeInv'
    BY DEF TypeInv
  <2>2. UniqueInv'
    <3>1. i - 1 = Len(signalCodes) /\ DOMAIN signalCodes = 1..Len(signalCodes)
      BY DEF TypeInv, UniqueInv
    <3> QED
      BY <3>1 DEF UniqueInv, ToSet
  <2>3. OutcomesInv' /\ FallbackInv'
    BY DEF OutcomesInv, FallbackInv, HasOutcome
  <2> QED
    BY <2>1, <2>2, <2>3
<1> QED
  BY <1>1, <1>2

LEMMA PreferredStep == Inv /\ (AssignPreferred \/ NoPreferred \/ PreferredDone) => Inv'
<1>1. ASSUME Inv, AssignPreferred PROVE Inv'
  <2> USE <1>1 DEF Inv, AssignPreferred, cfg
  <2>1. PICK k \in 1..2 : Assignable(k) /\ Assign(Preferred[i].codes[k], Preferred[i].outcome)
    OBVIOUS
  <2>2. Preferred[i].outcome \in Failures
    BY DEF Preferred, Failures, TypeInv
  <2>3. OutcomesInv'
    BY <2>1, <2>2, AssignStep DEF Assignable
  <2>4. TypeInv' /\ UniqueInv'
    BY DEF TypeInv, UniqueInv
  <2>5. FallbackInv'
    BY DEF FallbackInv, TypeInv
  <2> QED
    BY <2>3, <2>4, <2>5
<1>2. ASSUME Inv, NoPreferred PROVE Inv'
  BY <1>2, OtherStep DEF NoPreferred, Inv, TypeInv, cfg
<1>3. ASSUME Inv, PreferredDone PROVE Inv'
  BY <1>3, OtherStep DEF PreferredDone, Enter, cfg
<1> QED
  BY <1>1, <1>2, <1>3

LEMMA FallbackStep ==
    Inv /\ (SkipAssigned \/ PassFallback \/ AssignFallback \/ FallbackDone) => Inv'
<1> USE DEF InFallbacks
<1>1. ASSUME Inv, SkipAssigned PROVE Inv'
  <2> USE <1>1 DEF Inv, SkipAssigned, cfg
  <2>1. TypeInv' /\ UniqueInv' /\ OutcomesInv'
    BY DEF TypeInv, UniqueInv, OutcomesInv
  <2>2. FallbackInv'
    BY DEF TypeInv, FallbackInv, HasOutcome
  <2> QED
    BY <2>1, <2>2
<1>2. ASSUME Inv, PassFallback PROVE Inv'
  <2> USE <1>2 DEF Inv, PassFallback, cfg
  <2>1. TypeInv' /\ UniqueInv' /\ OutcomesInv'
    BY DEF TypeInv, UniqueInv, OutcomesInv
  <2>2. FallbackInv'
    BY DEF TypeInv, FallbackInv, HasOutcome
  <2> QED
    BY <2>1, <2>2
<1>3. ASSUME Inv, AssignFallback PROVE Inv'
  <2> USE <1>3 DEF Inv, AssignFallback, cfg
  <2>1. \A j \in 1..3 : Fallbacks[j] \in Failures
    BY DEF Fallbacks, Failures
  <2>2. PICK code \in ToSet(uniqueCodes) : code = uniqueCodes[i]
    BY DEF TypeInv, ToSet
  <2>3. PICK outcome \in Failures : outcome = Fallbacks[nextFallback]
    BY <2>1 DEF TypeInv
  <2>4. /\ OutcomesInv' /\ DOMAIN outcomes' = DOMAIN outcomes \cup {code}
        /\ HasOutcome(outcome)' /\ \A o \in Failures : HasOutcome(o) => HasOutcome(o)'
    BY <2>2, <2>3, AssignStep
  <2>5. TypeInv' /\ UniqueInv'
    BY DEF TypeInv, UniqueInv
  <2>6. \A j \in 1..nextFallback : HasOutcome(Fallbacks[j])'
    <3>1. \A j \in 1..(nextFallback - 1) : HasOutcome(Fallbacks[j])'
      BY <2>1, <2>4 DEF TypeInv, FallbackInv
    <3> QED
      BY <2>3, <2>4, <3>1 DEF TypeInv
  <2>7. FallbackInv'
    BY <2>2, <2>4, <2>6 DEF TypeInv, FallbackInv
  <2> QED
    BY <2>4, <2>5, <2>7
<1>4. ASSUME Inv, FallbackDone PROVE Inv'
  <2> USE <1>4 DEF Inv, FallbackDone, cfg
  <2>1. TypeInv' /\ UniqueInv' /\ OutcomesInv'
    BY DEF TypeInv, UniqueInv, OutcomesInv
  <2>2. FallbackInv'
    BY DEF TypeInv, FallbackInv, HasOutcome
  <2> QED
    BY <2>1, <2>2
<1> QED
  BY <1>1, <1>2, <1>3, <1>4

LEMMA NextInv == Inv /\ [Next]_vars => Inv'
<1> SUFFICES ASSUME Inv, [Next]_vars PROVE Inv'
  OBVIOUS
<1>1. CASE New
  BY <1>1, UniqueStep, PreferredStep, FallbackStep DEF New
<1>2. CASE ListConnections
  BY <1>2, OtherStep DEF ListConnections
<1>3. ASSUME NEW v \in Vehicle, GetVehicle(v) \/ \E c \in Code : GetSignal(v, c)
      PROVE  Inv'
  BY <1>3, OtherStep DEF GetVehicle, GetSignal, Reply
<1>4. CASE UNCHANGED vars
  BY <1>4, OtherStep DEF vars
<1> QED
  BY <1>1, <1>2, <1>3, <1>4 DEF Next

LEMMA Invariance == Spec => []Inv
BY InitInv, NextInv, PTL DEF Spec

--------------------------------------------------------------------------------
(* What the built outcomes come to *)

LEMMA MinOfTwo ==
    ASSUME NEW m \in Nat, NEW n \in Nat
    PROVE  Min({m, n}) = IF m <= n THEN m ELSE n
<1>1. \E x \in {m, n} : \A y \in {m, n} : x <= y
  OBVIOUS
<1>2. Min({m, n}) \in {m, n} /\ \A y \in {m, n} : Min({m, n}) <= y
  BY <1>1 DEF Min
<1> QED
  BY <1>2

\* A list is finite.
LEMMA ToSetFinite == ASSUME NEW S, NEW s \in Seq(S) PROVE IsFiniteSet(ToSet(s))
<1>1. s \in Surjection(1..Len(s), ToSet(s))
  BY DEF ToSet, Surjection
<1>2. IsFiniteSet(1..Len(s))
  BY FS_Interval
<1> QED
  BY <1>1, <1>2, FS_Surjection

LEMMA ThreeFailures == IsFiniteSet(Failures) /\ Cardinality(Failures) = 3
<1>1. IsFiniteSet({"unsupported"}) /\ Cardinality({"unsupported"}) = 1
  BY FS_Singleton
<1>2. /\ IsFiniteSet({"unsupported"} \cup {"unavailable"})
      /\ Cardinality({"unsupported"} \cup {"unavailable"}) = 2
  BY <1>1, FS_AddElement
<1>3. Failures = ({"unsupported"} \cup {"unavailable"}) \cup {"error"}
  BY DEF Failures
<1> QED
  BY <1>2, <1>3, FS_AddElement

\* Once New has returned, the outcomes are as many as the codes allow.
LEMMA AsManyAsCodes ==
    ASSUME Inv, at = "ready"
    PROVE  Cardinality(DOMAIN outcomes) = Min({3, Cardinality(ToSet(signalCodes))})
<1> DEFINE codes == ToSet(signalCodes)
           failing == DOMAIN outcomes
<1>1. IsFiniteSet(codes) /\ Cardinality(codes) \in Nat
  BY ToSetFinite, FS_CardinalityType DEF Inv, TypeInv
<1>2. failing \in SUBSET codes
  BY DEF Inv, UniqueInv, OutcomesInv
<1>3. IsFiniteSet(failing) /\ Cardinality(failing) <= Cardinality(codes)
      /\ Cardinality(failing) \in Nat
  BY <1>1, <1>2, FS_Subset, FS_CardinalityType
<1>4. outcomes \in Injection(failing, Failures)
  BY DEF Inv, OutcomesInv, Injection, IsInjective
<1>5. /\ Cardinality(failing) <= 3
      /\ Cardinality(failing) = 3 <=> outcomes \in Surjection(failing, Failures)
  BY <1>4, ThreeFailures, FS_Injection
<1>6. CASE nextFallback = 4
  <2>1. \A o \in Failures : HasOutcome(o)
    <3>1. HasOutcome(Fallbacks[1]) /\ HasOutcome(Fallbacks[2]) /\ HasOutcome(Fallbacks[3])
      BY <1>6 DEF Inv, FallbackInv
    <3> QED
      BY <3>1 DEF Failures, Fallbacks
  <2>2. outcomes \in Surjection(failing, Failures)
    BY <2>1 DEF Inv, OutcomesInv, HasOutcome, Surjection
  <2> QED
    BY <1>1, <1>3, <1>5, <2>2, MinOfTwo
<1>7. CASE i > Len(uniqueCodes)
  <2>1. codes \subseteq failing
    <3>1. ToSet(uniqueCodes) \subseteq failing
      BY <1>7 DEF Inv, TypeInv, FallbackInv, ToSet
    <3> QED
      BY <3>1 DEF Inv, UniqueInv
  <2>2. codes = failing
    BY <1>2, <2>1
  <2> QED
    BY <1>1, <1>5, <2>2, MinOfTwo
<1> QED
  BY <1>6, <1>7 DEF Inv, FallbackInv

\* Whatever codes are configured, the scenario "partial" shows each kind of failure,
\* or as many kinds as there are codes, and none twice.
THEOREM FailuresShown == Spec => []EveryFailureShown
<1>1. Inv => EveryFailureShown
  <2> SUFFICES ASSUME Inv, at = "ready", scenario = "partial"
      PROVE  LET configured == ToSet(signalCodes)
                 failing == {c \in configured : SignalKind("dev-4runner", c) \in Failures}
             IN  /\ Cardinality(failing) = Min({3, Cardinality(configured)})
                 /\ \A c, d \in failing :
                        SignalKind("dev-4runner", c) = SignalKind("dev-4runner", d) => c = d
    BY DEF EveryFailureShown
  <2> DEFINE failing == {c \in ToSet(signalCodes) : SignalKind("dev-4runner", c) \in Failures}
  <2>1. VehicleKind("dev-4runner") = "success" /\ "success" \notin Failures
    BY DEF VehicleKind, BuiltInVehicles, Failures
  <2>2. \A c : SignalKind("dev-4runner", c) =
               IF c \in DOMAIN outcomes THEN outcomes[c] ELSE "success"
    BY <2>1 DEF SignalKind
  <2>3. failing = DOMAIN outcomes
    BY <2>1, <2>2 DEF Inv, UniqueInv, OutcomesInv
  <2>4. Cardinality(failing) = Min({3, Cardinality(ToSet(signalCodes))})
    BY <2>3, AsManyAsCodes
  <2>5. \A c, d \in failing :
            SignalKind("dev-4runner", c) = SignalKind("dev-4runner", d) => c = d
    BY <2>2, <2>3 DEF Inv, OutcomesInv
  <2> QED
    BY <2>4, <2>5
<1> QED
  BY <1>1, Invariance, PTL
================================================================================
