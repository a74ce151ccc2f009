---------------------------- MODULE MigrationsProofs ---------------------------
(***************************************************************************)
(* Theorems about Migrations for any instances, releases and numbers of    *)
(* migrations and starts.                                                  *)
(***************************************************************************)
EXTENDS Migrations, TLAPS

\* The advisory lock is held exactly by the instance inside its transaction.
LockInv == \A i \in Instance : InTransaction(i) <=> lockOwner = i

\* What a transaction has done so far: it has applied what it has recorded, and
\* the migration in hand once it is applied; none of it is committed; and all
\* the migrations before the one in hand are recorded, here or there.
TransactionOf(i) ==
    /\ at[i] \in 1..(Known[i] + 1)
    /\ txRecorded[i] \subseteq 1..(at[i] - 1)
    /\ txRecorded[i] \cap recorded = {}
    /\ txApplied[i] = IF pc[i] = "record" THEN txRecorded[i] \cup {at[i]} ELSE txRecorded[i]
    /\ \A v \in 1..(at[i] - 1) : v \in recorded \cup txRecorded[i]
    /\ pc[i] \in {"apply", "record"} => at[i] <= Known[i] /\ at[i] \notin recorded
    /\ pc[i] = "commit" => at[i] = Known[i] + 1
    /\ ~InTransaction(i) => at[i] = 1

TransactionInv == \A i \in Instance : TransactionOf(i)

SchemaInv ==
    /\ AppliedOnce
    /\ \A v \in recorded : \A u \in Version : u <= v => u \in recorded
    /\ \A i \in Instance : i \in MigrateOnStart /\ pc[i] = "serving" =>
          \A v \in 1..Known[i] : v \in recorded

Inv == TypeOK /\ LockInv /\ TransactionInv /\ SchemaInv

\* A release's migrations are versions.
LEMMA KnownVersions ==
    /\ Version \subseteq Nat \ {0}
    /\ \A i \in Instance : 1..Known[i] \subseteq Version
    /\ \A v \in Version : \A u \in 1..v : u \in Version
BY MigrationAssumption DEF Version

\* Init establishes the invariant.
LEMMA InitInv == Init => Inv
<1> SUFFICES ASSUME Init PROVE Inv
  OBVIOUS
<1> USE MigrationAssumption DEF Init
<1>1. TypeOK
  BY DEF TypeOK, PC
<1>2. LockInv /\ TransactionInv
  BY DEF LockInv, TransactionInv, TransactionOf, InTransaction
<1>3. SchemaInv
  BY DEF SchemaInv, AppliedOnce
<1> QED
  BY <1>1, <1>2, <1>3 DEF Inv

\* Outside a transaction there is nothing to roll back.
LEMMA IdleEmpty ==
    ASSUME Inv, NEW i \in Instance, ~InTransaction(i)
    PROVE  at[i] = 1 /\ txRecorded[i] = {} /\ txApplied[i] = {}
<1>1. at[i] = 1 /\ pc[i] # "record" /\ txRecorded[i] \subseteq 1..(1 - 1)
  BY DEF Inv, TransactionInv, TransactionOf, InTransaction
<1>2. 1..(1 - 1) = {}
  OBVIOUS
<1>3. txRecorded[i] = {}
  BY <1>1, <1>2
<1> QED
  BY <1>1, <1>3 DEF Inv, TransactionInv, TransactionOf

\* The migration in hand is one of the release's and is not committed.
LEMMA InHand ==
    ASSUME Inv, NEW i \in Instance, pc[i] \in {"apply", "record"}
    PROVE  at[i] \in 1..Known[i] /\ at[i] \notin recorded
<1>1. TransactionOf(i) /\ Known[i] \in Nat
  BY MigrationAssumption DEF Inv, TransactionInv
<1> QED
  BY <1>1 DEF TransactionOf

\* A step that leaves the tables and the lock alone, and moves one instance's own
\* variables on, keeps what the others have.
LEMMA LocalStep ==
    ASSUME Inv, UNCHANGED <<dbVars, lockOwner>>, NEW i \in Instance,
           TypeOK',
           \A j \in Instance \ {i} :
               pc'[j] = pc[j] /\ at'[j] = at[j] /\ txApplied'[j] = txApplied[j]
               /\ txRecorded'[j] = txRecorded[j],
           InTransaction(i)' <=> InTransaction(i),
           pc'[i] = "serving" => i \notin MigrateOnStart,
           TransactionOf(i)'
    PROVE  Inv'
<1>1. LockInv'
  BY DEF Inv, LockInv, InTransaction
<1>2. TransactionInv'
  <2> SUFFICES ASSUME NEW j \in Instance \ {i} PROVE TransactionOf(j)'
    BY DEF TransactionInv, TransactionOf
  <2>1. TransactionOf(j)
    BY DEF Inv, TransactionInv
  <2> QED
    BY <2>1 DEF TransactionOf, InTransaction, dbVars
<1>3. SchemaInv'
  BY DEF Inv, SchemaInv, AppliedOnce, dbVars
<1> QED
  BY <1>1, <1>2, <1>3 DEF Inv

\* The end of a transaction that takes no effect.
LEMMA AbortStep ==
    ASSUME Inv, NEW i \in Instance, Stop(i)
    PROVE  Inv'
<1> USE MigrationAssumption DEF Stop, Abort, EndTransaction, Goto, dbVars
<1>1. TypeOK'
  BY DEF Inv, TypeOK, PC
<1>2. LockInv'
  BY DEF Inv, LockInv, TypeOK, InTransaction
<1>3. TransactionInv'
  <2>1. at'[i] = 1 /\ txRecorded'[i] = {} /\ txApplied'[i] = {} /\ ~InTransaction(i)'
    BY DEF Inv, TypeOK, InTransaction
  <2>2. \A j \in Instance \ {i} :
            /\ at'[j] = at[j] /\ txRecorded'[j] = txRecorded[j]
            /\ txApplied'[j] = txApplied[j] /\ pc'[j] = pc[j]
    BY DEF Inv, TypeOK
  <2>3. 1 \in 1..(Known[i] + 1) /\ 1..(1 - 1) = {}
    OBVIOUS
  <2>4. UNCHANGED recorded
    OBVIOUS
  <2> HIDE DEF Stop, Abort, EndTransaction, Goto, dbVars
  <2>5. ASSUME NEW j \in Instance
        PROVE  TransactionOf(j)'
    <3>1. CASE j = i
      BY <2>1, <2>3, <2>4, <3>1 DEF TransactionOf, InTransaction
    <3>2. CASE j # i
      <4>1. TransactionOf(j)
        BY DEF Inv, TransactionInv
      <4> QED
        BY <2>2, <2>4, <3>2, <4>1 DEF TransactionOf, InTransaction
    <3> QED
      BY <3>1, <3>2
  <2> QED
    BY <2>5 DEF TransactionInv
<1>4. SchemaInv'
  BY DEF Inv, TypeOK, SchemaInv, AppliedOnce
<1> QED
  BY <1>1, <1>2, <1>3, <1>4 DEF Inv

\* The commit: what was applied and recorded, all of it new, takes effect.
LEMMA CommitStep ==
    ASSUME Inv, NEW i \in Instance, Commit(i) \/ CommitReplyLost(i)
    PROVE  Inv'
<1> USE MigrationAssumption
    DEF Commit, CommitReplyLost, CommitTransaction, EndTransaction, Goto
<1>1. /\ txApplied[i] = txRecorded[i]
      /\ txRecorded[i] \cap recorded = {}
      /\ \A v \in 1..Known[i] : v \in recorded \cup txRecorded[i]
      /\ txRecorded[i] \subseteq 1..Known[i]
      /\ lockOwner = i
  BY DEF Inv, TypeOK, LockInv, TransactionInv, TransactionOf, InTransaction
<1>2. \A j \in Instance : InTransaction(j) => j = i
  BY <1>1 DEF Inv, LockInv
<1>3. recorded' = recorded \cup txRecorded[i]
  OBVIOUS
<1>4. \A v \in Version : applied'[v] = IF v \in txRecorded[i] THEN applied[v] + 1 ELSE applied[v]
  BY <1>1 DEF Inv, TypeOK
<1>5. TypeOK'
  <2>1. applied' \in [Version -> Nat]
    BY DEF Inv, TypeOK
  <2> QED
    BY <2>1 DEF Inv, TypeOK, PC
<1>6. LockInv'
  BY <1>1, <1>2 DEF Inv, TypeOK, LockInv, InTransaction
<1>7. TransactionInv'
  <2>1. ASSUME NEW j \in Instance
        PROVE  at'[j] = 1 /\ txRecorded'[j] = {} /\ txApplied'[j] = {} /\ ~InTransaction(j)'
    <3>1. CASE j = i
      BY <3>1 DEF Inv, TypeOK, InTransaction
    <3>2. CASE j # i
      <4>1. ~InTransaction(j) /\ at[j] = 1
        BY <1>2, <3>2 DEF Inv, TransactionInv, TransactionOf
      <4>2. txRecorded[j] = {} /\ txApplied[j] = {}
        BY <4>1, IdleEmpty
      <4> QED
        BY <3>2, <4>1, <4>2 DEF Inv, TypeOK, InTransaction
    <3> QED
      BY <3>1, <3>2
  <2>2. \A j \in Instance : 1 \in 1..(Known[j] + 1) /\ 1..(1 - 1) = {}
    OBVIOUS
  <2> QED
    BY <2>1, <2>2 DEF TransactionInv, TransactionOf, InTransaction
<1>8. AppliedOnce'
  BY <1>1, <1>3, <1>4 DEF Inv, TypeOK, SchemaInv, AppliedOnce
<1>9. ASSUME NEW v \in recorded', NEW u \in Version, u <= v PROVE u \in recorded'
  <2>1. CASE v \in recorded
    BY <1>3, <1>9, <2>1 DEF Inv, SchemaInv
  <2>2. CASE v \in txRecorded[i]
    <3>1. u \in 1..Known[i]
      BY <1>1, <1>9, <2>2, KnownVersions
    <3> QED
      BY <1>1, <1>3, <3>1
  <2> QED
    BY <1>3, <2>1, <2>2
<1>10. ASSUME NEW j \in Instance, j \in MigrateOnStart, pc'[j] = "serving",
              NEW v \in 1..Known[j]
       PROVE  v \in recorded'
  <2>1. CASE j = i
    BY <1>1, <1>3, <2>1
  <2>2. CASE j # i
    BY <1>3, <1>10, <2>2 DEF Inv, TypeOK, SchemaInv
  <2> QED
    BY <2>1, <2>2
<1> QED
  BY <1>5, <1>6, <1>7, <1>8, <1>9, <1>10 DEF Inv, SchemaInv, Version

\* Each step keeps the invariant.
LEMMA NextInv == Inv /\ [Next]_vars => Inv'
<1> SUFFICES ASSUME Inv, [Next]_vars PROVE Inv'
  OBVIOUS
<1> USE MigrationAssumption DEF Goto
<1>1. ASSUME NEW i \in Instance, Start(i) PROVE Inv'
  <2>1. TypeOK'
    BY <1>1 DEF Start, Inv, TypeOK, PC, dbVars, txVars
  <2> QED
    BY <1>1, <2>1, LocalStep
    DEF Start, Inv, TypeOK, TransactionInv, TransactionOf, InTransaction, dbVars, txVars
<1>2. ASSUME NEW i \in Instance, Pinged(i) PROVE Inv'
  <2>1. TypeOK'
    BY <1>2 DEF Pinged, Inv, TypeOK, PC, dbVars, txVars
  <2> QED
    BY <1>2, <2>1, LocalStep
    DEF Pinged, Inv, TypeOK, TransactionInv, TransactionOf, InTransaction, dbVars, txVars
<1>3. ASSUME NEW i \in Instance, Lock(i) PROVE Inv'
  <2>1. TypeOK'
    BY <1>3 DEF Lock, Inv, TypeOK, PC, dbVars, txVars
  <2>2. LockInv'
    BY <1>3 DEF Lock, Inv, TypeOK, LockInv, InTransaction
  <2>3. TransactionInv'
    BY <1>3 DEF Lock, Inv, TypeOK, TransactionInv, TransactionOf, InTransaction, dbVars, txVars
  <2>4. SchemaInv'
    BY <1>3 DEF Lock, Inv, TypeOK, SchemaInv, AppliedOnce, dbVars, txVars
  <2> QED
    BY <2>1, <2>2, <2>3, <2>4 DEF Inv
<1>4. ASSUME NEW i \in Instance, SkipApplied(i) PROVE Inv'
  <2>1. TypeOK'
    BY <1>4 DEF SkipApplied, Inv, TypeOK, PC, dbVars
  <2>2. /\ at[i] \in 1..Known[i] /\ at'[i] = at[i] + 1
        /\ at[i] \in recorded \cup txRecorded[i]
    BY <1>4 DEF SkipApplied, Recorded, Inv, TypeOK, TransactionInv, TransactionOf
  <2> QED
    BY <1>4, <2>1, <2>2, LocalStep
    DEF SkipApplied, Inv, TypeOK, TransactionInv, TransactionOf, InTransaction, dbVars
<1>5. ASSUME NEW i \in Instance, NotApplied(i) PROVE Inv'
  <2>1. TypeOK'
    BY <1>5 DEF NotApplied, Inv, TypeOK, PC, dbVars, txVars
  <2> QED
    BY <1>5, <2>1, LocalStep
    DEF NotApplied, Recorded, Inv, TypeOK, TransactionInv, TransactionOf, InTransaction, dbVars, txVars
<1>6. ASSUME NEW i \in Instance, ApplyMigration(i) PROVE Inv'
  <2>1. at[i] \in Version
    BY <1>6, InHand, KnownVersions DEF ApplyMigration
  <2>2. TypeOK'
    BY <1>6, <2>1 DEF ApplyMigration, Inv, TypeOK, PC, dbVars
  <2> QED
    BY <1>6, <2>2, LocalStep
    DEF ApplyMigration, Inv, TypeOK, TransactionInv, TransactionOf, InTransaction, dbVars
<1>7. ASSUME NEW i \in Instance, RecordMigration(i) PROVE Inv'
  <2>1. at[i] \in Version /\ at[i] \in 1..Known[i] /\ at[i] \notin recorded
    BY <1>7, InHand, KnownVersions DEF RecordMigration
  <2>2. TypeOK'
    BY <1>7, <2>1 DEF RecordMigration, Inv, TypeOK, PC, dbVars
  <2>3. at'[i] = at[i] + 1 /\ txRecorded'[i] = txRecorded[i] \cup {at[i]}
    BY <1>7 DEF RecordMigration, Inv, TypeOK
  <2>4. UNCHANGED <<recorded, txApplied>> /\ pc[i] = "record" /\ pc'[i] = "check"
    BY <1>7 DEF RecordMigration, Inv, TypeOK, dbVars
  <2>5. TransactionOf(i)
    BY DEF Inv, TransactionInv
  <2>6. TransactionOf(i)'
    <3>1. txRecorded'[i] \subseteq 1..(at'[i] - 1)
      BY <2>1, <2>3, <2>5 DEF TransactionOf
    <3>2. txRecorded'[i] \cap recorded' = {}
      BY <2>1, <2>3, <2>4, <2>5 DEF TransactionOf
    <3>3. txApplied'[i] = txRecorded'[i]
      BY <2>3, <2>4, <2>5 DEF TransactionOf
    <3>4. \A v \in 1..(at'[i] - 1) : v \in recorded' \cup txRecorded'[i]
      BY <2>1, <2>3, <2>4, <2>5 DEF TransactionOf
    <3> QED
      BY <2>1, <2>3, <2>4, <3>1, <3>2, <3>3, <3>4 DEF TransactionOf, InTransaction
  <2>7. \A j \in Instance \ {i} :
            /\ pc'[j] = pc[j] /\ at'[j] = at[j]
            /\ txApplied'[j] = txApplied[j] /\ txRecorded'[j] = txRecorded[j]
    BY <1>7 DEF RecordMigration, Inv, TypeOK
  <2>8. UNCHANGED <<dbVars, lockOwner>>
    BY <1>7 DEF RecordMigration
  <2>9. InTransaction(i)' <=> InTransaction(i)
    BY <2>4 DEF InTransaction
  <2> QED
    BY <2>2, <2>4, <2>6, <2>7, <2>8, <2>9, LocalStep
<1>8. ASSUME NEW i \in Instance, AllChecked(i) PROVE Inv'
  <2>1. TypeOK'
    BY <1>8 DEF AllChecked, Inv, TypeOK, PC, dbVars, txVars
  <2> QED
    BY <1>8, <2>1, LocalStep
    DEF AllChecked, Inv, TypeOK, TransactionInv, TransactionOf, InTransaction, dbVars, txVars
<1>9. ASSUME UNCHANGED vars PROVE Inv'
  BY <1>9
  DEF vars, dbVars, txVars, Inv, TypeOK, LockInv, TransactionInv, TransactionOf, SchemaInv, AppliedOnce,
      InTransaction
<1> QED
  BY <1>1, <1>2, <1>3, <1>4, <1>5, <1>6, <1>7, <1>8, <1>9, AbortStep, CommitStep
  DEF Next, Migrate

LEMMA Invariance == Spec => []Inv
BY InitInv, NextInv, PTL DEF Spec

\* Every variable keeps its type.
THEOREM TypeCorrect == Spec => []TypeOK
BY Invariance, PTL DEF Inv

\* No migration ever takes effect twice, whatever stops and starts again.
THEOREM AppliedOnceSafe == Spec => []AppliedOnce
BY Invariance, PTL DEF Inv, SchemaInv

\* Transactions exclude each other, and none inserts a version twice.
THEOREM NoConflict == Spec => []NeverConflicting
<1>1. Inv => NeverConflicting
  BY MigrationAssumption
  DEF Inv, TypeOK, LockInv, TransactionInv, TransactionOf, InTransaction, NeverConflicting, Recorded
<1> QED
  BY <1>1, Invariance, PTL

\* Whoever migrates on start serves a schema that has all its release knows.
THEOREM ServedSafe == Spec => []ServesMigrated
<1>1. Inv => ServesMigrated
  BY MigrationAssumption DEF Inv, SchemaInv, ServesMigrated
<1> QED
  BY <1>1, Invariance, PTL

--------------------------------------------------------------------------------
(* Migrations implements AtomicMigration *)

\* Only those that are told to migrate get to the lock.
MigrantInv == \A i \in Instance :
    pc[i] = "lock" \/ InTransaction(i) => i \in MigrateOnStart

LEMMA MigrantStep == TypeOK /\ MigrantInv /\ [Next]_vars => MigrantInv'
<1> SUFFICES ASSUME TypeOK, MigrantInv, [Next]_vars PROVE MigrantInv'
  OBVIOUS
<1> USE DEF TypeOK, MigrantInv, InTransaction, Goto
<1>1. ASSUME NEW i \in Instance, Start(i) \/ Stop(i) \/ Pinged(i) PROVE MigrantInv'
  BY <1>1 DEF Start, Stop, Pinged
<1>2. ASSUME NEW i \in Instance, Migrate(i) PROVE MigrantInv'
  BY <1>2
  DEF Migrate, Lock, SkipApplied, NotApplied, ApplyMigration, RecordMigration, AllChecked,
      Commit, CommitReplyLost
<1>3. CASE UNCHANGED vars
  BY <1>3 DEF vars
<1> QED
  BY <1>1, <1>2, <1>3 DEF Next

LEMMA Migrants == Spec => []MigrantInv
<1>1. Init => MigrantInv
  BY DEF Init, MigrantInv, InTransaction
<1> QED
  BY <1>1, MigrantStep, TypeCorrect, PTL DEF Spec

\* A commit brings in just what was missing of the release's migrations.
LEMMA CommitCompletes ==
    ASSUME Inv, NEW i \in Instance, Commit(i) \/ CommitReplyLost(i)
    PROVE  applied' = [v \in Version |-> IF v <= Known[i] THEN 1 ELSE applied[v]]
<1>1. /\ txApplied[i] = txRecorded[i]
      /\ txRecorded[i] \cap recorded = {}
      /\ \A v \in 1..Known[i] : v \in recorded \cup txRecorded[i]
      /\ txRecorded[i] \subseteq 1..Known[i]
  BY MigrationAssumption
  DEF Inv, TypeOK, TransactionInv, TransactionOf, InTransaction, Commit, CommitReplyLost
<1>2. applied' = [v \in Version |-> applied[v] + IF v \in txApplied[i] THEN 1 ELSE 0]
  BY DEF Commit, CommitReplyLost, CommitTransaction
<1>3. ASSUME NEW v \in Version
      PROVE  applied[v] + (IF v \in txApplied[i] THEN 1 ELSE 0)
             = IF v <= Known[i] THEN 1 ELSE applied[v]
  <2>1. v \in Nat \ {0} /\ Known[i] \in Nat /\ applied[v] \in Nat
    BY KnownVersions, MigrationAssumption DEF Inv, TypeOK
  <2>2. applied[v] = IF v \in recorded THEN 1 ELSE 0
    BY DEF Inv, SchemaInv, AppliedOnce
  <2>3. v <= Known[i] <=> v \in 1..Known[i]
    BY <2>1
  <2> QED
    BY <1>1, <2>1, <2>2, <2>3
<1> QED
  BY <1>2, <1>3

Serving == {i \in Instance : pc[i] = "serving"}

\* Each step is one of AtomicMigration, or shows in neither schema nor service.
LEMMA AtomicStep == Inv /\ MigrantInv /\ [Next]_vars => [Atomic!Next]_(Atomic!vars)
<1> SUFFICES ASSUME Inv, MigrantInv, [Next]_vars
    PROVE  Atomic!Next \/ UNCHANGED <<applied, Serving>>
  BY DEF Atomic!vars, Serving
<1> USE DEF Goto, Inv, TypeOK, Serving
<1>1. ASSUME NEW i \in Instance, Commit(i) PROVE Atomic!Migrate(i) /\ i \in MigrateOnStart
  <2>1. i \in MigrateOnStart
    BY <1>1 DEF Commit, MigrantInv, InTransaction
  <2>2. Serving' = Serving \cup {i} /\ i \notin Serving
    BY <1>1 DEF Commit
  <2> QED
    BY <1>1, <2>1, <2>2, CommitCompletes DEF Atomic!Migrate
<1>2. ASSUME NEW i \in Instance, CommitReplyLost(i)
      PROVE  Atomic!MigrateUnheard(i) /\ i \in MigrateOnStart
  <2>1. i \in MigrateOnStart
    BY <1>2 DEF CommitReplyLost, MigrantInv, InTransaction
  <2>2. Serving' = Serving /\ i \notin Serving
    BY <1>2 DEF CommitReplyLost
  <2> QED
    BY <1>2, <2>1, <2>2, CommitCompletes DEF Atomic!MigrateUnheard
<1>3. ASSUME NEW i \in Instance, Pinged(i) PROVE Atomic!Serve(i) \/ UNCHANGED <<applied, Serving>>
  <2>1. UNCHANGED applied
    BY <1>3 DEF Pinged, dbVars
  <2>2. CASE i \in MigrateOnStart
    BY <1>3, <2>1, <2>2 DEF Pinged
  <2>3. CASE i \notin MigrateOnStart
    <3>1. Serving' = Serving \cup {i} /\ i \notin Serving
      BY <1>3, <2>3 DEF Pinged
    <3> QED
      BY <2>1, <2>3, <3>1 DEF Atomic!Serve
  <2> QED
    BY <2>2, <2>3
<1>4. ASSUME NEW i \in Instance, Stop(i) PROVE Atomic!Stop(i)
  <2>1. Serving' = Serving \ {i}
    BY <1>4 DEF Stop
  <2>2. UNCHANGED applied
    BY <1>4 DEF Stop, Abort, dbVars
  <2> QED
    BY <2>1, <2>2 DEF Atomic!Stop
<1>5. ASSUME NEW i \in Instance,
             \/ Start(i) \/ Lock(i) \/ SkipApplied(i) \/ NotApplied(i)
             \/ ApplyMigration(i) \/ RecordMigration(i) \/ AllChecked(i)
      PROVE  UNCHANGED <<applied, Serving>>
  BY <1>5
  DEF Start, Lock, SkipApplied, NotApplied, ApplyMigration, RecordMigration, AllChecked, dbVars
<1>6. CASE UNCHANGED vars
  BY <1>6 DEF vars, dbVars
<1> QED
  BY <1>1, <1>2, <1>3, <1>4, <1>5, <1>6, MigrationAssumption DEF Next, Migrate, Atomic!Next

\* Whatever stops, waits or never hears of its commit, a start migrates in one step:
\* the schema never shows a migration twice, one before an earlier one, or a part of
\* what a release brings, and who was to migrate serves only after that.
THEOREM MigrationAtomic == Spec => MigratesAtomically
<1>1. Init => Atomic!Init
  BY DEF Init, Atomic!Init
<1> QED
  BY <1>1, AtomicStep, Invariance, Migrants, PTL DEF Spec, MigratesAtomically, Atomic!Spec
================================================================================
