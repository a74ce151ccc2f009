------------------------------- MODULE Migrations ------------------------------
(***************************************************************************)
(* Start of the program over a Postgres database: storage.Open, Ping and   *)
(* Migrate of internal/storage/postgres.go as cmd/smartcar-4runner/main.go *)
(* calls them, by several instances of the program, of several releases,   *)
(* that share the database, stop at any point and start again.             *)
(*                                                                         *)
(* The migrations are numbered in the order of their file names; a release *)
(* knows the first Known[i] of them.  A transaction of the database takes  *)
(* effect at its commit and not at all if it does not get there; the       *)
(* advisory lock ends with it.                                             *)
(***************************************************************************)
EXTENDS Integers, FiniteSets

CONSTANTS
    Instance,      \* the processes
    NoInstance,    \* owner of the advisory lock when it is free
    Known,         \* the number of migrations in each one's embedded files
    MigrateOnStart, \* the instances configured to migrate
    MaxStarts      \* bound on the starts of each

ASSUME MigrationAssumption ==
    /\ NoInstance \notin Instance
    /\ Known \in [Instance -> Nat]
    /\ MigrateOnStart \subseteq Instance
    /\ MaxStarts \in Nat

Version == UNION {1..Known[i] : i \in Instance}

VARIABLES
    applied,    \* committed: how often each migration's SQL has taken effect
    recorded,   \* committed: the versions in schema_migrations
    lockOwner,  \* the instance whose transaction holds the advisory lock
    pc,         \* where each instance is in run and Migrate
    at,         \* the migration its loop has reached
    txApplied,  \* uncommitted: the migrations its transaction has applied
    txRecorded, \* uncommitted: the versions its transaction has inserted
    starts

dbVars == <<applied, recorded>>
txVars == <<at, txApplied, txRecorded>>
vars == <<dbVars, lockOwner, pc, txVars, starts>>

PC == {"stopped", "ping", "lock", "check", "apply", "record", "commit", "serving"}

\* The statements between the advisory lock and the end of the transaction.
InTransaction(i) == pc[i] \in {"check", "apply", "record", "commit"}

TypeOK ==
    /\ applied \in [Version -> Nat]
    /\ recorded \subseteq Version
    /\ lockOwner \in Instance \cup {NoInstance}
    /\ pc \in [Instance -> PC]
    /\ at \in [Instance -> Nat]
    /\ txApplied \in [Instance -> SUBSET Version]
    /\ txRecorded \in [Instance -> SUBSET Version]
    /\ starts \in [Instance -> 0..MaxStarts]

Init ==
    /\ applied = [v \in Version |-> 0]
    /\ recorded = {}
    /\ lockOwner = NoInstance
    /\ pc = [i \in Instance |-> "stopped"]
    /\ at = [i \in Instance |-> 1]
    /\ txApplied = [i \in Instance |-> {}]
    /\ txRecorded = [i \in Instance |-> {}]
    /\ starts = [i \in Instance |-> 0]

--------------------------------------------------------------------------------
(* Helpers *)

Goto(i, to) == pc' = [pc EXCEPT ![i] = to]

\* (slip: a lock of the session, which outlives the transaction)
EndTransactionLocked(i) ==
    /\ UNCHANGED lockOwner
    /\ at' = [at EXCEPT ![i] = 1]
    /\ txApplied' = [txApplied EXCEPT ![i] = {}]
    /\ txRecorded' = [txRecorded EXCEPT ![i] = {}]

\* The transaction ends, and the advisory lock with it.
EndTransaction(i) ==
    /\ lockOwner' = IF lockOwner = i THEN NoInstance ELSE lockOwner
    /\ at' = [at EXCEPT ![i] = 1]
    /\ txApplied' = [txApplied EXCEPT ![i] = {}]
    /\ txRecorded' = [txRecorded EXCEPT ![i] = {}]

\* The deferred Rollback, or the end of the connection.
Abort(i) == UNCHANGED dbVars /\ EndTransaction(i)

\* What the transaction has done takes effect, all of it at once.
CommitTransaction(i) ==
    /\ applied' = [v \in Version |-> applied[v] + IF v \in txApplied[i] THEN 1 ELSE 0]
    /\ recorded' = recorded \cup txRecorded[i]
    /\ EndTransaction(i)

--------------------------------------------------------------------------------
(* run *)

Start(i) ==
    /\ pc[i] = "stopped"
    /\ starts[i] < MaxStarts
    /\ starts' = [starts EXCEPT ![i] = @ + 1]
    /\ Goto(i, "ping")
    /\ UNCHANGED <<dbVars, lockOwner, txVars>>

\* Ping answers; shouldMigrateStorage decides.
Pinged(i) ==
    /\ pc[i] = "ping"
    /\ Goto(i, IF i \in MigrateOnStart THEN "lock" ELSE "serving")
    /\ UNCHANGED <<dbVars, lockOwner, txVars, starts>>

\* Any statement fails, storageCtx times out (also in the wait for the lock), or
\* the process is killed: it ends, and its transaction is rolled back.
Stop(i) ==
    /\ pc[i] # "stopped"
    /\ Goto(i, "stopped")
    /\ Abort(i)
    /\ UNCHANGED starts

--------------------------------------------------------------------------------
(* Migrate *)

\* (slip: no advisory lock)
LockNothing(i) ==
    /\ pc[i] = "lock"
    /\ lockOwner' = i
    /\ Goto(i, "check")
    /\ UNCHANGED <<dbVars, txVars, starts>>

\* BeginTx and pg_advisory_xact_lock, which waits.
Lock(i) ==
    /\ pc[i] = "lock"
    /\ lockOwner = NoInstance
    /\ lockOwner' = i
    /\ Goto(i, "check")
    /\ UNCHANGED <<dbVars, txVars, starts>>

\* postgresMigrationApplied sees what is committed and what is its own.
Recorded(i, v) == v \in recorded \cup txRecorded[i]

SkipApplied(i) ==
    /\ pc[i] = "check"
    /\ at[i] <= Known[i] /\ Recorded(i, at[i])
    /\ at' = [at EXCEPT ![i] = @ + 1]
    /\ UNCHANGED <<dbVars, lockOwner, pc, txApplied, txRecorded, starts>>

\* (slip: the loop runs past the last migration)
NotAppliedPastEnd(i) ==
    /\ pc[i] = "check"
    /\ at[i] <= Known[i] + 1 /\ ~Recorded(i, at[i])
    /\ Goto(i, "apply")
    /\ UNCHANGED <<dbVars, lockOwner, txVars, starts>>

\* (slip: a migration that fails is passed over)
NotAppliedOrFailing(i) ==
    /\ pc[i] = "check"
    /\ at[i] <= Known[i] /\ ~Recorded(i, at[i])
    /\ \/ Goto(i, "apply") /\ UNCHANGED at
       \/ at' = [at EXCEPT ![i] = @ + 1] /\ UNCHANGED pc
    /\ UNCHANGED <<dbVars, lockOwner, txApplied, txRecorded, starts>>

NotApplied(i) ==
    /\ pc[i] = "check"
    /\ at[i] <= Known[i] /\ ~Recorded(i, at[i])
    /\ Goto(i, "apply")
    /\ UNCHANGED <<dbVars, lockOwner, txVars, starts>>

ApplyMigration(i) ==
    /\ pc[i] = "apply"
    /\ txApplied' = [txApplied EXCEPT ![i] = @ \cup {at[i]}]
    /\ Goto(i, "record")
    /\ UNCHANGED <<dbVars, lockOwner, at, txRecorded, starts>>

\* (slip: the version is not inserted)
RecordNothing(i) ==
    /\ pc[i] = "record"
    /\ at' = [at EXCEPT ![i] = @ + 1]
    /\ Goto(i, "check")
    /\ UNCHANGED <<dbVars, lockOwner, txApplied, txRecorded, starts>>

\* The INSERT into schema_migrations, whose key is the version.
RecordMigration(i) ==
    /\ pc[i] = "record"
    /\ ~Recorded(i, at[i])
    /\ txRecorded' = [txRecorded EXCEPT ![i] = @ \cup {at[i]}]
    /\ at' = [at EXCEPT ![i] = @ + 1]
    /\ Goto(i, "check")
    /\ UNCHANGED <<dbVars, lockOwner, txApplied, starts>>

AllChecked(i) ==
    /\ pc[i] = "check"
    /\ at[i] > Known[i]
    /\ Goto(i, "commit")
    /\ UNCHANGED <<dbVars, lockOwner, txVars, starts>>

Commit(i) ==
    /\ pc[i] = "commit"
    /\ CommitTransaction(i)
    /\ Goto(i, "serving")
    /\ UNCHANGED starts

\* The database commits but the process ends before it hears of it.
CommitReplyLost(i) ==
    /\ pc[i] = "commit"
    /\ CommitTransaction(i)
    /\ Goto(i, "stopped")
    /\ UNCHANGED starts

--------------------------------------------------------------------------------
Migrate(i) ==
    \/ Lock(i) \/ SkipApplied(i) \/ NotApplied(i) \/ ApplyMigration(i)
    \/ RecordMigration(i) \/ AllChecked(i) \/ Commit(i) \/ CommitReplyLost(i)

Next == \E i \in Instance : Start(i) \/ Pinged(i) \/ Stop(i) \/ Migrate(i)

\* The database answers every statement; a transaction that waits for the lock is
\* served, or its start times out.
Fairness == \A i \in Instance :
    /\ WF_vars(Pinged(i) \/ (pc[i] # "lock" /\ Migrate(i)))
    /\ SF_vars(Lock(i))

Spec == Init /\ [][Next]_vars /\ Fairness

--------------------------------------------------------------------------------
(* Properties *)

\* No migration ever takes effect twice, however many instances start at once,
\* stop half way or never learn that they have committed; and the table of
\* migrations says exactly which have.
AppliedOnce == \A v \in Version : applied[v] = IF v \in recorded THEN 1 ELSE 0

\* Two transactions never migrate at once: the second sees what the first
\* committed, and its INSERT never meets a version that is there already.
NeverConflicting ==
    /\ \A i, j \in Instance : InTransaction(i) /\ InTransaction(j) => i = j
    /\ \A i \in Instance : pc[i] \in {"apply", "record"} => ~Recorded(i, at[i])

\* An instance that migrates on start serves only a schema its release knows all
\* of, for as long as it runs.
ServesMigrated ==
    \A i \in MigrateOnStart : pc[i] = "serving" => 1..Known[i] \subseteq recorded

\* To whoever looks at the schema and at who serves, a start migrates in one step:
\* between two of them the schema is one that a release left, with each of its
\* migrations in effect once and with no gap.
Atomic == INSTANCE AtomicMigration WITH
    serving <- {i \in Instance : pc[i] = "serving"}

MigratesAtomically == Atomic!Spec

\* An instance that starts ends up serving, or stops; waiting for others to
\* migrate does not go on for ever.
EveryStartEnds ==
    \A i \in Instance : pc[i] = "ping" ~> pc[i] \in {"serving", "stopped"}
================================================================================
