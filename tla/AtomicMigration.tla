----------------------------- MODULE AtomicMigration ---------------------------
(***************************************************************************)
(* What Migrate of internal/storage/postgres.go promises to run: the       *)
(* migrations a release knows take effect together, each of them if no     *)
(* start before has, and the program serves only after that.  There is no  *)
(* lock, no transaction and no table of migrations here, and no migration  *)
(* is ever seen half way through the list.                                 *)
(***************************************************************************)
EXTENDS Integers

CONSTANTS
    Instance,       \* the processes
    Version,        \* the numbers of the migrations
    Known,          \* the number of migrations in each one's embedded files
    MigrateOnStart  \* the instances configured to migrate

VARIABLES
    applied,  \* how often each migration has taken effect
    serving   \* the instances that serve

vars == <<applied, serving>>

Init ==
    /\ applied = [v \in Version |-> 0]
    /\ serving = {}

\* Migrate returns: whatever was missing of this release's migrations is there.
Migrate(i) ==
    /\ i \notin serving
    /\ applied' = [v \in Version |-> IF v <= Known[i] THEN 1 ELSE applied[v]]
    /\ serving' = serving \cup {i}

\* The same, but nobody hears of it.
MigrateUnheard(i) ==
    /\ i \notin serving
    /\ applied' = [v \in Version |-> IF v <= Known[i] THEN 1 ELSE applied[v]]
    /\ UNCHANGED serving

Serve(i) ==
    /\ i \notin MigrateOnStart \cup serving
    /\ serving' = serving \cup {i}
    /\ UNCHANGED applied

Stop(i) ==
    /\ serving' = serving \ {i}
    /\ UNCHANGED applied

Next ==
    \/ \E i \in MigrateOnStart : Migrate(i) \/ MigrateUnheard(i)
    \/ \E i \in Instance : Serve(i) \/ Stop(i)

Spec == Init /\ [][Next]_vars
================================================================================
