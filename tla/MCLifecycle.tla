------------------------------- MODULE MCLifecycle -----------------------------
(***************************************************************************)
(* Lifecycle on small instances.                                           *)
(***************************************************************************)
EXTENDS Lifecycle, TLC

\* Three environments that are complete: the API with SQLite, with Postgres, and the
\* development backend.
Credited == [o \in Credentials |-> "good"]
Bases == {
    Credited @@ [o \in {"storage_driver"} |-> "sqlite"],
    Credited @@ [o \in {"storage_driver"} |-> "postgres"]
             @@ [o \in PostgresTexts \cup {"postgres_password"} |-> "good"],
    [o \in {"dev_mode"} |-> "true"] @@ [o \in {"storage_driver"} |-> "sqlite"] }

\* At most one option of opts is given.
AtMostOne(opts) ==
    {<<>>} \cup UNION {{[x \in {o} |-> text] : text \in TextsOf(o)} : o \in opts}

\* Flags that decide which other options matter.
SwitchFlags ==
    [{"dev_mode", "sqlite_wipe_on_start"} -> {"true"}]
    \cup [{"dev_mode"} -> {"false"}]
    \cup [{"otel_enabled", "otel_insecure"} -> {"true", "false"}]
    \cup [{"sqlite_wipe_on_start"} -> {"true", "false"}]
    \cup [{"storage_driver"} -> {"sqlite", "postgres"}]

\* Any one option in the environment and as a flag, or any in the environment and a
\* switch among the flags.
MCGiven ==
    LET Pairs == UNION {AtMostOne({o}) \X (AtMostOne({o}) \cup SwitchFlags) : o \in Option}
    IN  {[env |-> ef[1] @@ b, flags |-> ef[2], print |-> ask = "print", help |-> ask = "help"] :
            b \in Bases, ef \in Pairs, ask \in {"nothing", "print", "help"}}
================================================================================
