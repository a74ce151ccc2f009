------------------------------ MODULE SessionLife ------------------------------
(***************************************************************************)
(* What accounts and sessions promise those who hold a session token: a    *)
(* token is given out once, opens pages from then on, and once it no       *)
(* longer does, by sign-out, expiry or a wiped database, it never does     *)
(* again.  AuthSessions implements it; BrowserSessions is built on it.     *)
(***************************************************************************)
CONSTANT Token

VARIABLE life   \* Token -> "fresh", "live" or "dead"

Phases == {"fresh", "live", "dead"}

LifeInit == life = [t \in Token |-> "fresh"]

\* A sign-in or signup has inserted the session.
Open(t) ==
    /\ life[t] = "fresh"
    /\ life' = [life EXCEPT ![t] = "live"]

\* Sessions end, several at once when time passes or the tables are wiped; a
\* token that was generated and is not going to be used ends as well.
End(T) ==
    /\ \E t \in T : life[t] # "dead"
    /\ life' = [t \in Token |-> IF t \in T THEN "dead" ELSE life[t]]

LifeNext == (\E t \in Token : Open(t)) \/ (\E T \in SUBSET Token : End(T))

LifeSpec == LifeInit /\ [][LifeNext]_life
================================================================================
