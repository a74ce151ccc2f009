------------------------------- MODULE TokenSource -----------------------------
(***************************************************************************)
(* What accessToken of internal/smartcar/token.go promises the calls of    *)
(* the client: one token for all, got or renewed in one step, and renewed  *)
(* only when it can no longer be used.  A call keeps the token it was      *)
(* given until it is over, while time runs down on every copy alike.       *)
(* There is no mutex here, no retry and no request that fails.             *)
(***************************************************************************)
EXTENDS Integers

CONSTANTS
    Caller,     \* who makes the calls
    Margin,     \* how long before it expires a token is no longer used
    Lifetimes   \* expires_in of the tokens the IAM service grants

VARIABLES
    token,    \* whether it has a value, and its time left
    calling,  \* the callers whose call has its token
    held      \* time left of that token

vars == <<token, calling, held>>

Usable == token.set /\ token.left > Margin

Init ==
    /\ token = [set |-> FALSE, left |-> 0]
    /\ calling = {}
    /\ held = [p \in Caller |-> 0]

\* A call gets the token there is ...
Get(p) ==
    /\ p \notin calling
    /\ Usable
    /\ calling' = calling \cup {p}
    /\ held' = [held EXCEPT ![p] = token.left]
    /\ UNCHANGED token

\* ... or, that being missing or about to expire, a new one, which is all others'
\* from now on.
Renew(p, hasValue, lifetime) ==
    /\ p \notin calling
    /\ ~Usable
    /\ calling' = calling \cup {p}
    /\ token' = [set |-> hasValue, left |-> lifetime]
    /\ held' = [held EXCEPT ![p] = lifetime]

Over(p) ==
    /\ p \in calling
    /\ calling' = calling \ {p}
    /\ held' = [held EXCEPT ![p] = 0]
    /\ UNCHANGED token

Less(n) == IF n > 0 THEN n - 1 ELSE 0

Tick ==
    /\ token' = [token EXCEPT !.left = Less(@)]
    /\ held' = [p \in Caller |-> Less(held[p])]
    /\ UNCHANGED calling

Next ==
    \/ Tick
    \/ \E p \in Caller :
         \/ Get(p) \/ Over(p)
         \/ \E hasValue \in BOOLEAN, lifetime \in Lifetimes : Renew(p, hasValue, lifetime)

Spec == Init /\ [][Next]_vars
================================================================================
