----------------------------- MODULE MCAuthSessions ----------------------------
(***************************************************************************)
(* AuthSessions on small instances.                                        *)
(***************************************************************************)
EXTENDS AuthSessions, TLC

\* The requests are interchangeable, and so are the tokens and the passwords (used
\* by runs without liveness only).
Symmetry == Permutations(Request) \cup Permutations(Token) \cup Permutations(Password)
================================================================================
