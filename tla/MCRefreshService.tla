---------------------------- MODULE MCRefreshService ---------------------------
(***************************************************************************)
(* RefreshService on small instances.                                      *)
(***************************************************************************)
EXTENDS RefreshService, TLC

\* Replies of ListConnections: none, both vehicles, one of them twice over.
MCConnections == {NoWork.pending, [v \in VehicleID |-> 1],
                  [v \in VehicleID |-> IF v = 1 THEN 2 ELSE 0]}

MCOneCode == <<"odometer">>
\* Nothing stops an operator from configuring a code twice.
MCTwiceTheCode == <<"odometer", "odometer">>

\* The requests are interchangeable (used by runs without liveness only).
RequestSymmetry == Permutations(Request)
================================================================================
