----------------------------- MODULE MCVehiclePages ----------------------------
(***************************************************************************)
(* VehiclePages on small instances.                                        *)
(***************************************************************************)
EXTENDS VehiclePages, TLC

MCOneCode == <<"odometer">>

\* Both vehicles are connected, or one of them.
MCConnections == {[v \in VehicleID |-> 1], [v \in VehicleID |-> IF v = 1 THEN 1 ELSE 0]}

\* The requests are interchangeable (used by runs without liveness only).
RequestSymmetry == Permutations(Request)
================================================================================
