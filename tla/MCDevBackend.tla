------------------------------ MODULE MCDevBackend -----------------------------
(***************************************************************************)
(* DevBackend on lists of up to four codes: of the preferred codes, both   *)
(* of one outcome and the first of the others, and two that are not.       *)
(***************************************************************************)
EXTENDS DevBackend

MCCode == {"diagnostics-dtclist", "diagnostics-brakefluid", "service-isinservice",
           "service-records", "odometer-traveleddistance", "diagnostics-mil"}
MCVehicle == {"dev-4runner", "dev-tacoma", "other"}
================================================================================
