---------------------------- MODULE MCSmartcarClient ---------------------------
(***************************************************************************)
(* SmartcarClient on small instances.                                      *)
(***************************************************************************)
EXTENDS SmartcarClient

\* config.go:24, https://vehicle.api.smartcar.com/v3
MCVehicleBasePath == <<"v3">>
================================================================================
