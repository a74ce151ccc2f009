CONSTANTS
    Code <- MCCode
    Vehicle <- MCVehicle
    MaxCodes = 4
SPECIFICATION Spec
INVARIANTS
    EveryFailureShown
