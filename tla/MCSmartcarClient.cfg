CONSTANTS
    Caller = {c1, c2}
    NoCaller = NoCaller
    MaxRetries = 2
    Margin = 1
    Lifetimes = {1, 3}
    Delays = {2}
    MaxPages = 1
    Outcomes = {"401", "503", "timeout"}
    VehicleBasePath <- MCVehicleBasePath
SPECIFICATION Spec
INVARIANTS
    ClientTypeOK
    LockHeldWhileRequesting
    NoNeedlessTokenRequest
PROPERTIES
    SharedTokenSource
    StaleTokenOnlyRetried
    EveryCallReturns
