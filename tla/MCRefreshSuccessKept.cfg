CONSTANTS
    VehicleID = {1}
    Code = {"odometer"}
    NotCached = NotCached
    Request = {r1, r2}
    AllVehicles = AllVehicles
    Allowed = {}
    SignalCodes <- MCOneCode
    Connections <- MCConnections
    Replies = {0, 200}
SPECIFICATION Spec
CHECK_DEADLOCK FALSE
PROPERTIES
    LatestSuccessKept
