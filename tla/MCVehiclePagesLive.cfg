CONSTANTS
    VehicleID = {1, 2}
    Code = {"odometer"}
    NotCached = NotCached
    Request = {r1, r2}
    AllVehicles = AllVehicles
    Allowed = {2}
    SignalCodes <- MCOneCode
    Connections <- MCConnections
    Replies = {0, 200}
SPECIFICATION PagesSpec
PROPERTIES
    EveryBrowserAnswered
