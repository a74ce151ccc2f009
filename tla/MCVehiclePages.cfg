CONSTANTS
    VehicleID = {1, 2}
    Code = {"odometer"}
    NotCached = NotCached
    Request = {r1, r2}
    AllVehicles = AllVehicles
    Allowed = {}
    SignalCodes <- MCOneCode
    Connections <- MCConnections
    Replies = {0, 200}
SYMMETRY RequestSymmetry
SPECIFICATION PagesSpec
INVARIANTS
    PagesTypeOK
    RefreshedIsShown
    OwnErrorShown
    ShownCoherent
