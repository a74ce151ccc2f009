CONSTANTS
    VehicleID = {1, 2, 3}
    Code = {"odometer", "fuel"}
    NotCached = NotCached
    Request = {r1, r2}
    AllVehicles = AllVehicles
    Allowed = {1, 2}
    SignalCodes <- MCTwiceTheCode
    Connections <- MCConnections
    Replies = {0, 200}
SYMMETRY RequestSymmetry
SPECIFICATION Spec
CHECK_DEADLOCK FALSE
INVARIANTS
    TypeOK
    CacheCoherent
    GaugeNeverAhead
    BannerAtRest
    OnlyAllowedCached
PROPERTIES
    RefreshIsAtomic
