SPECIFICATION ApiSpec
CONSTANTS
    None = None
    r1 = r1
    r2 = r2
    r3 = r3
    Templates <- MCTemplates
    Quantities <- MCQuantities
    Canon <- MCCanon
    IPs = {}
    MaxUid = 3
    MaxEdits = 3
    Taken = {}
    PodFaults = {}
    Requests = {r1}
    Ops <- AllOps
    MaxApiFaults = 0
PROPERTIES DisconnectKeepsDelete
\* When every request has been answered there may be nothing left to do.
CHECK_DEADLOCK FALSE
