SPECIFICATION PlatformSpec
CONSTANTS
    None = None
    o1 = o1
    ip1 = ip1
    r1 = r1
    r2 = r2
    Templates <- MCTemplates
    Quantities <- MCQuantities
    Canon <- MCCanon
    IPs = {ip1}
    MaxUid = 1
    MaxEdits = 1
    Taken = {}
    PodFaults = {}
    Operators = {o1}
    MaxFaults = 0
    Requests = {r1, r2}
    Ops = {"create", "restart"}
    MaxApiFaults = 0
PROPERTIES ReadyEventIsTrue
\* When every request has been answered and the agent is gone, all is quiet.
CHECK_DEADLOCK FALSE
