SPECIFICATION FairSpec
CONSTANTS
    None = None
    o1 = o1
    o2 = o2
    ip1 = ip1
    ip2 = ip2
    Templates <- MCOne
    Quantities <- MCQuantities
    Canon <- MCCanon
    IPs = {ip1}
    Operators = {o1, o2}
    MaxUid = 1
    MaxEdits = 1
    MaxFaults = 0
    Taken = {}
    PodFaults = {}
PROPERTIES Converges
\* Once the agent is deleted and its name used up, nothing is left to do.
CHECK_DEADLOCK FALSE
