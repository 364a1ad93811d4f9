SPECIFICATION FairSpec
CONSTANTS
    None = None
    o1 = o1
    o2 = o2
    ip1 = ip1
    ip2 = ip2
    Templates <- MCTemplates
    Quantities <- MCQuantities
    Canon <- MCCanon
    IPs = {ip1}
    Operators = {o1}
    MaxUid = 2
    MaxEdits = 0
    MaxFaults = 1
    Taken = {}
    PodFaults = {"crash"}
PROPERTIES Converges StatusSettles
\* Once the agent is deleted and its name used up, nothing is left to do.
CHECK_DEADLOCK FALSE
