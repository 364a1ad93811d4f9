SPECIFICATION ClientSpec
CONSTANTS
    None = None
    r1 = r1
    r2 = r2
    Templates <- MCTemplates
    Quantities <- MCQuantities
    Canon <- MCCanon
    IPs = {}
    MaxUid = 3
    MaxEdits = 3
    Taken = {}
    PodFaults = {}
    Requests = {r1, r2}
    Ops <- AllOps
    MaxApiFaults = 1
    Invocations = {r1}
    Gateway = TRUE
INVARIANTS ClientTypeOK OneCreatorEach
PROPERTIES EveryRequestEnds EveryCommandExits AnswersMean
\* When every request has been answered there may be nothing left to do.
CHECK_DEADLOCK FALSE
