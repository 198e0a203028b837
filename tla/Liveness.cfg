CONSTANTS
    i1 = i1
    i2 = i2
    NoOwner = NoOwner
    Owners = {i1, i2}
    N = 2
    PageLimit = 500
    StopConditions = {"ON_BLOCKING_DRIFT", "ON_BLOCKING_CONFLICT"}
    OutcomeStates = {"SUCCEEDED", "BLOCKED_BY_DRIFT"}
    Faults = {"crash"}
SPECIFICATION FairSpec
PROPERTIES
    EveryCallEnds
    AbandonedLeaseFreed
\* Every instance serves one call.
CHECK_DEADLOCK FALSE
