CONSTANTS
    i1 = i1
    NoOwner = NoOwner
    Owners = {i1}
    N = 2
    PageLimit = 1
    StopConditions = {}
    OutcomeStates = {"SUCCEEDED", "FAILED"}
    Faults = {}
SPECIFICATION Spec
INVARIANT
    VerifiedClaimIsWhole
CHECK_DEADLOCK FALSE
