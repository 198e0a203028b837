CONSTANTS
    i1 = i1
    i2 = i2
    NoOwner = NoOwner
    Owners = {i1, i2}
    N = 2
    PageLimit = 500
    StopConditions = {"ON_FIRST_FAILURE"}
    OutcomeStates = {"SUCCEEDED", "FAILED", "UNKNOWN_EXTERNAL_OUTCOME"}
    Faults = {"crash", "raise"}
SPECIFICATION Spec
SYMMETRY Symmetry
INVARIANTS
    TypeOK
    TenureExclusive
    
    StaleWorkBounded
    
    RepeatsExplained
PROPERTIES
    FenceNeverRegresses
\* Every instance serves one call.
CHECK_DEADLOCK FALSE
