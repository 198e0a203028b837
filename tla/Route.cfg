CONSTANTS
    r1 = r1
    r2 = r2
    p1 = p1
    p2 = p2
    Requests = {r1, r2}
    Processes = {p1, p2}
    Kinds = {"execute", "control", "control_resume"}
    N = 2
    PageLimit = 3
    Limit = 1
    Faults = TRUE
SPECIFICATION Spec
INVARIANTS
    TypeOK
    SlotsAccounted
    CompletedIsBacked
PROPERTIES
    DenyDrains
