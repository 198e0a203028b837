CONSTANTS
    r1 = r1
    r2 = r2
    p1 = p1
    p2 = p2
    Requests = {r1, r2}
    Processes = {p1, p2}
    Kinds = {"execute", "control"}
    N = 1
    PageLimit = 500
    Limit = 2
    Faults = FALSE
SPECIFICATION Spec
INVARIANTS
    SubmissionsCollapse
