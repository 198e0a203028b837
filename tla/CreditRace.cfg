CONSTANTS
    r1 = r1
    r2 = r2
    r3 = r3
    p1 = p1
    p2 = p2
    h1 = h1
    h2 = h2
    Requests = {r1, r2}
    HoldIds = {h1, h2}
    PlanOf <- MCPlanOf
    Allowances = {2}
    MaxPeriod = 0
SPECIFICATION RaceSpec
SYMMETRY Symmetry
INVARIANTS
    ChargedOnce
\* Every request is served once.
CHECK_DEADLOCK FALSE
