CONSTANTS
    r1 = r1
    r2 = r2
    r3 = r3
    p1 = p1
    p2 = p2
    h1 = h1
    h2 = h2
    Requests = {r1, r3}
    HoldIds = {h1, h2}
    PlanOf <- MCPlanOf
    Allowances = {1}
    MaxPeriod = 0
SPECIFICATION RaceSpec
INVARIANTS
    RequestsNeverOverspend
CHECK_DEADLOCK FALSE
