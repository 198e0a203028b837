CONSTANTS
    r1 = r1
    r2 = r2
    r3 = r3
    p1 = p1
    p2 = p2
    h1 = h1
    h2 = h2
    Requests = {r1, r2}
    HoldIds = {h1, h2}
    PlanOf <- MCPlanOf
    Allowances = {1, 2}
    MaxPeriod = 1
SPECIFICATION Spec
SYMMETRY Symmetry
INVARIANTS
    CreditTypeOK
    WalletWithinLedger
    ReservedIsActive
    ChargeIsEarned
PROPERTIES
    SettledIsFinal
\* Every request is served once and the number of periods is bounded.
CHECK_DEADLOCK FALSE
