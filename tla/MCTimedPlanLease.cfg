CONSTANTS
    o1 = o1
    o2 = o2
    o3 = o3
    NoOwner = NoOwner
    Owners = {o1, o2, o3}
    TTL = 2
    MaxTime = 7
SPECIFICATION Spec
SYMMETRY Symmetry
INVARIANTS
    TimedTypeOK
    ToldLeaseHonoured
PROPERTY
    StoreImplementsLease
\* Every call ends and the clock is bounded.
CHECK_DEADLOCK FALSE
