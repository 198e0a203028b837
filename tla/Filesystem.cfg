CONSTANTS
    a1 = a1
    a2 = a2
    e1 = e1
    e2 = e2
    Attempts = {a1, a2}
    Edits = {e1, e2}
    Sizable = {"before", "after"}
    Exclusive = TRUE
SPECIFICATION Spec
SYMMETRY Symmetry
INVARIANTS
    TypeOK
    NoPartialTarget
    VerifiedStays
    
PROPERTIES
    EarlierEditsSurvive
\* Every attempt is made once and every edit happens once.
CHECK_DEADLOCK FALSE
