CONSTANTS
    f1 = f1
    f2 = f2
    t1 = t1
    t2 = t2
    base = base
    edit = edit
    Files = {f1, f2}
    Versions = {base, edit}
    Base = base
    Edited = edit
    Flows = {t1, t2}
    Sessions <- InboxOrCommands
    MaxChanges = 2
    Overlap = FALSE
SPECIFICATION Spec
SYMMETRY Symmetry
INVARIANTS
    TypeOK
    BusyAccounted
PROPERTIES
    InboxOverwritesReviewed
    RestoresReviewedBaseline
