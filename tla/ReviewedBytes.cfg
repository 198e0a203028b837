CONSTANTS
    f1 = f1
    t1 = t1
    t2 = t2
    base = base
    edit = edit
    late = late
    Files = {f1}
    Versions = {base, edit, late}
    Base = base
    Edited = edit
    Flows = {t1}
    Sessions <- OnlyCommands
    MaxChanges = 1
    Overlap = FALSE
SPECIFICATION Spec
PROPERTIES
    CommandOverwritesReviewed
