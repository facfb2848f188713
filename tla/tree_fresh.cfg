SPECIFICATION Spec
CONSTANTS
    Clients = {c1, c2}
    Names = {a}
    Uses = {}
    NoIno = NoIno
    MaxIno = 11
    MaxCrashes = 1
    Fresh = TRUE
SYMMETRY MCSymmetry
INVARIANTS
    InodeNumbersUnique
PROPERTY
    RemovedWasEmpty
