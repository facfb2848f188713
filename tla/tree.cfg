SPECIFICATION Spec
CONSTANTS
    Clients = {c1, c2}
    Names = {a, b}
    Uses = {u}
    NoIno = NoIno
    MaxIno = 10
    MaxCrashes = 1
    Fresh = FALSE
SYMMETRY MCSymmetry
INVARIANTS
    LinkSymmetry
    DescribedIsKept
PROPERTY
    DeletedWasUnlinked
