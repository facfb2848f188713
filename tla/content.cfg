SPECIFICATION Spec
CONSTANTS
    Writers = {w1, w2}
    Hashers = {h1, h2}
    NumBlocks = 2
    BlockSize = 2
    HashLen = 1
    Allocated = 0
    MaxAllocs = 1
SYMMETRY MCSymmetry
INVARIANTS
    SizeCovers
    ChangeIdTells
CHECK_DEADLOCK FALSE
