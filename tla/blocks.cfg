SPECIFICATION Spec
CONSTANTS
    Clients = {w1, w2}
    Addrs = {1, 3}
    SnapAddrs = {3}
    SnapSource <- MCSnapSource
    Hashes = {h1, h2}
    Hole = Hole
    Skip = Skip
    MaxAborts = 1
    MaxRepeats = 0
SYMMETRY ClientSymmetry
INVARIANTS
    TypeOK
    RefCountCovers
PROPERTY
    ReleaseOnlyUnreferenced
