SPECIFICATION SpecRepeat
CONSTANTS
    Clients = {w1, w2}
    Addrs = {1, 2}
    SnapAddrs = {}
    SnapSource <- MCSnapSource
    Hashes = {h1, h2}
    Hole = Hole
    Skip = Skip
    MaxAborts = 0
    MaxRepeats = 1
INVARIANT DecrementPossible
