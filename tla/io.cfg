SPECIFICATION Spec
CONSTANTS
    BlockSize = 2
    Bytes = {1, 2}
    MaxLen = 5
    MaxWrite = 4
    MaxJobs = 2
    Threshold = 3
    MaxTorn = 0
INVARIANTS
    FlushedRight
    ReadMatches
CHECK_DEADLOCK FALSE
