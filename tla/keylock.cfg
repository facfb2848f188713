SPECIFICATION FairLockSpec
CONSTANTS
    N = 4
    Ids <- MCIds
    MaxFailures = 2
INVARIANTS
    MutualExclusion
    DoorClosed
PROPERTY
    EnterSucceeds
CHECK_DEADLOCK FALSE
