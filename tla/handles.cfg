SPECIFICATION Spec
CONSTANTS
    MaxTasks = 2
    MaxWrites = 2
    Writable = {1}
    Limit = 2
    Threshold = 1
    MaxOpens = 2
    MaxSyncs = 1
    MaxFails = 1
INVARIANTS
    HandleOfOpen
    UsePublished
    DurableKept
    InProgressBounded
    DroppedEmpty
PROPERTIES
    EveryRequestAnswered
    UsesReleased
CHECK_DEADLOCK FALSE
