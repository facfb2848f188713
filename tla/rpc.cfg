SPECIFICATION Spec
CONSTANTS
    any = any
    writer = writer
    Callers = {any, writer}
    Plans <- MCPlans
    Gives <- MCGives
    MaxErrors = 1
    MaxTries = 1
    MaxBreaks = 1
INVARIANTS
    PoolExact
    NothingRefused
    OkMeansRan
    RunsBounded
PROPERTIES
    ImplementsService
    EveryCallReturns
CHECK_DEADLOCK FALSE
