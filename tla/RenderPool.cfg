SPECIFICATION FairSpec
CONSTANTS
    NThreads = 3
    NTraces = 4
    Faults = {"setup", "create", "get"}
INVARIANTS
    TokenAccounting
    RendersEachOnce
PROPERTIES
    ImplementsWorkerPool
    RenderReturns
CHECK_DEADLOCK FALSE
