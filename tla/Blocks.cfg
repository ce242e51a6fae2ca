CONSTANTS
    Getters = {g1, g2}
    Source <- MCSource
    Consumers <- MCConsumers
    Num = 2
    Asked = 4
    ListLength = 2
    MaxFaults = 1
SPECIFICATION Spec
INVARIANT EveryTraceOnce
INVARIANT PromisesKept
INVARIANT BestFirst
INVARIANT EndMeansLastBlock
PROPERTY EveryGetReturns
CHECK_DEADLOCK FALSE
