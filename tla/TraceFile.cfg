CONSTANTS
    Readers = {r1, r2}
    Writer = w
    N = 3
    Fields <- MCFields
    Packed <- MCPacked
    MaxFaults = 1
SPECIFICATION Spec
INVARIANT ReadsReturnTheTrace
INVARIANT HeaderFaithful
PROPERTY EveryAccessReturns
CHECK_DEADLOCK FALSE
