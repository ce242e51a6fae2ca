SPECIFICATION FairSpec
CONSTANTS
    Getters = {g1, g2}
    NPrev = 4
    Valid = {0, 2, 3}
    Faults = {"get", "memory", "write"}
INVARIANTS
    NothingLost
    FileFaithful
PROPERTIES
    ImplementsCommitLog
    EveryGetReturns
CHECK_DEADLOCK FALSE
