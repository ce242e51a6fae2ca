SPECIFICATION FairSpec
CONSTANTS
    Getters = {g1}
    NPrev = 2
    Valid = {0, 1}
    Faults = {}
PROPERTIES
    CloseReturns
CHECK_DEADLOCK FALSE
