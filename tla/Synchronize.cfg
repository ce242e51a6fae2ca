SPECIFICATION FairSpec
CONSTANTS
    Threads = {t1, t2, t3}
    NTraces = 6
    MaxDistance = 1
    RequestBound = 4
    Faults = {"alloc", "passthrough"}
INVARIANTS
    CountsExact
    WakeupsPaired
PROPERTIES
    StallEndsBeforeTail
CHECK_DEADLOCK FALSE
