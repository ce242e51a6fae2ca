SPECIFICATION FairSpec
CONSTANTS
    Producers = {p1, p2}
    Getters = {g1, g2}
    NTraces = 4
    NWays = 2
    AgeMod = 256
    BufTraces = 2
    Faults = {"alloc", "copy"}
INVARIANTS
    NoPushMissed
    ReadersKeepTrace
PROPERTIES
    WaitEndsWithPush
    ImplementsResultBoard
CHECK_DEADLOCK FALSE
