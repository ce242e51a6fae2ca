SPECIFICATION FairSpec
CONSTANTS
    Clients = {c1, c2}
    Addrs = {a1, a2, a3, a4}
    NULL = NULL
    NTraces = 3
    NSets = 2
    NWays = 2
    AgeMod = 256
    RefMod = 256
    Cohesive = TRUE
    Faults = {}
    MaxGets = 2
PROPERTIES
    EveryGetReturns
    CloseCompletes
