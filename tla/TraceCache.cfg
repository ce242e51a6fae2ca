SPECIFICATION Spec
CONSTANTS
    Clients = {c1, c2, c3}
    Addrs = {a1, a2, a3, a4}
    NULL = NULL
    NTraces = 3
    NSets = 1
    NWays = 2
    AgeMod = 256
    RefMod = 256
    Cohesive = TRUE
    Faults = {"init", "calloc", "get"}
    MaxGets = 2
SYMMETRY Symmetry
INVARIANTS
    NoDangling
    RefcountExact
    OneTracePerIndex
    NoLeak
    EnoughWays
PROPERTIES
    ImplementsSharedCache
CHECK_DEADLOCK FALSE
