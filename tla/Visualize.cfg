CONSTANTS
    Getters = {g1, g2}
    Layouts <- MCLayouts
    NTraces = 4
    MaxGets = 6
    MaxFaults = 1
SPECIFICATION Spec
INVARIANT DrawnIsWhole
INVARIANT OnlyDoublingBreaks
PROPERTY FullIsDrawn
CHECK_DEADLOCK FALSE
