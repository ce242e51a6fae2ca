CONSTANTS
    Accumulators <- MCAccumulators
    Inputs <- MCInputs
    Pattern <- MCPattern
    MaxCount = 3
    MaxResets = 1
    MaxFaults = 1
SPECIFICATION Spec
INVARIANT StatisticsTrue
INVARIANT CorrelationsTrue
INVARIANT MatchTrue
CHECK_DEADLOCK FALSE
