CONSTANTS
    Scenes <- MCScenes
    References <- MCReferences
    Num = 32
    Expecting = 5
    AvgLen = 5
    MaxDev = 2
    PatternSize = 6
    Confidence = 2
    Offset = 2
    MaxFaults = 1
SPECIFICATION Spec
INVARIANT PatternDataTrue
INVARIANT TimingDataTrue
INVARIANT EvenRunsCounted
CHECK_DEADLOCK FALSE
