SPECIFICATION SpecCanneal
CONSTANTS
    t1 = t1
    t2 = t2
    Threads = {t1, t2}
    ChipSize = 3
    MovesPerTemp = 1
    NumberTempSteps <- MCUntilConverged
    Neighbours <- MCNeighbours
    ATOMIC_NULL = ATOMIC_NULL
    NStages = 0
    NThreads = 1
    DEPTH = 2
    MaxImages = 0
    NoImage = NoImage
PROPERTY
    ConvergenceEndsAnnealing
CHECK_DEADLOCK FALSE
