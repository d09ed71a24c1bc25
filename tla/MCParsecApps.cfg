SPECIFICATION SpecApps
CONSTANTS
    t1 = t1
    t2 = t2
    Threads = {t1, t2}
    ChipSize = 3
    MovesPerTemp = 2
    NumberTempSteps = 2
    Neighbours <- MCNeighbours
    ATOMIC_NULL = ATOMIC_NULL
    NStages = 2
    NThreads = 2
    DEPTH = 3
    MaxImages = 3
    NoImage = NoImage
INVARIANTS
    NoLocationLost
    EveryImageWritten
PROPERTIES
    ImplementsPlacement
    Termination
    QueuesAreChannels
    EveryPoolEnds
