SPECIFICATION FairSpec
CONSTANTS
    Size = 3
    NumVertices = 6
    CoalescingSize = 2
    column <- MCColumn
    Root = 0
    NotVisited = NotVisited
INVARIANTS
    LevelsDoNotOverlap
PROPERTIES
    ImplementsLevelBfs
    Termination
