SPECIFICATION FairSpec
CONSTANTS
    n1 = n1
    n2 = n2
    n3 = n3
    t1 = t1
    t2 = t2
    t3 = t3
    TG_NULLID = TG_NULLID
    Nodes = {n1, n2, n3}
    source = n1
    Threads = {t1, t2, t3}
    Graphs <- MCGraphs
INVARIANTS
    AnswerIsRight
    NoWorkAbandoned
    NoNodeTwice
PROPERTIES
    Termination
