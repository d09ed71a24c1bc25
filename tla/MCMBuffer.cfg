SPECIFICATION Spec
CONSTANTS
    t1 = t1
    t2 = t2
    m1 = m1
    m2 = m2
    m3 = m3
    b1 = b1
    b2 = b2
    here = here
    there = there
    None = None
    Threads = {t1, t2}
    Buffers = {m1, m2, m3}
    Blocks = {b1, b2}
    Places = {here, there}
    MaxSize = 3
SYMMETRY MCSymmetry
CHECK_DEADLOCK FALSE
INVARIANTS
    CounterIsExact
    NoDanglingPiece
    FreedOnce
    NoLeak
    PiecesAreDisjoint
