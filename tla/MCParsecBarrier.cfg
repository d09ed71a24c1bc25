SPECIFICATION FairSpec
CONSTANTS
    t1 = t1
    t2 = t2
    t3 = t3
    t4 = t4
    Threads = {t1, t2, t3, t4}
    Rounds = 3
    ENABLE_SPIN_BARRIER = TRUE
INVARIANTS
    OneSerialThread
    NoLostWakeup
    NoEarlyReturn
PROPERTIES
    ImplementsRendezvous
    Termination
