CONSTANTS
    t1 = t1
    t2 = t2
    t3 = t3
    t4 = t4
    Tasks = {t1, t2, t3, t4}
    NoTask = NoTask
    ActiveRange = 16

SPECIFICATION FairSpec

INVARIANTS
    CountInv
    NoStrandedWaiter

PROPERTIES
    NoReaderBarging
    ImplementsRWLock
    EveryCallReturns

CHECK_DEADLOCK FALSE
