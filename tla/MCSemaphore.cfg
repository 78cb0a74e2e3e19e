CONSTANTS
    t1 = t1
    t2 = t2
    t3 = t3
    Tasks = {t1, t2, t3}
    InitCount = 1
    MaxUps = 1

SPECIFICATION FairSpec

INVARIANTS
    SemaphoreInv
    NoLostWakeup

PROPERTIES
    FifoService
    ImplementsCountingSemaphore
    EveryWaiterReturns
