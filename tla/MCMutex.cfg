CONSTANTS
    t1 = t1
    t2 = t2
    t3 = t3
    NULL = NULL
    IntMax = 15
    MaxDebt = 2
    Tasks = {t1, t2, t3}

SPECIFICATION FairSpec

INVARIANTS
    OwnerInv
    NoStrandedWaiter

PROPERTIES
    ImplementsLock
    EveryCallReturns

CHECK_DEADLOCK FALSE
