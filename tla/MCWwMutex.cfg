CONSTANTS
    t1 = t1
    t2 = t2
    t3 = t3
    t4 = t4
    l1 = l1
    l2 = l2
    NULL = NULL
    Tasks = {t1, t2, t3}
    Locks = {l1, l2}
    Want <- WantAll
    Modulus = 10
    FirstStamp = 8
    MaxContexts = 4
SPECIFICATION Spec
SYMMETRY LockSymmetry

INVARIANTS
    OwnerInv
    NoStaleContext
    NoWaitCycle

CHECK_DEADLOCK FALSE
