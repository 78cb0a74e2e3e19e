CONSTANTS
    w1 = w1
    w2 = w2
    c1 = c1
    c2 = c2
    t1 = t1
    n1 = n1
    f1 = f1
    NULL = NULL
    Works = {w1, w2}
    Lazy = {w2}
    CPUs = {c1, c2}
    Callers = {t1, n1, f1}
    Nmi = {n1}
    Callbacks = {f1}
    Raising = {c1}
SPECIFICATION Spec

INVARIANTS
    PendingInv
    WorkWillRun

PROPERTIES
    SyncWaitsForPending

CHECK_DEADLOCK FALSE
