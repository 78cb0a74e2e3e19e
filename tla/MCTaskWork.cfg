CONSTANTS
    w1 = w1
    w2 = w2
    w3 = w3
    f1 = f1
    f2 = f2
    c1 = c1
    c2 = c2
    NULL = NULL
    Exited = Exited
    Head0 = Head0
    Works = {w1, w2, w3}
    Funcs = {f1, f2}
    func <- MCFunc
    Notified = {w1, w2}
    Callers = {c1, c2}

SPECIFICATION FairSpec

INVARIANTS
    ListInv
    CancelOnStableList

PROPERTIES
    EveryWorkHandled

CHECK_DEADLOCK FALSE
