CONSTANTS
    c1 = c1
    c2 = c2
    c3 = c3
    one = one
    mach = mach
    mach2 = mach2
    plug = plug
    NULL = NULL
    Cpus = {c1, c2, c3}
    Callers = {one, mach, mach2, plug}
    Op <- MCOp
    Home <- MCHome
    Target <- MCTarget

SPECIFICATION FairSpec

INVARIANTS
    CompletionInv
    Rendezvous

PROPERTIES
    EveryCallReturns

CHECK_DEADLOCK FALSE
