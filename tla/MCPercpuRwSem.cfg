CONSTANTS
    t1 = t1
    t2 = t2
    t3 = t3
    t4 = t4
    c1 = c1
    c2 = c2
    NoCPU = NoCPU
    Tasks = {t1, t2, t3, t4}
    CPUs = {c1, c2}
    Modulus = 5

SPECIFICATION FairSpec

INVARIANTS
    CounterInv

PROPERTIES
    ImplementsRWLock
    SomeWriterGetsLock
