CONSTANTS
    t1 = t1
    t2 = t2
    t3 = t3
    c1 = c1
    c2 = c2
    NoCPU = NoCPU
    Tasks = {t1, t2, t3}
    Owner = t1
    CPUs = {c1, c2}
    HalfRange = 8
    MaxRefs = 2

SPECIFICATION FairSpec

INVARIANTS
    CounterSafety
    ExactCount
    NoEarlyRelease

PROPERTIES
    NoTrygetAfterConfirm
    EventuallyReleased

CHECK_DEADLOCK FALSE
