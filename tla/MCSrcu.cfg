CONSTANTS
    r1 = r1
    r2 = r2
    u1 = u1
    u2 = u2
    Work = Work
    Readers = {r1, r2}
    Updaters = {u1, u2}
    NCPU = 2
    Modulus = 4
    TryCounts = {2}
    CallbackBatch = 1
    MaxSections = 3
SPECIFICATION Spec
SYMMETRY SrcuSymmetry

INVARIANTS
    ReaderInv
    BatchInv
    GracePeriod
    BarrierOrder
    NoReadAfterCleanup

CHECK_DEADLOCK FALSE
