CONSTANTS
    r1 = r1
    r2 = r2
    u1 = u1
    Work = Work
    Readers = {r1, r2}
    Updaters = {u1}
    NCPU = 1
    Modulus = 4
    TryCounts = {2}
    CallbackBatch = 1
    MaxSections = 0
SPECIFICATION FairSpec
PROPERTIES
    EveryGracePeriodEnds
CHECK_DEADLOCK FALSE
