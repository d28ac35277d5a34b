SPECIFICATION Spec
CONSTANTS
    Threads = {t1, t2}
    InitialBlocks = 4
    MaxBlocks = 6
    GROWTH_RATE = 30
SYMMETRY Symmetry
INVARIANTS
    EveryThreadPrimed
CHECK_DEADLOCK FALSE
