SPECIFICATION Spec
CONSTANTS
    Threads = {t1, t2}
    InitialBlocks = 3
    MaxBlocks = 5
    GROWTH_RATE = 60
SYMMETRY Symmetry
INVARIANTS
    TypeOK
    ListsEncodeQueues
    NoBlockShared
    FlagsMatchLists
    SweepAccountsForAll
    PromiseKept
\* The process may exit or crash.
CHECK_DEADLOCK FALSE
