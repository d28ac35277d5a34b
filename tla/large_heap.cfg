SPECIFICATION Spec
CONSTANTS
    Threads = {t1, t2}
    Sizes <- MCSizes
    InitialSize = 2048
    MemoryLimit = 10240
    BITS_PER_BITMAP_WORD = 8
    MaxCollections = 2
    NULL = NULL
SYMMETRY Symmetry
CONSTRAINT Unoverlapped
INVARIANTS
    TypeOK
    ChunksTile
    ListsOfferFree
    InnerPointersResolve
    OnlyRobbedFail
PROPERTIES
    SweepOffers
    ImplementsObjectStore
CHECK_DEADLOCK FALSE
