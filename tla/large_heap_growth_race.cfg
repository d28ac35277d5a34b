SPECIFICATION Spec
CONSTANTS
    Threads = {t1, t2}
    Sizes <- MCSizesOneUnit
    InitialSize = 2048
    MemoryLimit = 10240
    BITS_PER_BITMAP_WORD = 8
    MaxCollections = 1
    NULL = NULL
SYMMETRY Symmetry
PROPERTIES
    FreshMemory
CHECK_DEADLOCK FALSE
