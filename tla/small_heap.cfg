SPECIFICATION Spec
CONSTANTS
    MaxThreads = 2
    InitialBlocks = 2
    NumBlocks = 3
    GROWTH_RATE = 30
    NULL = NULL
    LINE_COUNT = 3
    SLOTS_IN_LINE = 4
    WalkSlots = 3
    Sizes <- MCSizes
    MaxCollections = 2
    MaxSurvivors = 1
CONSTRAINT NonePassedOver
INVARIANTS
    TypeOK
    WalkMeetsLive
    NoMarkInReach
    OfferedIsDead
    FailsOnlyWhenShort
    NoNullBump
PROPERTIES
    ImplementsObjectStore
CHECK_DEADLOCK FALSE
