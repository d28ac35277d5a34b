SPECIFICATION FairSpec
CONSTANTS
    Objects <- MCObjects
    Heaps <- MCHeaps
    Home <- MCHome
    FirstLine <- MCFirstLine
    LastLine <- MCLastLine
    Slot <- MCSlot
    SLOTS_IN_LINE = 32
    OBJ_ALIGN = 8
    NumBlocks = 3
    NumChunks = 3
    InitialStackSize = 1
INVARIANTS
    TypeOK
    NoChildForgotten
    LineMarksExact
    GrowthJustified
PROPERTIES
    WalkOwnsStack
    ImplementsTracing
    MarkingEnds
CHECK_DEADLOCK FALSE
