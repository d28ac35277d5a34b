SPECIFICATION Spec
CONSTANTS
    Threads = {t1, t2, t3}
    MaxStack = 1
    LateRegistration = FALSE
    ExitDuringRequest = TRUE
SYMMETRY Symmetry
INVARIANTS
    TypeOK
    WorldStopped
    SnapshotsCurrent
    NoStaleCursors
    ReinitMeetsNoNull
    ReinitMatchesCount
PROPERTIES
    ImplementsStopTheWorld
