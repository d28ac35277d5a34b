SPECIFICATION FairSpec
CONSTANTS
    Threads = {t1, t2, t3}
    MaxStack = 0
    LateRegistration = FALSE
    ExitDuringRequest = FALSE
INVARIANTS
    BarrierSleepJustified
PROPERTIES
    CollectionCompletes
    ParkedReleased
