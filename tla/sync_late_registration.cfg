SPECIFICATION Spec
CONSTANTS
    Threads = {t1, t2}
    MaxStack = 1
    LateRegistration = TRUE
    ExitDuringRequest = FALSE
INVARIANTS
    WorldStopped
CHECK_DEADLOCK FALSE
