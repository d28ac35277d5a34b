SPECIFICATION Spec
CONSTANTS
    Threads = {t1, t2, t3}
    MaxStack = 0
    LateRegistration = TRUE
    ExitDuringRequest = TRUE
SYMMETRY Symmetry
INVARIANTS
    SingleDriver
    LoserWaits
    PollSleepJustified
CHECK_DEADLOCK FALSE
