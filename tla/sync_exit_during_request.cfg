SPECIFICATION FairSpec
CONSTANTS
    Threads = {t1, t2}
    MaxStack = 1
    LateRegistration = FALSE
    ExitDuringRequest = TRUE
PROPERTIES
    DepartedNotAwaited
