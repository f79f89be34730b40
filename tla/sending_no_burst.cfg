CONSTANTS
    Dests <- OneServer
    DequeueLimit = 2
    EduLimit = 2
    Receipts = {}
    ReceiptLimit = 1
    StartupNetburst = FALSE
    Keep = 2
    AllowPresence = FALSE
    Rejections = FALSE
    OtherTraffic = FALSE
    SlowHandlers = TRUE
    Cleanups = FALSE
    MaxFlushes = 0
    MaxRestarts = 1
SPECIFICATION Spec
INVARIANT
    IncompleteKept
CHECK_DEADLOCK FALSE
