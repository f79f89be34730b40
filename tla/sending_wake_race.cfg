CONSTANTS
    Dests <- OneServer
    DequeueLimit = 2
    EduLimit = 2
    Receipts = {}
    ReceiptLimit = 1
    StartupNetburst = TRUE
    Keep = 1
    AllowPresence = FALSE
    Rejections = FALSE
    OtherTraffic = TRUE
    SlowHandlers = FALSE
    Cleanups = FALSE
    MaxFlushes = 0
    MaxRestarts = 0
SPECIFICATION Spec
PROPERTY
    FailureArmsWake
CHECK_DEADLOCK FALSE
