CONSTANTS
    Dests <- Waking
    DequeueLimit = 1
    EduLimit = 1
    Receipts = {1, 2}
    ReceiptLimit = 0
    StartupNetburst = TRUE
    Keep = 1
    AllowPresence = FALSE
    Rejections = FALSE
    OtherTraffic = FALSE
    SlowHandlers = FALSE
    Cleanups = FALSE
    MaxFlushes = 1
    MaxRestarts = 1
SPECIFICATION FairSpec
PROPERTIES
    RowsDrain
    BadgesSurviveRestart
    ImplementsQueue
CHECK_DEADLOCK FALSE
