CONSTANTS
    Dests <- Steady
    DequeueLimit = 2
    EduLimit = 2
    Receipts = {3, 4}
    ReceiptLimit = 0
    StartupNetburst = TRUE
    Keep = 1
    AllowPresence = TRUE
    Rejections = TRUE
    OtherTraffic = TRUE
    SlowHandlers = TRUE
    Cleanups = TRUE
    MaxFlushes = 1
    MaxRestarts = 0
SPECIFICATION Spec
INVARIANTS
    StatusTracksFlight
    AckCoversActive
    NoRowLost
    NoDuplicateDelivery
    PushFailureArmed
CHECK_DEADLOCK FALSE
