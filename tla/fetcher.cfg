CONSTANTS
    Callers = {c1, c2, c3}
    Keys = {k1, k2}
    Capacity = 1
    MaxCandidates = 2
    Growth <- HedgingRamp
    MaxWidth = 2
    MaxRounds = 2
    None = None
SPECIFICATION FairSpec
INVARIANTS
    SingleFlight
    SubscribersHoldToken
    DeferredOnlyWhenFull
    NoStaleCancel
PROPERTIES
    CallsReturn
    ImplementsCalls
CHECK_DEADLOCK FALSE
