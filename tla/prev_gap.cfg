CONSTANTS
    Tasks = {o1, o2}
    Prefixes = {e1, e2}
SPECIFICATION GapFairSpec
INVARIANTS
    SendersKept
    NoGapSlept
PROPERTIES
    GapCloses
