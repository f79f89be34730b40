CONSTANTS
    Writers = {w1, w2, w3}
    Readers = {r1}
    MaxCount = 3
SPECIFICATION FairSpec
INVARIANTS
    TypeOK
    NoMissedRow
    ReleaseCatchesUp
    DurableRowsCounted
PROPERTIES
    FrontierAdvances
    WaitersReturn
    ImplementsLog
