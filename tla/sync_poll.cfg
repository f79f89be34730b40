CONSTANTS
    Writers = {w1, w2}
    Readers = {r1}
    MaxCount = 2
    MaxFaults = 2
SPECIFICATION PollFairSpec
INVARIANTS
    PollsConnected
    NoSleepThroughWrite
    NoRowSkipped
PROPERTIES
    RowsReachClients
