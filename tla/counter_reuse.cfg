CONSTANTS
    Writers = {w1, w2, w3}
    Readers = {r1}
    MaxCount = 3
SPECIFICATION Spec
PROPERTIES
    PendingNotReused
