CONSTANTS
    Events = {"a1", "a2", "b1", "m1"}
    NoKey = NoKey
    KeyOf <- SlotOf
    Wants <- SomeStates
    Callers = {c1, c2}
    MaxId = 3
    MaxLayers = 1
    Sibling = 2
    EventSibling = 1000
SYMMETRY TaskSymmetry
SPECIFICATION Spec
CHECK_DEADLOCK FALSE
INVARIANTS
    LoadedStateIsSaved
    LayersBounded
    GotWhatItWanted
    NoDanglingIds
PROPERTIES
    InternedOnce
    ImplementsStore
    AppendsToCurrent
