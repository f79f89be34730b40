CONSTANTS
    Remote = {"x", "y"}
    Root = "r"
    PrevOf <- Chain
    Built <- OneBuilder
    Handlers = {h, g}
    Signed <- OneJoin
    MaxPrev = 1
    Cap = 1
    Emergency = 2
    Batch = 1
    None = None
SYMMETRY HandlerSymmetry
SPECIFICATION Spec
CHECK_DEADLOCK FALSE
INVARIANTS
    SerializedOnce
    NumberedOnce
    BandNonEmpty
    LeavesKept
    NoDeadlock
