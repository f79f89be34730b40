CONSTANTS
    Remote = {"x", "y"}
    Root = "r"
    PrevOf <- Chain
    Built <- OneBuilder
    Handlers = {h}
    Signed <- OneJoin
    MaxPrev = 1
    Cap = 1
    Emergency = 2
    Batch = 1
    None = None
SPECIFICATION Spec
CHECK_DEADLOCK FALSE
INVARIANT AppendedOnce
