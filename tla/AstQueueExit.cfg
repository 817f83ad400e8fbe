CONSTANTS
    Astp = {p}
    Recursive = {p}
    Never = {}
    ErrorDelete = {}
    External = {}
    Sig = {s}
    MainOps = {}
    HandlerOps = {"exit"}
    GcInDispatch = FALSE
    MaxRaise = 2
    MaxOp = 0
SPECIFICATION Spec
INVARIANT NothingParked
CHECK_DEADLOCK FALSE
