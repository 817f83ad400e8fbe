CONSTANTS
    Astp = {p, q}
    Recursive = {p, q}
    Never = {}
    ErrorDelete = {}
    External = {}
    Sig = {}
    MainOps = {}
    HandlerOps = {}
    GcInDispatch = TRUE
    MaxRaise = 4
    MaxOp = 0
SPECIFICATION Spec
INVARIANT NothingParked
CHECK_DEADLOCK FALSE
