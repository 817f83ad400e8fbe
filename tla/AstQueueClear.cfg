CONSTANTS
    Astp = {p}
    Recursive = {p}
    Never = {}
    ErrorDelete = {}
    External = {}
    Sig = {s}
    MainOps = {"clear", "disable", "enable"}
    HandlerOps = {}
    GcInDispatch = FALSE
    MaxRaise = 3
    MaxOp = 3
SPECIFICATION Spec
INVARIANT ClearedStayCleared
CHECK_DEADLOCK FALSE
