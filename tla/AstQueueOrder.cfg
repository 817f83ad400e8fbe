CONSTANTS
    Astp = {p}
    Recursive = {p}
    Never = {}
    ErrorDelete = {}
    External = {}
    Sig = {}
    MainOps = {"asts"}
    HandlerOps = {}
    GcInDispatch = FALSE
    MaxRaise = 3
    MaxOp = 2
SPECIFICATION Spec
PROPERTY AlwaysInOrder
CHECK_DEADLOCK FALSE
