CONSTANTS
    Astp = {p}
    Recursive = {}
    Never = {}
    ErrorDelete = {}
    External = {p}
    Sig = {}
    MainOps = {"callback"}
    HandlerOps = {}
    GcInDispatch = FALSE
    MaxRaise = 2
    MaxOp = 1
SPECIFICATION Spec
PROPERTY AlwaysInOrder
CHECK_DEADLOCK FALSE
