CONSTANTS
    Astp = {p}
    Recursive = {p}
    Never = {}
    ErrorDelete = {p}
    External = {}
    Sig = {s, t}
    MainOps = {"raise", "clear", "asts", "mishap"}
    HandlerOps = {"raise", "exit", "setpop"}
    GcInDispatch = TRUE
    MaxRaise = 4
    MaxOp = 1
SPECIFICATION Spec
INVARIANTS NoReentry MaskedWhileHandled
CHECK_DEADLOCK FALSE
