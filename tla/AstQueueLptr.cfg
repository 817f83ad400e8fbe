CONSTANTS
    Astp = {p, n}
    Recursive = {p}
    Never = {n}
    ErrorDelete = {p}
    External = {}
    Sig = {s, t}
    MainOps = {"raise", "disable"}
    HandlerOps = {"raise", "enable", "mishap"}
    GcInDispatch = FALSE
    MaxRaise = 4
    MaxOp = 2
SPECIFICATION Spec
INVARIANTS LptrOnQueue NoReentry
CHECK_DEADLOCK FALSE
