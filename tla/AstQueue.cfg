CONSTANTS
    Astp = {p, n}
    Recursive = {p}
    Never = {n}
    ErrorDelete = {p}
    External = {p}
    Sig = {s}
    MainOps = {"enable", "disable", "callback"}
    HandlerOps = {"raise", "disable", "setpop"}
    GcInDispatch = FALSE
    MaxRaise = 4
    MaxOp = 2
SPECIFICATION FairSpec
INVARIANTS DispatchSound NothingParked
PROPERTIES InOrder Settles
CHECK_DEADLOCK FALSE
