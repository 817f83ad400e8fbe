CONSTANTS
    Astp = {p, q, r}
    N = 2
    Repeat = {TRUE, FALSE}
    Hasty = FALSE
    None = none
    Cancelled = cancelled
    MaxRing = 2
    MaxDepth = 3
SPECIFICATION TimerSpec
INVARIANTS SlotsSound OwnersSound
CHECK_DEADLOCK FALSE
