CONSTANTS
    Astp = {p, q}
    N = 2
    Repeat = {TRUE}
    Hasty = TRUE
    None = none
    Cancelled = cancelled
    MaxRing = 2
    MaxDepth = 2
SPECIFICATION TimerSpec
INVARIANTS ExpiryOwnsSlot
CHECK_DEADLOCK FALSE
