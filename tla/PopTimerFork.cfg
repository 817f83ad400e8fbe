CONSTANTS
    Timer = {real}
    Entry = {e1, e2}
    NoEntry = none
    Interval = {1}
    Forks = TRUE
    MaxClock = 2
SPECIFICATION Spec
INVARIANT NoEntryLost
CHECK_DEADLOCK FALSE
