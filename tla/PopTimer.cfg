CONSTANTS
    Timer = {real}
    Entry = {e1, e2, e3}
    NoEntry = none
    Interval = {0, 1, 2}
    Forks = FALSE
    MaxClock = 2
SPECIFICATION FairSpec
INVARIANTS QueueSound
PROPERTY Expires
CHECK_DEADLOCK FALSE
