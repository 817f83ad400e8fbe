CONSTANTS
    Timer = {real, virt}
    Entry = {e1, e2}
    NoEntry = none
    Interval = {0, 1}
    Forks = TRUE
    MaxClock = 2
SPECIFICATION Spec
INVARIANTS EntriesSound NeverEarly
CHECK_DEADLOCK FALSE
