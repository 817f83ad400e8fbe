CONSTANTS
    Timer = {real, virt}
    Entry = {e1, e2}
    NoEntry = none
    Interval = {1, 2}
    Forks = FALSE
    MaxClock = 3
SPECIFICATION Spec
INVARIANTS NoEntryLost WaitingIsArmed
CHECK_DEADLOCK FALSE
