CONSTANTS
    Fd = {f, g}
    NoFd = none
    MaxArrivals = 3
    MaxSwitches = 4
SPECIFICATION FairInputSpec
INVARIANTS UncheckedAnnounced InputAnnounced
PROPERTIES CheckedAgain Served
CHECK_DEADLOCK FALSE
