CONSTANTS
    Child = {c1, c2}
    Kinds <- Plain
    GcInFork = FALSE
    HandlerForks = FALSE
    NoChild = none
    AnyChild = any
SPECIFICATION FairSpec
PROPERTY EveryChildReaped
