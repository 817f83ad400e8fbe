CONSTANTS
    Child = {c1, c2}
    Kinds <- AllKinds
    GcInFork = TRUE
    HandlerForks = FALSE
    NoChild = none
    AnyChild = any
SPECIFICATION FairSpec
INVARIANTS StatusKept ChildrenListed
PROPERTIES NoFalseRefusal WaitEnds
