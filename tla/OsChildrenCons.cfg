CONSTANTS
    Child = {c1, c2, c3}
    Kinds <- AllKinds
    GcInFork = TRUE
    HandlerForks = TRUE
    NoChild = none
    AnyChild = any
SPECIFICATION Spec
INVARIANT ReturnsWaitable
PROPERTY NoFalseRefusal
