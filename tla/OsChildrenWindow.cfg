CONSTANTS
    Child = {c1, c2}
    Kinds <- AstOnly
    GcInFork = TRUE
    HandlerForks = FALSE
    NoChild = none
    AnyChild = any
SPECIFICATION FairSpec
PROPERTY AstRuns
