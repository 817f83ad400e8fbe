CONSTANTS
    Child = {c1, c2}
    Kinds <- WithAst
    GcInFork = FALSE
    HandlerForks = TRUE
    NoChild = none
    AnyChild = any
SPECIFICATION FairSpec
PROPERTY AstRuns
