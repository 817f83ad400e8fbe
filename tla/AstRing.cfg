CONSTANTS
    QLEN = 4
    Ast = {a, b, c}
    NoAst = none
SPECIFICATION RingSpec
INVARIANTS RingTypeOK
PROPERTY ImplementsFifo
