SPECIFICATION TextSpec
CONSTANTS
    NRows = 3
    NCols = 2
    buf1 = buf1
    buf2 = buf2
    buf3 = buf3
    Buffer = {buf1, buf2, buf3}
    plain = plain
    blink = blink
    link = link
    Null = Null
    CursorShape = CursorShape
    Blinking = {blink}
    Active = {link}
    Covered <- MCCovered
    Areas <- MCAreas
    Moves <- MCMoves
    Texts <- MCTexts
    MouseAt <- MCMouseAt
    Sizes = {2, 3}
    Late = {"NoExpose"}
    MaxOps = 2
    MaxCovers = 1
    Tame = TRUE
SYMMETRY Symmetry
INVARIANTS
    Shown
    RowsSound
    WaitAnswered
PROPERTIES
    CursorKept
    ImplementsGrid
CHECK_DEADLOCK FALSE
