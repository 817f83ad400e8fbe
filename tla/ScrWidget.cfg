SPECIFICATION Spec
CONSTANTS
    NColors = 3
    NAllColors = 4
    NormalColors = 3
    StatusColors = 1
    NoPixel = NoPixel
    Dark = {1}
    NoFont = NoFont
    NoContext = NoContext
    Changes <- MCChanges
    FirstResources <- MCFirstResources
    TameColours = TRUE
    TextWidgets = {1, 2}
    Buttons = {1, 2}
    MultiClick = 2
    Positions = {1, 2}
    MaxClicks = 2
    MaxLate = 1
    TameButtons = TRUE
    MaxEvents = 3
    TameFocus = TRUE
    Setters = {1, 2, 3}
    Strings = {1, 2}
    Nobody = Nobody
    Other = Other
    NoString = NoString
    TameSelections = TRUE
INVARIANTS
    ColoursCurrent
    ClicksTold
    TimerSound
    FocusSound
    SelectionSound
PROPERTIES
    BufferFlushed
CHECK_DEADLOCK FALSE
