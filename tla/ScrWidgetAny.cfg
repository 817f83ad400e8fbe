SPECIFICATION Spec
CONSTANTS
    NColors = 3
    NAllColors = 4
    NormalColors = 3
    StatusColors = 1
    NoPixel = NoPixel
    Dark = {1}
    NoFont = NoFont
    NoContext = NoContext
    Changes <- MCChanges
    FirstResources <- MCFirstResources
    TameColours = FALSE
    TextWidgets = {1, 2}
    Buttons = {1, 2}
    MultiClick = 2
    Positions = {1, 2}
    MaxClicks = 2
    MaxLate = 1
    TameButtons = FALSE
    MaxEvents = 3
    TameFocus = FALSE
    Setters = {1, 2, 3}
    Strings = {1, 2}
    Nobody = Nobody
    Other = Other
    NoString = NoString
    TameSelections = FALSE
INVARIANTS ColoursCurrent ClicksTold FocusSound SelectionSound
CHECK_DEADLOCK FALSE
