CONSTANTS
    Buttons = {"up", "right", "down", "left"}
    PanicHold = 2
    BeatInterval = 2
    OverlayLength = 3
    Deadlines = {5, 99}
    Ceiling = 7
    MaxGap = 1
    MaxOverlays = 1
SPECIFICATION Spec
PROPERTIES
    PressedSideAnswers
CHECK_DEADLOCK FALSE
