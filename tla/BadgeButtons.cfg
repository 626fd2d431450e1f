CONSTANTS
    Buttons = {"up", "right", "down", "left"}
    PanicHold = 2
    BeatInterval = 2
    OverlayLength = 3
    Deadlines = {4, 99}
    Ceiling = 5
    MaxGap = 1
    MaxOverlays = 1
SPECIFICATION FairSpec
INVARIANTS
    AnswerIsFresh
    CrashWasHeld
    HeartbeatsFlow
PROPERTIES
    WaitEnds
CHECK_DEADLOCK FALSE
