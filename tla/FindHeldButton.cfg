CONSTANTS
    Hardware = {b1, b2}
    Simulated = {s1}
    DeckSize = 2
    HeartbeatTimeout = 5
    Throttle = 4
    Blackout = 6
    BlackoutExtra = 2
    Feedback = 2
    Delays = {1,2}
    MaxCrashes = 1
    MaxFaults = 1
SPECIFICATION Spec
PROPERTIES
    OnlyACrashReturns
CHECK_DEADLOCK FALSE
