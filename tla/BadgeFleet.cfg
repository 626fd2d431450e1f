CONSTANTS
    Hardware = {b1, b2}
    Simulated = {s1}
    DeckSize = 2
    HeartbeatTimeout = 5
    Throttle = 4
    Blackout = 6
    BlackoutExtra = 0
    Feedback = 1
    Delays = {1}
    MaxCrashes = 1
    MaxFaults = 1
SPECIFICATION FairSpec
INVARIANTS
    FleetKept
PROPERTIES
    TimeoutMeansGone
    CrashTimesOutFirst
    EveryQuestionAnswered
CHECK_DEADLOCK FALSE
