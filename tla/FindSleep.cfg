CONSTANTS
    MaxGames = 1
    Questions = {q1}
    Deadlines = {1}
    Queries = 1
    SleepHold = 1
    MaxNotices = 0
SPECIFICATION Spec
PROPERTY SleepLeavesActivity
CHECK_DEADLOCK FALSE
