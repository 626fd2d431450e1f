CONSTANTS
    MaxGames = 2
    Questions = {q1}
    Deadlines = {1, 2}
    Queries = 1
    SleepHold = 1
    MaxNotices = 1
SPECIFICATION FairSpec
INVARIANTS
    AbandonedNeverAsked
    ScreenAsksTheQuestion
    SharedStateKept
PROPERTIES
    NoOldResults
    TasksReturn
CHECK_DEADLOCK FALSE
