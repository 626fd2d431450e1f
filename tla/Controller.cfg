CONSTANTS
    Starters = {s1, s2}
    Updaters = {u1}
    MaxGames = 2
    MaxVersion = 2
    MaxCrashes = 1
SPECIFICATION FairSpec
INVARIANTS
    SlotKept
PROPERTIES
    SlotSpec
    BoardMonotone
    GamesSettle
CHECK_DEADLOCK FALSE
