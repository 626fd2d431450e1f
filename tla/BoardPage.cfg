CONSTANTS
    MaxGames = 1
    MaxVersion = 2
    Lag = 1
    Slots = 2
    MaxEvents = 1
SPECIFICATION FairSpec
INVARIANTS
    NothingMissed
PROPERTIES
    FrozenBoardContinues
    RecoveryEnds
    PageCatchesUp
    AttractComes
CHECK_DEADLOCK FALSE
