CONSTANTS
    b1 = b1
    b2 = b2
    b3 = b3
    NoBadge = NoBadge
    Badges <- TwoBadges
    DeckSize = 3
    Rust <- SecondIsRust
    Duration = 3
    ChaosDuration = 2
    Extension = 2
    TickLength = 1
    Override = 0
    MinBacklog = 1
    Commands <- AllChaos
    MaxAttempt = 1
    MaxSignals = 1
    MaxLag = 1
SPECIFICATION Spec
SYMMETRY Symmetry
INVARIANTS
    TypeOK
    QuestionAccounting
    BacklogKept
    RoundLengthBounded
    EndedRoundCloses
    StaleModifierBounded
PROPERTIES
    LateAnswerIsLast
    SuddenDeathDecides
    GameSpec
CHECK_DEADLOCK FALSE
