CONSTANTS
    b1 = b1
    b2 = b2
    b3 = b3
    NoBadge = NoBadge
    Badges <- ThreeBadges
    DeckSize = 2
    Rust <- NoRust
    Duration = 1
    ChaosDuration = 1
    Extension = 0
    TickLength = 1
    Override = 1
    MinBacklog = 1
    Commands <- NoChaos
    MaxAttempt = 3
    MaxSignals = 3
    MaxLag = 0
SPECIFICATION FairSpec
INVARIANTS
    HandoffHappened
    AttemptsCounted
PROPERTIES
    RoundCloses
CHECK_DEADLOCK FALSE
