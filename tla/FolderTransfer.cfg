SPECIFICATION FairSpec
CONSTANTS
    BlockCount = 2
    FrameCount = 2
    PieceCount = 2
    MaxLoops = 3
    MaxLosses = 3
    MaxHostile = 1
    MaxFaults = 1
CHECK_DEADLOCK FALSE
INVARIANTS
    KnownIsPersisted
    DeliveredWasWhole
PROPERTY
    CalmLossesAreSurvived
