SPECIFICATION Spec
CONSTANTS
    BlockCount = 1
    FrameCount = 1
    PieceCount = 1
    MaxLoops = 1
    MaxLosses = 3
    MaxHostile = 3
    MaxFaults = 1
CHECK_DEADLOCK FALSE
INVARIANT
    DeliveredIsSource
