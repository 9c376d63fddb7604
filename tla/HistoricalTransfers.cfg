SPECIFICATION FairSpec
CONSTANTS
    FileSizes = {0, 2, 3}
    SizesAnew = {2}
    Window = 2
    Batch = 2
    HighWater = 2
    LowWater = 1
    MaxSelections = 2
    MaxPauses = 1
    MaxTroubles = 1
    Size = 3
    BlockFrames = 2
    CalmLosses = 2
    MaxLosses = 1
    TotalBytes = {0, 14}
    BlockBytes = 3
    FrameBytes = 2
    RangesPerPage = 1
    MaxInterruptions = 2
INVARIANTS
    RecordIsFaithful
    CompletedIsSource
    SafeIsWritten
PROPERTIES
    FileArrives
    CalmTransferCompletes
CHECK_DEADLOCK FALSE
