SPECIFICATION FairSpec
CONSTANTS
    BlockCount = 2
    FrameCount = 2
    Payload <- MCPayload
    NoPayload = none
    Source <- MCSource
    Corrupt = "bad"
    Faults <- OnceFaults
    MaxLoops = 3
    MaxCuts = 2
    MaxFlaps = 0
    MayCancel = FALSE
    Backpressure = FALSE
    Prompt = TRUE
    DestinationFaults = FALSE
    CloseIdempotent = TRUE
CHECK_DEADLOCK FALSE
PROPERTIES
    BothDeliver
    ImplementsPromise
