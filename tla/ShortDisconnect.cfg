SPECIFICATION FairSpec
CONSTANTS
    BlockCount = 2
    FrameCount = 2
    Payload <- MCPayload
    NoPayload = none
    Source <- MCSource
    Corrupt = "bad"
    Faults <- NoFaults
    MaxLoops = 2
    MaxCuts = 0
    MaxFlaps = 1
    MayCancel = FALSE
    Backpressure = FALSE
    Prompt = TRUE
    DestinationFaults = FALSE
    CloseIdempotent = FALSE
CHECK_DEADLOCK FALSE
PROPERTIES
    ReconnectingEnds
