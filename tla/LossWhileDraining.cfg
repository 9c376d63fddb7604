SPECIFICATION Spec
CONSTANTS
    BlockCount = 2
    FrameCount = 2
    Payload <- MCPayload
    NoPayload = none
    Source <- MCSource
    Corrupt = "bad"
    Faults <- NoFaults
    MaxLoops = 2
    MaxCuts = 1
    MaxFlaps = 0
    MayCancel = FALSE
    Backpressure = TRUE
    Prompt = TRUE
    DestinationFaults = FALSE
    CloseIdempotent = FALSE
CHECK_DEADLOCK FALSE
PROPERTIES
    LossIsRecoverable
