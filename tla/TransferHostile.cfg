SPECIFICATION Spec
CONSTANTS
    BlockCount = 2
    FrameCount = 1
    Payload <- MCPayload
    NoPayload = none
    Source <- MCSource
    Corrupt = "bad"
    Faults <- ManyFaults
    MaxLoops = 3
    MaxCuts = 2
    MaxFlaps = 1
    MayCancel = TRUE
    Backpressure = TRUE
    Prompt = FALSE
    DestinationFaults = TRUE
    CloseIdempotent = FALSE
CHECK_DEADLOCK FALSE
INVARIANTS
    DeliveredIsSource
    SafeBytesAreStored
    StoredDigestsAreSource
PROPERTIES
    ImplementsReceiver
    SafeNeverShrinks
