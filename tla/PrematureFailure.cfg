CONSTANTS
    MaxReplacementAttempts = 2
    Troubles = {"cut"}
    Together = {"cut"}
    MaxTroubles = 1
SPECIFICATION Spec
INVARIANT FailedMeansOver
CHECK_DEADLOCK FALSE
