CONSTANTS
    MaxReplacementAttempts = 2
    Troubles = {"cut", "flap", "drop", "failure", "candidate", "early", "restart", "replace", "leave", "rejoin"}
    Together = {"cut", "flap", "leave"}
    MaxTroubles = 2
SPECIFICATION FairSpec
INVARIANTS
    OnlyCurrentIsOpen
    BoundedAttempts
PROPERTIES
    TransferSurvives
    RouteSettles
CHECK_DEADLOCK FALSE
