SPECIFICATION FairSpec
CONSTANTS
    MaxTime = 3
    CapabilityLifetimeMaximum = 3
    CapabilityLifetime = 2
    CredentialLifetime = 2
    ProofWindow = 1
    MaxIssues = 3
    MaximumRequests = 3
    Window = 3
    MaxSockets = 3
    Codes = {c1}
    Peers = {p1, p2, p3}
    SessionLifetime = 2
    MaxSessions = 1
    MaxRequests = 1
    MaxLinks = 3
INVARIANTS
    SenderIsTold
    RoomIsBounded
    RolesComplement
PROPERTIES
    RevocationIsFinal
    EveryConnectionEnds
CHECK_DEADLOCK FALSE
