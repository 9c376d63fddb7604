SPECIFICATION Spec
CONSTANTS
    BlockCount = 2
    FrameCount = 2
    Payload <- MCPayload
    NoPayload = none
    p = p
    q = q
    QueueLengths = {0, 1}
    HashLengths = {0, 1, 2}
    MaxReloads = 1
SYMMETRY PayloadSymmetry
INVARIANTS
    CommittedMatchesDestination
    RecordAheadByOneBlock
    CommittedIsPrefix
PROPERTY
    StoreOnlyGrows
