SPECIFICATION Spec
CONSTANTS
    BlockBytes = 4
    FrameBytes = 3
    MaxOpenHandles = 2
    MaxEntries = 5
    MaxComponents = 3
    MaxPathBytes = 6
    MaxBlocks = 2
    MaxManifestBytes = 190
    Names <- MCNames
    NormalForm <- MCNormalForm
    Unportable <- MCUnportable
    LowerCase <- MCLowerCase
    Bytes <- MCBytes
    ByteOrder <- MCByteOrder
    Trees <- MCTrees
    MaxLosses = 2
    MaxMishaps = 2
INVARIANTS
    DeliveredIsTheFolder
    CommittedIsHeld
    RefusedIsUnportable
CHECK_DEADLOCK FALSE
