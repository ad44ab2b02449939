SPECIFICATION FairSpec
CONSTANTS
    HDR_SZ = 2
    MAX_MESSAGE_SIZE = 2
    MaxSize = 3
    Sizes <- MCSizes
    ErrorLimit = 5
    MaxFrames = 2
INVARIANTS
    TypeOK
    InStep
    NoOverrun
PROPERTIES
    DeadLinkStops
CHECK_DEADLOCK FALSE
