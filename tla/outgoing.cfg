SPECIFICATION Spec
CONSTANTS
    Apps = {a1}
    Heart = heart
    HDR_SZ = 2
    SUB_SZ = 2
    MAX_MESSAGE_SIZE = 4
    UINT16 = 6
    Lengths <- MCLengths
    MaxFrames = 3
INVARIANTS
    TypeOK
    SentIsOnWire
    
CHECK_DEADLOCK FALSE
