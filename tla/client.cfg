SPECIFICATION ClientFairSpec
CONSTANTS
    a1 = a1
    Apps = {a1}
    Minder = Minder
    None = None
    NoMsg = NoMsg
    MAX_PIPES = 2
    MAX_PIPE_DEPTH = 2
    MAX_MSG_IDS_PER_PIPE = 1
    UINT32 = 4
    MsgIds = {1, 2}
    INVALID_MSG_ID = 0
    Msgs <- MCMsgs
    MsgIdOf <- MCMsgIdOf
    Calls = {"create", "subscribe", "receive"}
    TimeOuts = {"pend"}
    Unasked = TRUE
    Spurious = FALSE
    SyncFaults = FALSE
    HDR_SZ = 1
    MAX_MESSAGE_SIZE = 1
    Sizes = {1}
    ErrorLimit = 1
    MaxFrames = 2

    
PROPERTIES
    IsChannel
    
    PendServed
CHECK_DEADLOCK FALSE
