SPECIFICATION FairSpec
CONSTANTS
    Apps = {a1, a2}
    Minder = minder
    MAX_PIPES = 2
    MAX_PIPE_DEPTH = 2
    MAX_MSG_IDS_PER_PIPE = 1
    UINT32 = 4
    MsgIds = {2}
    INVALID_MSG_ID = 0
    Msgs = {m3}
    NoMsg = NoMsg
    None = None
    Calls = {"create", "receive", "subscribe"}
    TimeOuts = {"pend"}
    Unasked = FALSE
    Spurious = FALSE
    SyncFaults = FALSE
    a1 = a1
    a2 = a2
    m1 = m1
    m2 = m2
    m3 = m3
    MsgIdOf <- MCMsgIdOf
PROPERTIES
    PendServed
CHECK_DEADLOCK FALSE
