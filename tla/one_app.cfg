SPECIFICATION Spec
CONSTANTS
    Apps = {a1}
    Minder = minder
    MAX_PIPES = 1
    MAX_PIPE_DEPTH = 3
    MAX_MSG_IDS_PER_PIPE = 1
    UINT32 = 6
    MsgIds = {1, 2}
    INVALID_MSG_ID = 0
    Msgs = {m1, m3}
    NoMsg = NoMsg
    None = None
    Calls = {"create", "delete", "subscribe", "receive"}
    TimeOuts = {"poll", "pend", "timed"}
    Unasked = FALSE
    Spurious = TRUE
    SyncFaults = TRUE
    a1 = a1
    a2 = a2
    m1 = m1
    m2 = m2
    m3 = m3
    MsgIdOf <- MCMsgIdOf
INVARIANTS
    TypeOK
    UnreadAreSubscribed
    NoLostWakeup

    
CHECK_DEADLOCK FALSE
