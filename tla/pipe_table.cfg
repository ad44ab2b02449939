SPECIFICATION Spec
CONSTANTS
    Apps = {a1}
    Minder = minder
    MAX_PIPES = 2
    MAX_PIPE_DEPTH = 2
    MAX_MSG_IDS_PER_PIPE = 2
    UINT32 = 4
    MsgIds = {1, 2}
    INVALID_MSG_ID = 0
    Msgs = {m3}
    NoMsg = NoMsg
    None = None
    Calls = {"create", "delete", "subscribe"}
    TimeOuts = {"poll", "pend", "timed"}
    Unasked = TRUE
    Spurious = TRUE
    SyncFaults = TRUE
    a1 = a1
    a2 = a2
    m1 = m1
    m2 = m2
    m3 = m3
    MsgIdOf <- MCMsgIdOf
INVARIANTS
    PipeIdMatchesIdx
PROPERTIES
    SubscriptionsKept
