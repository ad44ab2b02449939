SPECIFICATION FairSpec
CONSTANTS
    Second = 4
    TimeOuts <- MCTimeOuts
    RealtimeAhead = 9
    MaxTime = 24
INVARIANTS
    NotBeforeTimeOut
CHECK_DEADLOCK FALSE
