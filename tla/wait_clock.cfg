SPECIFICATION FairSpec
CONSTANTS
    Second = 4
    TimeOuts <- MCTimeOuts
    RealtimeAhead = 0
    MaxTime = 24
INVARIANTS
    TypeOK
    NotBeforeTimeOut
PROPERTIES
    EndsAtTimeOut
CHECK_DEADLOCK FALSE
