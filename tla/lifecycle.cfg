SPECIFICATION FairSpec
CONSTANTS
    MaxInits = 2
    ErrorLimit = 5
INVARIANTS
    TypeOK
    
    OneLateBeat
PROPERTIES
    BeatsStop
CHECK_DEADLOCK FALSE
