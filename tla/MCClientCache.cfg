CONSTANTS
    r1 = r1
    r2 = r2
    r3 = r3
    Request <- MCRequest
    MaxConn = 2
SPECIFICATION FairSpec
CHECK_DEADLOCK FALSE
INVARIANTS
    SharingIsSound
PROPERTIES
    ImplementsRequestOnce
    EverySendEnds
