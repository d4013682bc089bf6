CONSTANTS
    MaxReq = 3
    Pipeline = 2
SPECIFICATION FairSpec
CHECK_DEADLOCK FALSE
INVARIANTS
    ServesInOrder
PROPERTIES
    SilentAfterEnd
    ConnectionSettles
