CONSTANTS
    s1 = s1
    s2 = s2
    c1 = c1
    c2 = c2
    c3 = c3
    Sender <- MCSender
    Conn <- MCConn
    MaxPerKey = 1
    NoConn = NoConn
SPECIFICATION FairSpec
CHECK_DEADLOCK FALSE
INVARIANTS
    PoolIsSound
    NothingStranded
PROPERTIES
    ImplementsRequestOnce
    EverySendEnds
