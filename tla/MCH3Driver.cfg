CONSTANTS
    Stream = {1, 2}
    Setup <- MCSetup
    MaxData = 1
    ChannelCap = 1
    RequestCap = 1
    MaxRequests = 1
    MaxInfo = 1
    Conn = {1, 2, 3}
    Cid = {11, 12}
    MaxConn = 2
SPECIFICATION FairSpec
CHECK_DEADLOCK FALSE
INVARIANTS
    MessagesAreWhole
    RoutesAreOwn
PROPERTIES
    EverythingSettles
