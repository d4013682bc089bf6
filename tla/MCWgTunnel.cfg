SPECIFICATION WgFairSpec
CONSTANTS
    a1 = a1
    NoAddr = NoAddr
    Addr <- MCAddr
    Cap = 2
    MaxIn = 3
    MaxOut = 3
CHECK_DEADLOCK FALSE
INVARIANTS
    TunnelIsSound
PROPERTIES
    StopsTogether
