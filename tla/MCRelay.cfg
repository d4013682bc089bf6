SPECIFICATION RelayFairSpec
CONSTANTS
    Messages <- MCMessages
    Cap = 1
    SizeMax = 32
    LineMax = 6
    TrailerMax = 8
INVARIANTS
    MessageIsWhole
    OneFraming
PROPERTIES
    EveryMessageSettles
