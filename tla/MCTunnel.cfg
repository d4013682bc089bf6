CONSTANTS
    Setup <- MCSetup
    MaxSend <- MCMaxSend
    PipeCap = 2
    MaxCapture = 2
SPECIFICATION FairSpec
CHECK_DEADLOCK FALSE
INVARIANTS
    RelayIsWhole
    CaptureIsHonest
PROPERTIES
    Ends
