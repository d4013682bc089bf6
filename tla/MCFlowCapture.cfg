SPECIFICATION FairSpec
CONSTANTS
    MaxBytes = 4
    MaxFrame = 2
    Limit = 2
CHECK_DEADLOCK FALSE
INVARIANTS
    PassedOnWhole
    ReportIsFaithful
PROPERTIES
    EveryResponseReported
