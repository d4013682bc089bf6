CONSTANTS
    Flow = {1, 2}
    Setup <- MCSetup
    CoreCap = 1
    UiCap = 1
    BusCap = 1
    MaxRows = 2
    MaxChars = 3
    MaxGen = 2
SPECIFICATION FairSpec
CHECK_DEADLOCK FALSE
INVARIANTS
    RecordIsFaithful
    ReplayRebuilds
    OneRowPerExchange
    CursorInside
    FilterIsLatest
PROPERTIES
    SelectionStays
    ShutdownSaves
