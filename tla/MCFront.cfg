SPECIFICATION FrontSpec
CONSTANTS
  Setups <- Connections
  MaxPrefix = 10
  MaxHead = 5
INVARIANTS
  BytesAreKept
  KnownIsInspected
  GoesWhereAsked
