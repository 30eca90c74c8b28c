SPECIFICATION Spec
CONSTANTS
  MaxBlocks = 2
  MaxMessages = 2
  None = None
  AutoInsert = TRUE
  Lingua = TRUE
  PreserveCache = TRUE
  CompressSystem = FALSE
INVARIANTS SacredPrefix WallSettled Parity
CHECK_DEADLOCK FALSE
