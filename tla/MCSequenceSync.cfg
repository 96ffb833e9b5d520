SPECIFICATION SyncSpec
CONSTANTS
  K = 2
  Increment <- MCIncrement
  First = 1
  Offset = 4
  Limit = 7
  MaxSync = 2
INVARIANTS
  OffsetIsRoom
CHECK_DEADLOCK FALSE
