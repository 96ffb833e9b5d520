SPECIFICATION FairSpec
CONSTANTS
  N = 4
  MaxCommit = 2
  Manual = TRUE
  MaxStop = 1
  MaxRunStop = 1
INVARIANTS
  DrainCoversEnd
  SlotOutlivesStream
  PublishedKeepsIdentity
  CompleteIsTidy
PROPERTIES
  EventuallyCutover
CHECK_DEADLOCK FALSE
