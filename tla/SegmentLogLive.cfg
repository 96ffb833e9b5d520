SPECIFICATION FairSpec
CONSTANTS
  N = 3
  ChanCap = 1
  MaxRemove = 1
  MaxCrash = 1
  MaxDrop = 0
PROPERTY
  EventuallyApplied
