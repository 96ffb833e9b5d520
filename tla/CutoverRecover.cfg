SPECIFICATION CutSpec
CONSTANTS
  N = 2
  ChanCap = 1
  MaxRemove = 1
  MaxCrash = 0
  MaxDrop = 0
INVARIANT
  FeedbackIsComplete
