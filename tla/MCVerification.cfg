SPECIFICATION FairSpec
CONSTANTS
  T = 3
  Keyless = {2}
  Windows <- MCWindows
  Recorded <- MCRecorded
  Exists = {1, 2, 3, 4}
  Ignored = {4}
  MayBe <- MCMayBe
  Hot = {1, 2}
  W = 1
  Threshold = 1
  MaxWrite = 2
  Phases = {"follow", "drained"}
INVARIANTS
  LagIsNotDivergence
  StalledForCause
  VerdictIsSound
PROPERTIES
  Ends
CHECK_DEADLOCK FALSE
