SPECIFICATION Spec
CONSTANTS
  N = 4
  Key <- MCKey
  Writes <- LanesWrites
  Spilled = {}
  KeyUnsafe = {4}
  PrevDef <- LanesPrevDef
  LaneHash <- MCLaneHash
  LaneCounts = {1, 2}
  MaxLose = 2
INVARIANTS
  FrontierExact
PROPERTIES
  ImplementsTargetReplay
  UndisturbedNeverFails
