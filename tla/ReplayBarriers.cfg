SPECIFICATION FairSpec
CONSTANTS
  N = 6
  Key <- MCKey
  Writes <- BarriersWrites
  Spilled = {6}
  KeyUnsafe = {3}
  PrevDef <- BarriersPrevDef
  LaneHash <- MCLaneHash
  LaneCounts = {2}
  MaxLose = 1
PROPERTIES
  ImplementsTargetReplay
  EventuallyReplayed
