SPECIFICATION FairSpec
CONSTANTS
  Setting = {s0, s1}
  Dsn = {d0, d1}
  BaseSetting = s0
  BaseDsn = d0
  MaxStart = 2
  MaxSave = 1
  MaxOp = 2
  MaxReq = 1
INVARIANTS
  ReviewedConfig
  ChildIsShown
  OneMigrator
  SavesHold
PROPERTIES
  KeepsWork
  StopEnds
CHECK_DEADLOCK FALSE
