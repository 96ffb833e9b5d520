SPECIFICATION FairSpec
CONSTANTS
  Table <- MCTable
  Part <- MCPart
  TableOf <- MCTableOf
  Bytes <- MCBytes
  Keyed = {}
  Needy = {"t"}
  Workers = 2
  Modes = {TRUE, FALSE}
  MaxCommit = 2
  MaxFail = 1
  MaxKill = 1
  MaxDrop = 1
INVARIANTS
  CopyExact
  SourceIsSafe
PROPERTIES
  KeepsWork
  Completes
