SPECIFICATION Spec
CONSTANTS
  a = a
  b = b
  Rel <- MCRel
  Schemas <- MCSchemas
  Id = {1, 2, 3}
  U = {1, 2, 3}
  W = {1, 2}
  Big = {2}
  Start <- MCStart
  Fresh <- MCFresh
  ChunkRows = 2
  MaxTx = 2
  MaxChange = 3
INVARIANTS
  ReplayExact
  DivergesOnlyWhere
CHECK_DEADLOCK FALSE
