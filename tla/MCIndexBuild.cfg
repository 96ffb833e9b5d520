\* Three indexes, three constraints, one comment, one table and two workers; the
\* process is killed once, one object is changed by somebody else and one probe
\* fails.
CONSTANTS
  pkey = pkey
  part = part
  expr = expr
  toparted = toparted
  topart = topart
  check = check
  t1 = t1
  None = None
  Index <- MCIndex
  Parent <- MCParent
  Bytes <- MCBytes
  Parted = {pkey}
  Backing = {pkey, part}
  Expression = {expr}
  Constraint = {toparted, topart, check}
  ForeignKey <- MCForeignKey
  Direct = {toparted}
  Refers <- MCRefers
  WithTable = {check}
  Rewritten = {check, topart}
  Unprobed = {}
  Deferred = {comment}
  Comment = {comment}
  Table = {t1}
  OnTable <- MCOnTable
  Worker = {w1, w2}
  MaxCrash = 1
  MaxForeign = 1
  MaxLapse = 1
SPECIFICATION FairSpec
INVARIANTS
  TargetComplete
  FailsForCause
PROPERTIES
  CompletesOwn
  Finishes
CHECK_DEADLOCK FALSE
