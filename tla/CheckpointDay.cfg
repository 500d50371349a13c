SPECIFICATION Spec
CONSTANTS
  c1 = c1
  c2 = c2
  w1 = w1
  w2 = w2
  w3 = w3
  Checkpoints = {c1}
  Workers = {w1, w2, w3}
  Scheduled = {w1}
  PrepareAt <- SinglePrepare
  TargetAt <- SingleTarget
  Window = 1
  PrepareLimit = 2
  DeliverLimit = 3
  Ttl = 4
  MaxTime = 6
  MaxAsks = 1
  MaxFaults = 1
  Prompt = TRUE
SYMMETRY HandSymmetry
CHECK_DEADLOCK FALSE
INVARIANTS
  TypeOK
  ParentIsPredecessor
  NoNoticeAfterResult
  SoleHolder
