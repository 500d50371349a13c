SPECIFICATION FairSpec
CONSTANTS
  c1 = c1
  c2 = c2
  w1 = w1
  w2 = w2
  w3 = w3
  Checkpoints = {c1, c2}
  Workers = {w1, w2}
  Scheduled = {w1, w2}
  PrepareAt <- ApartPrepare
  TargetAt <- ApartTarget
  Window = 1
  PrepareLimit = 3
  DeliverLimit = 3
  Ttl = 5
  MaxTime = 10
  MaxAsks = 0
  MaxFaults = 0
  Prompt = TRUE
CHECK_DEADLOCK FALSE
INVARIANTS
  OneProductPerCheckpoint
PROPERTIES
  ProductIsKept
  DeliverHasProduct
