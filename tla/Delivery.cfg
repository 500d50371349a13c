\* Two processes, three claims, three faults: an attempt, a refused send and
\* its retry, and a recovery racing the sender, with a crash of each.
SPECIFICATION RetrySpec
CONSTANTS
  w1 = w1  w2 = w2  t1 = t1  t2 = t2  t3 = t3
  Workers = {w1, w2}
  Tokens = {t1, t2, t3}
  None = None
  MaxFaults = 3
INVARIANTS
  TypeOK
  NothingOutstandingWhenPending
  StoresAgree
PROPERTIES
  EvidenceKept
  ImplementsAtMostOnce
  RecordedOutcomeSettles
  AckIsBound
