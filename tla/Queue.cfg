SPECIFICATION FairSpec
CONSTANTS
  c1 = c1  c2 = c2  k1 = k1  k2 = k2  w1 = w1  w2 = w2
  Chains <- MCChains
  Keys <- MCKeys
  Threads <- MCThreads
  IdOf <- SameName
  LeaseTime = 1
  Outcomes = {"succeeded", "timed_out"}
  Budgets = {2}
  Lag = 1
  MaxJobs = 2
  MaxAttempts = 2
  MaxTime = 3
  MaxFeedback = 1
CHECK_DEADLOCK FALSE
INVARIANTS
  TypeOK
  LatestAttemptDecides
  LogIsComplete
PROPERTIES
  ClosedChainIsQuiet
  DecidesOnce
  EveryJobIsAnnounced
