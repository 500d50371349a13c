SPECIFICATION FairSpec
CONSTANTS
  p1 = p1  p2 = p2
  Nobody = Nobody
  Procs = {p1, p2}
  StaleAfter = 1
  RunBudgets = {2}
  ProbeBudgets = {2}
  Outcomes = {"succeeded"}
  Lag = 1
  MaxRuns = 2
  MaxObs = 2
  MaxTime = 3
  MaxFaults = 1
CHECK_DEADLOCK FALSE
INVARIANTS
  TypeOK
  RunningIsLeased
  HealthIsLatest
PROPERTIES
  RunEndsOnce
  LeaseIsFreed
