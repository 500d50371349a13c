CONSTANTS
  w1 = w1  w2 = w2  t1 = t1  t2 = t2  t3 = t3
  Workers = {w1, w2}
  Tokens = {t1, t2}
  None = None
  MaxFaults = 1
SPECIFICATION RetrySpec
PROPERTIES
  CrashAfterSendRecovered
