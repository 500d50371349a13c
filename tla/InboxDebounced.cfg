SPECIFICATION Spec
CONSTANTS
  i1 = i1  m1 = m1  w1 = w1  p1 = p1
  Timer = Timer
  Scanned = {i1}
  Manual = {m1}
  Counts = {1}
  Writers = {w1}
  Pushers = {Timer, p1}
  Lag = 0
  MaxTime = 2
CHECK_DEADLOCK FALSE
PROPERTIES
  DebouncedWasShown
