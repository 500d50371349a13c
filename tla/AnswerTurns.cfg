SPECIFICATION Spec
CONSTANTS
  p1 = p1  p2 = p2  k1 = k1  k2 = k2  k3 = k3  g1 = g1  g2 = g2
  Research = Research
  Nobody = Nobody
  Clients = {p1, p2}
  Keys = {k1, k2, k3}
  Gens = {g1, g2}
  LeaseTime = 1
  Lag = 0
  MaxChains = 2
  MaxProducts = 3
  MaxTime = 1
  AllProducts = 4
  AllTurns = 2
SYMMETRY Symmetry
CHECK_DEADLOCK FALSE
INVARIANTS
  OneAnswerPerRequest
  BuiltOnLatest
PROPERTIES
  HolderWrites
  RouteMovesOn
