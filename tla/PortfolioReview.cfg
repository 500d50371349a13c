SPECIFICATION Spec
CONSTANTS
  t1 = t1  t2 = t2  t3 = t3  o1 = o1  s1 = s1  s2 = s2  p1 = p1
  r1 = r1  r2 = r2  r3 = r3
  Turns = {t1, t2, t3}
  Operators = {o1}
  SessionOf <- MCSessions
  PrincipalOf <- MCPrincipals
  Revisions = {r1, r2, r3}
  None = None
  Nobody = Nobody
  Ttl = 1
  MaxTime = 2
  MaxFaults = 2
SYMMETRY Symmetry
INVARIANTS
  TypeOK
PROPERTIES
  PublishesLatestPreview
  NoLostUpdate
  PublishedOnce
