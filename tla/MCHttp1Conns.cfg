CONSTANTS
  None = None
  r1 = r1
  r2 = r2
  c1 = c1
  c2 = c2
  c3 = c3
  k1 = k1
  Requests = {r1, r2}
  Conns = {c1, c2, c3}
  Keys = {k1}
  MaxPerHost = 1
  MaxIdle = 1
SPECIFICATION FairSpec
INVARIANTS
  Http1Inv
PROPERTIES
  CloseReleases
