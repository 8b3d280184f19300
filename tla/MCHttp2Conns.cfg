CONSTANTS
  Absent = Absent
  r1 = r1
  r2 = r2
  c1 = c1
  c2 = c2
  k1 = k1
  Requests = {r1, r2}
  Conns = {c1, c2}
  Keys = {k1}
  MaxIdle = 1
  MaxAge = 2
  MaxDial = 1
SPECIFICATION FairSpec
INVARIANTS
  Http2Inv
  IdleLimitSparesRequests
PROPERTIES
  CloseReleases
  RequestReturns
