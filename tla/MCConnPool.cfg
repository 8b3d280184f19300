CONSTANTS
  None = None
  g1 = g1
  g2 = g2
  c1 = c1
  c2 = c2
  c3 = c3
  p1 = p1
  h1 = h1
  front = front
  direct = direct
  Getters = {g1, g2}
  Conns = {c1, c2, c3}
  PoolIds = {p1}
  Hosts = {h1}
  ConnectHosts = {front}
  ConnectTo <- Fronted
  Proxies = {direct}
  MaxConns = 1
  MaxIdle = 1
  MaxAge = 2
SPECIFICATION Spec
SYMMETRY Sym
INVARIANTS
  TypeOK
  RetiredNotListed
  OpenIsOwned
  LateIsBounded
  PoolsSound
