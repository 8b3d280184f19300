CONSTANTS
  none = none
  None = none
  Keys = {k1, k2, k3}
  Ids = {unset}
  MaxSize = 1
  MaxPending = 1
  Trips = {g1, g2}
  Transports = {t1, t2, t3, t4}
  NoTransport = none
  Attempts3 = 2
  Readers = {g1, g2}
  Buffers = {qa, qb}
  Bodies <- Bodies8
  NoBuffer = none
  NoReader = none
  g1 = g1
  g2 = g2
  qa = qa
  qb = qb
  pa = pa
  pb = pb
  Callers = {g1, g2}
  QConns = {qa, qb}
  QPools = {pa, pb}
  MaxQConns = 1
  Addrs = 1
  MaxDials = 2
  NoQ = none
  Dials = {g1, g2}
  Records = 2
  HeadParts = 2
  MaxHead = 1
  Ipv6 = {1, 2}
  Ipv4 = {3, 4}
  Users = {g1, g2}
  MaxRetries = 2
  ChannelCap = 1
  MaxDatagrams = 2
  NoUser = none
SPECIFICATION NetSpec
SYMMETRY NetSymmetry
INVARIANTS
  NetTypeOK
  LRUOrder
  Http3Sound
  BodyIntact
  QuicOwned
  TunnelSound
  RaceExact
  TunnelReleased
CHECK_DEADLOCK FALSE
