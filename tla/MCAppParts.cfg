CONSTANTS
  Threads = {p1, p2}
  MaxHandles = 2
  Clients = {c1, c2, c3}
  MaxConnections = 1
  SessionIds = {i1}
  NoId = none
  Sessions = {s1, s2}
  MaxSessions = 1
  Upstreams = {u1}
  NoProxy = none
  NoSession = none
  Pages <- Pages3
  ConcurrencyLimit = 2
  MaxSubresources = 5
  Resolvers = {r1, r2}
  Zones <- Zones3
  Servers = 2
  MaxVersion = 2
  NoEntry = none
SPECIFICATION AppSpec
INVARIANTS
  HandlesSound
  LocalProxySound
  SessionsSound
  WavesInOrder
  DnsSound
CHECK_DEADLOCK FALSE
