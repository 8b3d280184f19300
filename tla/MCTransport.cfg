CONSTANTS
  c1 = c1
  host = host
  None = None
  Calls = {c1}
  Hosts = {host}
  Requests <- Requests3
  Proxies <- Proxies4
  MaxSets = 2
SPECIFICATION TransportFairSpec
INVARIANTS
  TransportInv
  QuicUsesProxy
PROPERTIES
  ImplementsChoice
