CONSTANTS
  c1 = c1
  hA = hA
  hB = hB
  None = None
  Calls = {c1}
  Hosts = {hA, hB}
  Asked <- Asked0
  ClientAuths = {"digest"}
  Settable = {"masque"}
  Configured <- Configured0
  MaxRetries = 1
  MaxRedirects = 1
  MaxChanges = 1
SPECIFICATION MCSpec
INVARIANTS
  ClientInv
  CredentialsConfined
  KeptReturned
PROPERTIES
  DoReturns
CHECK_DEADLOCK FALSE
