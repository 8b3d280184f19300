SPECIFICATION CLibSpec
CONSTANTS
  AsyncCalls = {c1, c2}
  CallbackIds = {1, 2}
  NoCall = NoCall
  Hosts = {h1, h2, h3}
  NoHost = NoHost
  Tries = 2
  Lookups = {l1, l2}
  Answers = {a1, a2}
  Values = {v1, v2}
  NoValue = NoValue
INVARIANTS
  CLibInv
PROPERTIES
  CLibAnswers
  CLibReturns
CHECK_DEADLOCK FALSE
