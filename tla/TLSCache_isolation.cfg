CONSTANTS
  None = None
  Keys = {k1}
  Ids = {id1, unset}
  MaxSize = 1
  MaxPending = 1
SPECIFICATION Spec
INVARIANTS
  TicketIsolation
