SPECIFICATION Spec
CONSTANTS
  e = e
  t = t
  w = w
  p = p
  MaxRequests = 0
  Listeners = {e, t}
  Kind <- Commands
  MaxReconnectAttempts = 0
  MaxLosses = 0
  MaxUses = 2
  Chunks = 1
  Cap = 1
  None = None
CHECK_DEADLOCK FALSE
INVARIANTS
  OpenListenerIsHeard
