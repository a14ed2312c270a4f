SPECIFICATION FairSpec
CONSTANTS
  e = e
  t = t
  w = w
  p = p
  MaxRequests = 2
  Listeners = {e, t, w, p}
  Kind <- OneOfEach
  MaxReconnectAttempts = 2
  MaxLosses = 1
  MaxUses = 2
  Chunks = 2
  Cap = 1
  None = None
CHECK_DEADLOCK FALSE
INVARIANTS
  TypeOK
  OutputInOrder
  OpenListenerIsHeard
PROPERTIES
  RequestEnds
  LossIsSettled
