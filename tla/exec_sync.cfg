SPECIFICATION Spec
CONSTANTS
  Clients = {a}
  Calls = {c}
  None = None
  Ops = {"exec", "ping", "unknown", "file"}
  MaxProcs = 2
  MaxChunks <- OneLine
  Children = {}
  MaxRequests = 1
  MayStop = FALSE
CHECK_DEADLOCK FALSE
INVARIANTS
  ResultIsComplete
