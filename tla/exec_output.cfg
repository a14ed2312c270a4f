SPECIFICATION FairSpec
CONSTANTS
  Clients = {a}
  Calls = {}
  None = None
  Ops = {"exec", "kill", "stdin", "terminal"}
  MaxProcs = 1
  MaxChunks <- TwoOut
  Children = {"group", "daemon"}
  MaxRequests = 2
  MayStop = TRUE
CHECK_DEADLOCK FALSE
INVARIANTS
  TypeOK
  AckedIsReachable
PROPERTIES
  OutputBeforeExit
  FinishedIsForgotten
