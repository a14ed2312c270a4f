SPECIFICATION FairSpec
CONSTANTS
  SandboxIds = {s1}
  WarmIds = {}
  Keys = {base}
  None = None
  Target <- NoTarget
  Requests = {r1}
  Callbacks = {c1, c2}
  Fillers = {main}
  Main = main
  Timeouts = {1}
  DefaultTimeout = 1
  MaxNow = 0
  Operations = {"create", "delete"}
  Limit <- Unreliable
CHECK_DEADLOCK FALSE
INVARIANTS
  RunningWasReady
PROPERTIES
  ReadyIsNoticed
