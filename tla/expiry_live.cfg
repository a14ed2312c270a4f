SPECIFICATION FairSpec
CONSTANTS
  SandboxIds = {s1}
  WarmIds = {}
  Keys = {base}
  None = None
  Target <- NoTarget
  Requests = {r1}
  Callbacks = {c1}
  Fillers = {main}
  Main = main
  Timeouts = {1}
  DefaultTimeout = 1
  MaxNow = 2
  Operations = {"create", "delete", "keepalive"}
  Limit <- Failing
PROPERTIES
  ExpiredIsReaped
