SPECIFICATION Spec
CONSTANTS
  SandboxIds = {s1}
  WarmIds = {}
  Keys = {base}
  None = None
  Target <- NoTarget
  Requests = {r1, r2}
  Callbacks = {c1}
  Fillers = {main}
  Main = main
  Timeouts = {1}
  DefaultTimeout = 1
  MaxNow = 3
  Operations = {"create", "delete", "keepalive"}
  Limit <- Calm
SYMMETRY Symmetry
INVARIANTS
  ReapsOnlyExpired
PROPERTIES
  NoResurrection
