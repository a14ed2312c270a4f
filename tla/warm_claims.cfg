SPECIFICATION Spec
CONSTANTS
  SandboxIds = {s1, s2}
  WarmIds = {w1, w2}
  Keys = {base, sudo}
  None = None
  Target <- AllButDefault
  Requests = {r1, r2}
  Callbacks = {c1, c2}
  Fillers = {main, f1}
  Main = main
  Timeouts = {1}
  DefaultTimeout = 1
  MaxNow = 0
  Operations = {"create"}
  Limit <- BrokenWatches
CHECK_DEADLOCK FALSE
SYMMETRY Symmetry
INVARIANTS
  TypeOK
  ExactMatch
PROPERTIES
  AddressIsStable
