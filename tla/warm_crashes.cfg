SPECIFICATION Spec
CONSTANTS
  SandboxIds = {s1, s2}
  WarmIds = {w1, w2}
  Keys = {base}
  None = None
  Target <- OneEach
  Requests = {r1, r2}
  Callbacks = {c1, c2}
  Fillers = {main, f1}
  Main = main
  Timeouts = {1}
  DefaultTimeout = 1
  MaxNow = 0
  Operations = {"create"}
  Limit <- CrashesAndFaults
CHECK_DEADLOCK FALSE
SYMMETRY Symmetry
INVARIANTS
  NoMoreHoldersThanMarks
