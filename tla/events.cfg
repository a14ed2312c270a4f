SPECIFICATION FairSpec
CONSTANTS
  dir = dir
  file = file
  NumConns = 2
  NumFiles = 1
  AtFirst = {1}
  Paths = {dir, file}
  Under <- DirAndFile
  Dirs = {dir}
  MaxTime = 3
  Ports = {p, q}
  Open = {q}
  Internal = {q}
  Budgets <- FilesOrPorts
  None = None
CHECK_DEADLOCK FALSE
INVARIANTS
  TypeOK
  WriteIsDue
  OpenPortIsDue
  PortEventsAddUp
PROPERTIES
  WritesAreTold
  PortsAreAnnounced
  PortsAreReported
