SPECIFICATION Spec
CONSTANTS
  s1 = s1
  s2 = s2
  conn = conn
  other = other
  LimitKeys = {conn}
  NoHeader = NoHeader
  Rate = 2
  Interval = 2
  KeyRole <- KeyRoles
  NoKey = "noKey"
  TTL = 3
  MaxSize = 2
  Limit = 1
  SandboxIds = {s1, s2}
  IdText <- IdTexts
  PortNumber <- PortNumbers
  r1 = r1
  r2 = r2
  Slots = {r1, r2}
  Sdks = {"sdk"}
  NoSdk = "none"
  SdkKey <- SdkKeys
  Credentials <- UserAndStranger
  SdkOps = {"delete", "exec"}
  OtherOps = {"create", "delete", "get"}
  Filters = {"DELETE"}
  Margin = 2
  Timeout = 1
  Budgets <- CallsOrStrangers
INVARIANTS TypeOK FewerThanTwoRates SdkTokenIsLive AuditKeepsTheLatest PagingSkipsNothing PreviewReachesItsSandbox
PROPERTY RefusedOnlyAtLimit
SYMMETRY SlotSymmetry
CHECK_DEADLOCK FALSE
