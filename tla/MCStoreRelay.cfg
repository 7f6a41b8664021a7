CONSTANTS
  a = a
  b = b
  Slids = {a, b}
  MeshOf <- MeshOneZero
  Statuses = {}
  Inbound <- RelayInbound
  Commanded = {b}
  Configs = {{}, {"slid"}}
  NodeMaxSilence = 1
  MAXSILENCE = 0
  autocreate = TRUE
  SL_ACK_WAIT = 1
  MAX_RESEND_COUNT = 1
  MaxPktNum = 2
SPECIFICATION Spec
INVARIANTS
  HeardIsUp
PROPERTIES
  ImplementsWindow
  OfflineIsLeftAlone
CHECK_DEADLOCK FALSE
