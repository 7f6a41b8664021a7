CONSTANTS
  a = a
  b = b
  Slids = {a}
  MeshOf <- MeshOne
  Statuses = {"OK", "SLEEPING"}
  Inbound <- OneNodeInbound
  Commanded = {a}
  Configs = {{}, {"slid"}}
  NodeMaxSilence = 2
  MAXSILENCE = 1
  autocreate = TRUE
  SL_ACK_WAIT = 1
  MAX_RESEND_COUNT = 1
  MaxPktNum = 4
SPECIFICATION Spec
INVARIANTS
  HeartbeatSurvives
CHECK_DEADLOCK FALSE
