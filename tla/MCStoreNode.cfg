CONSTANTS
  a = a
  b = b
  Slids = {a}
  MeshOf <- MeshOne
  Statuses = {"OK", "SLEEPING", "TRANSMITTING"}
  Inbound <- OneNodeInbound
  Commanded = {a}
  Configs = {{"max_silence"}, {"altitude"}}
  NodeMaxSilence = 2
  MAXSILENCE = 1
  autocreate = TRUE
  SL_ACK_WAIT = 1
  MAX_RESEND_COUNT = 1
  MaxPktNum = 4
SPECIFICATION Spec
INVARIANTS
  TypeOK
  WaitsCoherent
  OnlyTwoReasonsEnd
PROPERTIES
  ImplementsWindow
  OnlyAcksOvertake
  AckedIsStored
  OfflineIsLeftAlone
CHECK_DEADLOCK FALSE
