CONSTANTS
  a = a
  b = b
  Slids = {a}
  MeshOf <- MeshOne
  Statuses = {}
  Inbound <- TalkativeInbound
  Commanded = {a}
  Configs = {{"max_silence"}}
  NodeMaxSilence = 2
  MAXSILENCE = 0
  autocreate = FALSE
  SL_ACK_WAIT = 1
  MAX_RESEND_COUNT = 1
  MaxPktNum = 3
SPECIFICATION FairSpec
PROPERTIES
  WaitEnds
  SilenceIsNoticed
CHECK_DEADLOCK FALSE
