CONSTANTS
  a = a
  Slids = {a}
  MeshOf <- MeshOne
  Statuses = {"OK"}
  Inbound <- NodePackets
  Commanded = {a}
  Configs = {}
  NodeMaxSilence = 0
  MAXSILENCE = 0
  autocreate = FALSE
  SL_ACK_WAIT = 0
  MAX_RESEND_COUNT = 1
  MaxPktNum = 3
  MaxInTransit = 2
  MaxLost = 1
  MaxRestarts = 1
SPECIFICATION LinkSpec
INVARIANTS
  LinkTypeOK
PROPERTIES
  RecordedWasTaken
  ConfirmedIsStored
  MuteUntilRestart
  BecomesMuteForAReason
CHECK_DEADLOCK FALSE
