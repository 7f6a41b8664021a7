CONSTANTS
  p1 = p1
  p2 = p2
  Packets <- MCPackets
  FLUSHWAIT = 3
SPECIFICATION Spec
INVARIANTS
  TypeOK
  LossIsRecent
  CleanStopsKeepAcked
  HearsUntilLinkLost
PROPERTIES
  AckedIsFlushed
  StopsWhenAsked
