CONSTANTS
  s1 = s1
  s2 = s2
  Sids = {s1, s2}
  Keys <- MCKeys
  Matching <- MCMatching
  Ask <- MCAsk
  MaxQueue = 1
  MaxTimers = 1
  MaxLate = 1
  MaxDeleted = 1
SPECIFICATION Spec
INVARIANTS
  TypeOK
  IndexIsCurrent
  RangeIsByRank
  WindowIsRange
  NothingForgotten
  ClientsAreServed
PROPERTIES
  ChangesAreShown
CHECK_DEADLOCK FALSE
