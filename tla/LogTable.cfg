CONSTANTS
  MaxLines = 8
  Keys <- MCKeys
  Matching <- MCMatching
  max_log_records = 3
  Extra = 1
  max_entries = 3
  to_prune = 1
  Shows <- MCShows
  MaxWaiting = 4
SPECIFICATION Spec
INVARIANTS
  TypeOK
  ShownIsCached
  StuckOnlyIfLarge
PROPERTIES
  CacheIsBounded
  PruneRestoresLimit
CHECK_DEADLOCK FALSE
