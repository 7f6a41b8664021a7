CONSTANTS
  MaxPktNum = 4
  MaxItems = 6
  MaxCopies = 3
  MaxNodeRestarts = 1
  MaxStoreRestarts = 1
SPECIFICATION Spec
INVARIANTS
  TypeOK
  AckedIsInDatabase
  StoredOnce
  MissedIsExact
CHECK_DEADLOCK FALSE
