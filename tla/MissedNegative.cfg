CONSTANTS
  MaxPktNum = 4
  MaxItems = 6
  MaxCopies = 3
  MaxNodeRestarts = 1
  MaxStoreRestarts = 1
SPECIFICATION Spec
INVARIANT
  MissedIsACount
CHECK_DEADLOCK FALSE
