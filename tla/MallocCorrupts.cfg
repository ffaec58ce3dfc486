CONSTANTS
  INT_SIZE = 1
  PTR_SIZE = 1
  Base = 3
  HeapLimit = 29
  Requests = {1, 6}
  GROW_EXTRA = 2
  SHRINK_THRESHOLD = 100
  StopAtFault = FALSE
SPECIFICATION Spec
PROPERTIES
  ReturnsFreshMemory
CHECK_DEADLOCK FALSE
