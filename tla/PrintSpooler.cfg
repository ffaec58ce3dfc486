\* Four clients, three slots of which the server uses two.
CONSTANTS
  Clients = {c1, c2, c3, c4}
  MAX_BUFFER_SIZE = 3
  bufferSize = 2
  NoJob = NoJob
SPECIFICATION Spec
INVARIANTS
  IndInv
  MutualExclusion
  NoOverrun
  PrintedInOrder
  AcceptedOnce
  StopsOnlyWhenDone
  QuietPrinterNeverBlocks
PROPERTIES
  ImplementsQueue
  EveryJobIsPrinted
\* All clients have exited and the printer waits for the next: a legal stop.
CHECK_DEADLOCK FALSE
