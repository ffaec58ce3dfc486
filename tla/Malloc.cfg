\* Room for two small chunks and a large one: the heap grows, splits, merges,
\* shrinks and runs out, and a chunk is added next to a free block.
CONSTANTS
  INT_SIZE = 1
  PTR_SIZE = 1
  Base = 3
  HeapLimit = 39
  Requests = {1, 6}
  GROW_EXTRA = 2
  SHRINK_THRESHOLD = 12
  StopAtFault = TRUE
SPECIFICATION Spec
VIEW View
INVARIANTS
  TypeOK
  BlocksTileTheHeap
  BlocksAreLargeEnough
  ListIsSorted
PROPERTIES
  FreeingMerges
  StaysInTheHeap
CHECK_DEADLOCK FALSE
