\* Two threads on two files, whose blocks the disk cannot all hold.
CONSTANTS
  NoName = NoName
  Names = {a, b}
  Threads = {t1, t2}
  I_NODE_COUNT = 3
  FILE_DESCRIPTOR_TABLE_SIZE = 2
  BLOCKS_PER_I_NODE = 1
  DISK_BLOCK_SIZE = 2
  DATA_BLOCK_COUNT = 5
  Bytes = {10}
  Lengths = {3}
  Places = {0}
SPECIFICATION FuseSpec
INVARIANTS EveryFdIsHeld
PROPERTIES ActsOnPaths EveryCallbackReturns
CHECK_DEADLOCK FALSE
