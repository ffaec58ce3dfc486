CONSTANTS
  NoName = NoName
  Names = {a, b}
  I_NODE_COUNT = 2
  FILE_DESCRIPTOR_TABLE_SIZE = 2
  BLOCKS_PER_I_NODE = 1
  DISK_BLOCK_SIZE = 2
  DATA_BLOCK_COUNT = 5
  Bytes = {10}
  Lengths = {3}
  Places = {0}
SPECIFICATION SoundSpec
INVARIANTS OneFdPerFile
PROPERTIES IsFileStore
