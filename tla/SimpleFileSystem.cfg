CONSTANTS
  NoName = NoName
  Names = {a, b}
  I_NODE_COUNT = 2
  FILE_DESCRIPTOR_TABLE_SIZE = 1
  BLOCKS_PER_I_NODE = 1
  DISK_BLOCK_SIZE = 2
  DATA_BLOCK_COUNT = 4
  Bytes = {10}
  Lengths = {3}
  Places = {}
SPECIFICATION CrashSpec
SYMMETRY NameSymmetry
INVARIANTS TypeOK NoBlockShared ZeroIsNoDataBlock DirectoryIsSound
