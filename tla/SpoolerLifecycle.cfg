CONSTANTS
  Clients = {c1, c2}
  MAX_BUFFER_SIZE = 2
  bufferSize = 2
  NoJob = NoJob
  MaxBoots = 2
SPECIFICATION LifeSpec
INVARIANTS
  LifeTypeOK
  FirstServerIsSafe
  NoPhantomJob
  CleanBootIsSound
PROPERTIES
  ServedUnlessDisturbed
CHECK_DEADLOCK FALSE
