SPECIFICATION Spec
CONSTANTS
  NumSlots = 3
  SlotsPerClus = 2
  LastCluster = 4
  ClusterSize = 2
  MaxSize = 3
  Writes <- MCWrites
  Sizes = {0, 1, 3}
  MaxChain = 2
  Byte = {0, 1}
  MaxMounts = 1
  Gone = Gone
CHECK_DEADLOCK FALSE
INVARIANTS
  TypeOK
  ChainsApart
  FreeIsFree
  HandleHasChain
  NothingLeaks
  ScanFinds
PROPERTIES
  FilesArePrivate
