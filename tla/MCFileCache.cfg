SPECIFICATION Spec
CONSTANTS
  Names = {a, b}
  OnDisk = a
  Descs = {d1, d2}
  Fids = {1, 2, 3, 4}
  INODE_CACHE_LIMIT = 1
  BLOCK_SIZE = 2
  NumSlots = 2
  MaxSize = 3
  DiskSize = 3
  Byte = {0, 1, 2}
  Vals = {2}
  Seeks = {0}
  Places = {1}
  MaxMuddles = 1
  Lens = {2}
  Sizes = {0, 1}
  Gone = Gone
  None = None
CHECK_DEADLOCK FALSE
SYMMETRY Symmetry
INVARIANTS
  OpenIsCached
PROPERTIES
  FilesAreShared
