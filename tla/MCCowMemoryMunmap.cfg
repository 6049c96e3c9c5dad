SPECIFICATION Spec
CONSTANTS
  Spaces = {ip, bb, s1}
  INITPROC = ip
  BUSYBOX = bb
  Frames = {f1, f2, f3, f4, f5}
  NoFrame = NoFrame
  TextPages = {}
  DataPages = {1}
  TrapPages = {}
  LazyPages = {2}
  ArgPages = {2}
  MmapStart = 3
  MmapEnd = 3
  MmapAddrs = {0}
  Writable = {TRUE, FALSE}
  MmapInits = {0}
  ProtPages = {3}
  Byte = {0, 1}
  ElfByte = 1
  Hole = Hole
  Gone = Gone
  RefMod = 256
  Readers = {r1}
  NoBuf = NoBuf
  Calls = {"munmap"}
SYMMETRY Symmetry
INVARIANTS
  UnmappedIsInaccessible
