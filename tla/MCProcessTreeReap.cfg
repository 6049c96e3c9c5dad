SPECIFICATION Spec
CONSTANTS
  MaxPid = 3
  Threads = FALSE
  Sigs = {}
  WaitPids <- AnyOnly
INVARIANTS
  ReapedIsUnreferenced
