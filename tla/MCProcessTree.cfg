SPECIFICATION FairSpec
CONSTANTS
  MaxPid = 3
  Threads = TRUE
  Sigs = {"KILL"}
  WaitPids <- AnyOrTwo
INVARIANTS
  TypeOK
  ParentListsChild
  OneLiveOwner
PROPERTIES
  WaitReturns
