SPECIFICATION FairSpec
CONSTANTS
  Tasks = {init, t1, t2}
  INITPROC = init
  NoTask = NoTask
  NoAddr = NoAddr
  UsizeMax = 9
  Addrs = {a1}
  Ctids = {a1}
  Sigs = {"KILL"}
  Durations = {0, 1}
  Timeouts = {1, 9}
  MaxTime = 1
  MaxWaiters = 2
INVARIANTS
  ExactlyOnePlace
PROPERTIES
  SleeperRuns
  ReadyRuns
  FutexWaitEnds
