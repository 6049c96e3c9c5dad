SPECIFICATION Spec
CONSTANTS
  Tasks = {init, t1, t2}
  INITPROC = init
  NoTask = NoTask
  NoAddr = NoAddr
  UsizeMax = 9
  Addrs = {a1, a2}
  Ctids = {NoAddr}
  Sigs = {"USR"}
  Durations = {}
  Timeouts = {1, 9}
  MaxTime = 1
  MaxWaiters = 3
PROPERTIES
  WakeReachesWaiters
