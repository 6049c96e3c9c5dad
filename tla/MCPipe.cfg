CHECK_DEADLOCK FALSE
SPECIFICATION FairSpec
CONSTANTS
  N = 2
  Bytes = {0, 1}
  Tasks = {t1, t2, t3}
  Root = t1
  NoTask = NoTask
  ReadLens = {1}
  WriteBufs <- Bufs
INVARIANTS
  TypeOK
  RingConsistent
  BudgetFits
PROPERTIES
  IsQueue
  EofIsFinal
  WriteIsComplete
  ReaderSeesEof
