SPECIFICATION Spec
CONSTANTS
  Tasks = {t1, t2}
  First = t1
  Signals <- MCSignals
  Tables <- MCTables
  MAX_SIGNUM = 64
  Installs <- MCInstalls
  Sets <- MCSets
  Timers <- MCTimers
  MaxAge = 2
  MaxCalls = 3
  NoTimer = NoTimer
CHECK_DEADLOCK FALSE
INVARIANTS
  TypeOK
  KillStaysOpen
  MaskComesBack
  NoReentry
  HandlerArgument
PROPERTIES
  SignalIsTaken
  AlarmComes
