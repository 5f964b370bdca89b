SPECIFICATION Spec
CONSTANTS
  Tasks = {t1, t2, t3}
  NoTask = NoTask
  NUM_TSKPRI = 2
  Locks = {l1}
  NoLock = NoLock
  INT_MAX = 1
  IniPri = {1}
  IsrSus = FALSE
  TerRunning = FALSE
SYMMETRY Symmetry
INVARIANTS
  TypeOK
  ReadyQueueExact
  NoMissedDispatch
  SuspendNesting
  NoLostWakeup
  TimerMatchesWait
  SchedTop
  LocksExact
  KlocktskReady
PROPERTIES
  FifoOrder
