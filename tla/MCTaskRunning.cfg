SPECIFICATION Spec
CONSTANTS
  Tasks = {t1, t2, t3}
  NoTask = NoTask
  NUM_TSKPRI = 2
  Locks = {}
  NoLock = NoLock
  INT_MAX = 1
  IniPri = {0, 1}
  IsrSus = TRUE
  TerRunning = FALSE
SYMMETRY Symmetry
INVARIANTS
  RunningExecutable
