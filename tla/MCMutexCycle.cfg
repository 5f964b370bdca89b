SPECIFICATION Spec
CONSTANTS
  Tasks = {t1, t2, t3}
  Objects = {m1, m2}
  NUM_TSKPRI = 2
  NULL = NULL
  Attributes = {"INHERIT"}
  AllowCycle = TRUE
SYMMETRY Symmetry
INVARIANT DormantUnlinked
