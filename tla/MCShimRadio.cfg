CONSTANTS
  Kinds = {"bridge"}
  NULL = NULL
  Tasks = {t1, t2}
  Takers = {t1, t2}
  Givers = {}
  sem_id = sem_id
  max_cnt = 1
  Alternate = FALSE
  QTasks = {s1, r1, u1}
  Senders = {s1}
  Receivers = {r1}
  Peekers = {u1}
  Items = {a, b}
  cap = 3
  nonempty = nonempty
  nonfull = nonfull
  mtx_id = mtx_id
  MaxDepth = 2
  STasks = {j1, j2}
  Creators = {c1}
  SHIM_TASK_MAX = 2
  Sems = {n1, n2}
  Stacks = {k1, k2}
  flg_id = flg_id
  Bits = {"b0", "b1"}
  Muxes = {"m0", "m1"}
  MaxNest = 4
  Roles = {"ROOT", "NODE"}
  MaxPend = 1
  MaxRare = 0
SPECIFICATION Spec
INVARIANT ScanPaused
