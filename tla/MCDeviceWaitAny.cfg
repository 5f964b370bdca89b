CONSTANTS
  Kinds = {"requests"}
  Tasks = {t1, t2, t3}
  NULL = NULL
  Opns = {o1, o2}
  Reqs = {r1, r2}
  OpenModes = {{"READ", "WRITE"}, {"READ", "REXCL"}}
  nsub = 11
  Units = {0, 11, 12}
  MAX_DISSUS = 1
  AllowAny = TRUE
  lock_id = lock_id
  Nos = {0, 1}
  Pair = {p1, p2}
  SerModes = {{"snd"}, {"rcv"}}
  N = 2
  BUFFSIZE = 3
  FIFO = 3
  RXFIFO = 2
  MaxReq = 3
  MaxWup = 1
SPECIFICATION Spec
SYMMETRY Symmetry
INVARIANT
  CompletedUnregistered
