SPECIFICATION Spec
CONSTANTS
  Kinds = {"semaphore", "event flag", "mailbox", "message buffer", "mutex", "fixed pool", "pool", "memory", "port"}
  Tasks = {t1, t2, t3}
  Objects = {o}
  NUM_TSKPRI = 2
  MaxSem = 2
  Bits = {b1, b2}
  Modes <- MC_Modes
  NULL = NULL
  m1 = m1
  m2 = m2
  Messages = {m1, m2}
  MaxMsgPri = 2
  msgsz <- MC_msgsz
  HEADERSZ = 2
  BufSizes = {0, 7}
  ISR = ISR
  Pair = {p1, p2}
  MtxPri = 3
  Attributes = {"TFIFO", "TPRI", "INHERIT", "CEILING"}
  AllowCycle = FALSE
  DATA = DATA
  MaxBlocks = 3
  QUEUESZ = 2
  PoolSizes = {16}
  BlockSizes = {3, 9}
  memsz = 28
  Sizes = {1, 4, 5, 8, 12, 17}
  Few = {u1, u2}
  MaxSize = 1
  MaxRdv = 3
  RdvWrap = 2
SYMMETRY Symmetry
INVARIANTS
  TypeOK
  QueuesExact
  WaitersServed
  StorageExact
  PriorityExact
  RdvPaired
PROPERTIES
  SemExact
  HandedOnce
  HandOver
