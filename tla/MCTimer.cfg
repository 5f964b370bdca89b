SPECIFICATION Spec
CONSTANTS
  Tasks = {t1}
  Cycs = {c}
  Alms = {a}
  M = 16
  TIMER_PERIOD = 1
  TMO_FEVR = TMO_FEVR
  RelTimes = {0, 1, 3, 7}
  Phases = {0, 5}
INVARIANTS
  TypeOK
  TimesExact
  QueueInOrder
  LeftTimeExact
PROPERTY
  FiresOnTime
