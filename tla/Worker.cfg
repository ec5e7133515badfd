SPECIFICATION FairSpec
CONSTANTS
  t1 = t1
  t2 = t2
  t3 = t3
  t4 = t4
  p1 = p1
  p2 = p2
  Task = {t1, t2, t3, t4}
  Stopper = {p1, p2}
  NoTask = NoTask
  Sentinel = Sentinel
  MaxSize = 2
  OneThread = TRUE
  Timed = {p1}
INVARIANTS
  TypeOK
  ThreadSurvives
  NobodyStranded
PROPERTIES
  ServiceSpec
  AcceptedSettles
  StopReturns
CHECK_DEADLOCK FALSE
