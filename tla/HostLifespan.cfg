SPECIFICATION FairSpec
CONSTANTS
  t1 = t1
  t2 = t2
  t3 = t3
  Turn = {t1, t2, t3}
  NoTurn = NoTurn
  Sentinel = Sentinel
  MaxSize = 1
  Environment <- MCEnvironment
INVARIANTS
  TypeOK
  DrainedBeforeClose
PROPERTIES
  ShutdownGetsThrough
CHECK_DEADLOCK FALSE
