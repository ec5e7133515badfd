SPECIFICATION FairSpec
CONSTANTS
  t1 = t1
  t2 = t2
  t3 = t3
  Turn = {t1, t2, t3}
  NoTurn = NoTurn
  StoreMayFail = TRUE
INVARIANTS
  TypeOK
  OneSynthesis
  OwnAudio
  TraceTellsOutcome
PROPERTIES
  PromiseSpec
  TurnEnds
CHECK_DEADLOCK FALSE
