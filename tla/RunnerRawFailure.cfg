SPECIFICATION Spec
CONSTANTS
  t1 = t1
  t2 = t2
  Turn = {t1, t2}
  NoTurn = NoTurn
  StoreMayFail = TRUE
INVARIANTS
  FailuresTranslated
CHECK_DEADLOCK FALSE
