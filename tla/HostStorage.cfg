SPECIFICATION Spec
CONSTANTS
  r1 = r1
  r2 = r2
  r3 = r3
  Request = {r1, r2, r3}
  Source = {"s1", "s2"}
  Key <- MCKey
  SourceOf <- MCSourceOf
  Starter = {"loop", "tool"}
  NoOne = "nobody"
  OldRow = {"old"}
  NullRow = {"degraded"}
  MaxCrash = 2
SYMMETRY Symmetry
INVARIANTS
  TypeOK
  OneTaskPerKey
  AnswersStand
  TraceSurvives
PROPERTIES
  LedgerSpec
CHECK_DEADLOCK FALSE
