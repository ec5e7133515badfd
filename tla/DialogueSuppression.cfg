SPECIFICATION Spec
CONSTANTS
  t1 = t1
  t2 = t2
  t3 = t3
  u1 = u1
  u2 = u2
  Turn = {t1, t2, t3}
  NoTurn = NoTurn
  User = {u1, u2}
  Intent = {"snooze_reminder", "ask_status"}
  StoredLead = {15}
  LeadMin = 5
  LeadMax = 60
  StoreMayFail = TRUE
SYMMETRY Symmetry
INVARIANTS
  SuppressedForDelivered
CHECK_DEADLOCK FALSE
