SPECIFICATION Spec
CONSTANTS
  Vocabulary = {"i", "it", "task", "was", "have", "not", "cannot", "can", "and", "already", "to", "up", "yesterday", "added", ",", ":", ".", "?"}
  MaxWords = 5
  Now = 10
  deadline_proximity_hours = 2
  Hour = {9, 11, 12, 14}
  Zone <- MCZone
  MaxTasks = 3
INVARIANTS
  NoClaimLeft
  
  ParenthesisKeepsBlocker
  RetrievalExact
CHECK_DEADLOCK FALSE
