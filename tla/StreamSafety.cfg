SPECIFICATION Spec
CONSTANTS
  c1 = c1
  c2 = c2
  s1 = s1
  s2 = s2
  Conn = {c1, c2}
  Sid = {s1, s2}
  NoConn = NoConn
  NoSid = NoSid
  MaxQueue = 1
  MaxChunks = 1
  StoreMayFail = TRUE
SYMMETRY Symmetry
INVARIANTS
  TypeOK
  RegistryConsistent
  UtterancesOwned
  EdgeAgrees
  OneRowPerSession
PROPERTIES
  NoAnswerAfterEnd
  LifecycleSpec
