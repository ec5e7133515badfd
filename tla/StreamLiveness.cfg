SPECIFICATION FairSpec
CONSTANTS
  c1 = c1
  c2 = c2
  s1 = s1
  Conn = {c1, c2}
  Sid = {s1}
  NoConn = NoConn
  NoSid = NoSid
  MaxQueue = 1
  MaxChunks = 1
  StoreMayFail = TRUE
PROPERTIES
  SubmittedReleased
  IdleReclaimed
  LifecycleFair
