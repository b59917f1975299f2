\* A socket closes while handleChatSend awaits.
SPECIFICATION Spec
CONSTANTS
  s1 = s1
  s2 = s2
  u1 = u1
  u2 = u2
  r1 = r1
  r2 = r2
  Session = {s1}
  User = {u1, u2}
  UserOf <- Alone
  Req = {r1}
  Conv = {c1}
  None = None
  MaxChunks = 1
  Faults = {}
CHECK_DEADLOCK FALSE
INVARIANT ClosedMeansAborted
