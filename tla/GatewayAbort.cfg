\* Callers abort; nothing else goes wrong.
SPECIFICATION FairSpec
CONSTANTS
  Provider = {p1}
  Call = {c1}
  Pinned = {}
  WithSignal = {c1}
  FailureThreshold = 1
  HalfOpenRequests = 1
  MaxRetries = 0
  None = None
  Hiccups = {"abort"}
CHECK_DEADLOCK FALSE
INVARIANT AbortIsNoFault
