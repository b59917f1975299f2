\* Concurrent calls through retry, breaker and router.
SPECIFICATION FairSpec
CONSTANTS
  Provider = {p1}
  Call = {c1, c2, c3}
  Pinned = {c1}
  WithSignal = {c2}
  FailureThreshold = 2
  HalfOpenRequests = 1
  MaxRetries = 1
  None = None
  Hiccups = {"error", "fatal", "empty", "leave", "block", "abort", "timeout"}
INVARIANTS
  HalfOpenAwaitsVerdict
  TrialsBounded
  OpenedForCause
  OutOfRotationForCause
PROPERTY CallsEnd
