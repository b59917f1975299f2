\* A provider fails, then works again.
SPECIFICATION DemandSpec
CONSTANTS
  Provider = {p1}
  Call = {c1}
  Pinned = {}
  WithSignal = {c1}
  FailureThreshold = 1
  HalfOpenRequests = 1
  MaxRetries = 0
  None = None
  Hiccups = {"error"}
CHECK_DEADLOCK FALSE
PROPERTY OpenCircuitIsRetried
