\* One turn with every fault: safety, liveness and the contract.
SPECIFICATION FairSpec
CONSTANTS
  s1 = s1
  s2 = s2
  u1 = u1
  u2 = u2
  r1 = r1
  r2 = r2
  Session = {s1}
  User = {u1, u2}
  UserOf <- Alone
  Req = {r1}
  Conv = {c1}
  None = None
  MaxChunks = 2
  Faults = {"backlog", "lostWrite", "lostRead", "stop"}
CHECK_DEADLOCK FALSE
INVARIANTS
  ClientSeesOneEnd
  ClientReadsWhatIsKept
  AnswerKeptOnce
  BilledOnce
  NothingLeftBehind
  RefusedLeavesNoTrace
  BlameIsRight
PROPERTIES
  KeepsContract
  SendsResolve
  StreamsEnd
  EndedTurnsAreStored
  ShutdownEnds
