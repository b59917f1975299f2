SPECIFICATION Spec
CONSTANTS
    None = None
    c1 = c1
    Socket <- MCSocket
    Send <- MCSend
    CloseCode = {"auth", "lost"}
    AuthFailLimit = 2
    OldConv = {c1}
    MaxText = 1
    MaxAhead = 2
    MaxActs = 3
CHECK_DEADLOCK FALSE
INVARIANTS
    RepliesFindTheirDraft
    OneLifeline
    ThreadIsActive
PROPERTIES
    BusyEnds
