SPECIFICATION Spec
CHECK_DEADLOCK FALSE
CONSTANTS
  Id <- MCId
  AtFirst <- MCAtFirst
  AddOver <- MCAddOver
  Patient = TRUE
  PageSize = 2
  MaxFlight = 3
  MaxWrites = 2
  MaxMoves = 2
  MaxFaults = 1
  MaxSessions = 1
  Spent <- MCSpent
INVARIANTS
  ShownIsTrue
  NothingHangs
