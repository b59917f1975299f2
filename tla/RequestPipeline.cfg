SPECIFICATION Spec
CONSTANTS
  Atom <- MCAtom
  Mask <- MCMask
  Bare = {"num"}
  MaxInput = 4
  Bounded <- MCBounded
  Stands <- MCStands
  Calls <- MCCalls
  Answer <- MCAnswer
  MaxRetries = 1
  NoPrompt = NoPrompt
  MaxAnswer = 3
CHECK_DEADLOCK FALSE
INVARIANTS
  SentIsGuarded
  AnswerIsFaithful
PROPERTIES
  AbortEndsCall
