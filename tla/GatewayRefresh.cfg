CONSTANTS
  Name = {anthropic, openai}
  Cfg = {v1, v2}
  Slot = {1, 2}
  Call = {c1, c2}
  Pinned = {c1}
  Patient = {c1}
  Load = {l1, l2}
  None = None
  MaxEdits = 2
SPECIFICATION Spec
INVARIANTS
  InstancesAccounted
  OneSnapshot
  FreshSinceLapse
  DisposedAfterIdle
  OutOfRotationByOwnCircuit
  WaitersHaveLoad
PROPERTIES
  UnchangedKeepInstance
SYMMETRY Symmetric
