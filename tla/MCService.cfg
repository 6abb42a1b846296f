SPECIFICATION Spec
CONSTANTS
  Call = {k1, k2, k3}
  Version = {v1, v2}
  First = v1
  Migrates = {v1}
  NONE = NONE
  MaxCrash = 1
SYMMETRY Calls
INVARIANTS
  AnswerIsTrue
  SequentialSucceeds
  EngineFits
CHECK_DEADLOCK FALSE
