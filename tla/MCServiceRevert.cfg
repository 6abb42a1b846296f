SPECIFICATION Spec
CONSTANTS
  Call = {k1, k2}
  Version = {v1, v2}
  First = v1
  Migrates = {v1}
  NONE = NONE
  MaxCrash = 0
SYMMETRY Calls
INVARIANTS
  RevertKeepsEngine
CHECK_DEADLOCK FALSE
