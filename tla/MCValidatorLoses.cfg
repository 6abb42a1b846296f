SPECIFICATION Spec
CONSTANTS
  a1 = a1
  a2 = a2
  Account = {a1, a2}
  Wal <- ThreeQueries
  Attaches = TRUE
  Limit = 1
  MaxMsgs = 2
  MaxSlot = 2
  MaxCrash = 1
INVARIANTS
  ReplaysWholeLog
CHECK_DEADLOCK FALSE
