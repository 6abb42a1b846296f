SPECIFICATION FreshSpec
CONSTANTS
  Account = {a1}
  FirstPage = 100
  Limit = 20
  MaxLog = 3
  MaxSlot = 3
  MaxCrash = 0
  MaxLoop = 1
INVARIANTS
  FreshHasEverything
CHECK_DEADLOCK FALSE
