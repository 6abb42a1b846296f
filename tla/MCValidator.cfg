SPECIFICATION FairSpec
CONSTANTS
  a1 = a1
  a2 = a2
  Account = {a1, a2}
  Wal <- ThreeQueries
  Attaches = TRUE
  Limit = 1
  MaxMsgs = 2
  MaxSlot = 2
  MaxCrash = 1
INVARIANTS
  SavedSlotIsComplete
  SignersInOrder
  PostedInOrder
  ReplaysWhileAlive
  PostedIsStore
PROPERTIES
  EventuallyPublished
CHECK_DEADLOCK FALSE
