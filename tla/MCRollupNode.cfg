SPECIFICATION FairSpec
CONSTANTS
  Account = {a1}
  FirstPage = 100
  Limit = 20
  MaxLog = 2
  MaxSlot = 4
  MaxCrash = 2
  MaxLoop = 2
INVARIANTS
  ShippedIsDurable
  NoReplayedQuery
  ShippedOnce
PROPERTIES
  RecoveryIsIdempotent
  ImplementsWalFeed
  EventuallyShipped
CHECK_DEADLOCK FALSE
