SPECIFICATION FairSpec
CONSTANTS
  Key = {a, p}
  Private = {p}
  Val = {v1}
  NULL = NULL
  UNDEF = UNDEF
  MaxWal = 3
INVARIANTS
  WalGapless
  StoreIsReplay
  ReadsLatest
  NoLostFlush
  EventsInOrder
PROPERTIES
  ImplementsCommitLog
  EventuallyDurable
