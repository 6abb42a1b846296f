SPECIFICATION FairSpec
CONSTANTS
  NMsg = 2
  NONE = NONE
  MaxSlot = 3
  MaxFail = 2
INVARIANTS
  EffectsFollowLog
  DoneIsComplete
  OnceWhileNothingFails
PROPERTIES
  EventuallySent
CHECK_DEADLOCK FALSE
