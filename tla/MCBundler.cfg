SPECIFICATION FairSpec
CONSTANTS
  MaxSlot = 2
  NONE = NONE
  MaxPost = 2
  MaxFail = 2
INVARIANTS
  Accounted
  RecordedIsUploaded
PROPERTIES
  MissingIsRetried
CHECK_DEADLOCK FALSE
