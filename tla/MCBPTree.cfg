SPECIFICATION Spec
CONSTANTS
  Key <- Keys
  Order = {3, 4}
INVARIANTS
  EveryKeyIsFound
  IsBalanced
  RangeIsExact
CHECK_DEADLOCK FALSE
