SPECIFICATION Spec
CONSTANTS
  x = x
  y = y
  Id = {1, 2}
  Field = {x, y}
  Value = {v1, v2}
  Compound <- MCCompound
  RangeCap = 1
  Key = {t1, t2}
  Trigger <- MCTrigger
  NONE = NONE
SYMMETRY Symmetry
INVARIANTS
  IndexIsExact
