SPECIFICATION Spec
CONSTANTS
  d1 = d1
  d2 = d2
  Account = {o, u}
  Dir = {d1, d2}
  RuleSet <- MCRuleSet
  Histories <- MCHistories
  Batches <- MCBatches
  NONE = NONE
  MaxWrite = 3
  MaxId = 0
  MaxTime = 1
  MaxRead = 1
SYMMETRY Symmetry
INVARIANTS
  NonceCountsQueries
  RulesAreTheLast
  ReplicaAgrees
  Ts64Increases
PROPERTIES
  ImplementsQueryLog
  AddCreates
CHECK_DEADLOCK FALSE
