SPECIFICATION Spec
CONSTANTS
  q1 = q1
  q2 = q2
  q3 = q3
  MaxCalls = 2
  Questions <- MCQuestions
  Keys <- MCKeys
  contentHash <- MCHash
  BUDGET = 2
  BatchSize = 2
  MaxCycles = 1
  NoCall = NoCall
  NoValue = NoValue
INVARIANTS
  FailuresNotCached
CHECK_DEADLOCK FALSE
