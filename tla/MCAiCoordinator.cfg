SPECIFICATION Spec
CONSTANTS
  q1 = q1
  q2 = q2
  q3 = q3
  MaxCalls = 4
  Questions <- MCQuestions
  Keys <- MCKeys
  contentHash <- MCHash
  BUDGET = 2
  BatchSize = 2
  MaxCycles = 2
  NoCall = NoCall
  NoValue = NoValue
INVARIANTS
  TypeOK
  InflightExact
  OneOwner
  NoRepurchase
  BudgetPerCycle
  QueueIsDriven
  OwnAnswer
PROPERTIES
  RefusedOnlyWhenSpent
  ImplementsService
  EveryCellSettles
CHECK_DEADLOCK FALSE
