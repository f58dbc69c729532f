SPECIFICATION Spec
CONSTANTS
  MaxRuns = 3
  MaxLog = 2
  MaxGiveUps = 2
  Stores <- MCStores
  NoSession = NoSession
INVARIANTS
  TypeOK
  AckIsRecorded
  ResolvedOnce
  NoInventedOutcome
PROPERTIES
  EveryRunEnds
CHECK_DEADLOCK FALSE
