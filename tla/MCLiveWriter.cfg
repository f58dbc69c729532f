SPECIFICATION Spec
CONSTANTS
  Cells <- MCCells
  SheetOf <- MCSheetOf
  RefOf <- MCRefOf
  Broken <- MCBroken
  None = None
  OriginalWorkbook <- MCOriginal
  EditLists <- MCEditLists
  HumanEdits <- MCHumanEdits
  Stored <- MCStored
  IncludeNumberFormats = TRUE
  BatchSize = 2
  MaxFailures = 2
  MaxHumanEdits = 3
INVARIANTS
  TypeOK
  RecoveryIsExact
  RollbackIsExact
PROPERTIES
  NoticedEditsSurvive
  ConflictsAreEdits
  CallsEnd
  ImplementsHost
CHECK_DEADLOCK FALSE
