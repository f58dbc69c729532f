SPECIFICATION Spec
CONSTANTS
  Cells <- MCCells
  SheetOf <- MCSheetOf
  RefOf <- MCRefOf
  Broken <- MCBroken
  None = None
  OriginalWorkbook <- MCOriginal
  EditLists <- MCEditLists
  HumanEdits <- MCHumanEdits
  Stored <- MCStored
  IncludeNumberFormats = TRUE
  BatchSize = 2
  MaxFailures = 0
  MaxHumanEdits = 1
PROPERTIES
  RollbackKeepsHumanEdits
CHECK_DEADLOCK FALSE
