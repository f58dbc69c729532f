SPECIFICATION Spec
CONSTANTS
  Cells <- MCCells
  SheetOf <- MCSheetOf
  RefOf <- MCRefOf
  Broken <- MCBroken
  None = None
  OriginalWorkbook <- MCOriginal
  EditLists <- MCEditLists
  HumanEdits <- MCHumanEdits
  Stored <- MCStored
  IncludeNumberFormats = TRUE
  BatchSize = 2
  MaxFailures = 1
  MaxHumanEdits = 0
INVARIANTS
  NeverHalfChanged
CHECK_DEADLOCK FALSE
