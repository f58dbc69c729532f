SPECIFICATION Spec
CONSTANTS
  Cells <- MCCells
  SheetOf <- MCSheetOf
  RefOf <- MCRefOf
  Broken <- MCBroken
  None = None
  OriginalWorkbook <- MCOriginal
  EditLists <- MCEditLists
  RepairLists <- MCRepairLists
  HumanEdits <- MCHumanEdits
  MaxRepairs = 2
  MaxHumanEdits = 1
INVARIANTS
  TypeOK
PROPERTIES
  AppliedOnlyOnWhatWasRead
  ConsentCoversWrites
  RollbackYieldsToLaterEdits
  RollbackIsExact
  RecalculationIsNoEdit
  RunEnds
CHECK_DEADLOCK FALSE
