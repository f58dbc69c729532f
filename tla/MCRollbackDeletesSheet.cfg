SPECIFICATION Spec
CONSTANTS
  Cells <- MCCells
  SheetOf <- MCSheetOf
  RefOf <- MCRefOf
  Broken <- MCBroken
  None = None
  OriginalWorkbook <- MCOriginal
  EditLists <- MCEditLists
  RepairLists <- MCRepairLists
  HumanEdits <- MCHumanEdits
  MaxRepairs = 1
  MaxHumanEdits = 1
PROPERTIES
  HumanWorkOutlivesRollback
CHECK_DEADLOCK FALSE
