SPECIFICATION Spec
CONSTANTS
  Cells <- MCCells
  SheetOf <- MCSheetOf
  Fills <- MCFills
  NoFill = "none"
  White = "#FFFFFF"
  ChainColor = "#DCEEFB"
  PrimaryColor = "#FFF1C2"
  InitialFills <- MCInitialFills
  Traces <- MCTraces
  MaxClicks = 3
  MaxFailures = 0
  MaxHumanActs = 0
INVARIANTS
  NothingAltered
CHECK_DEADLOCK FALSE
