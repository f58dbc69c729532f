-------------------------- MODULE MCTraceHighlight --------------------------
(* TLC instance of TraceHighlight: two sheets, and two findings whose chains *)
(* share cells, one listing its primary cell and a cell twice.               *)
EXTENDS TraceHighlight

MCCells == {"a", "b", "x"}
MCSheetOf == [c \in MCCells |-> IF c = "x" THEN "S2" ELSE "S1"]
MCFills == {"none", "#FFFFFF", "#FF0000"}

MCInitialFills ==
  { [c \in MCCells |-> CASE c = "a" -> "#FF0000" [] c = "b" -> "none" [] c = "x" -> "#FFFFFF"] }

MCTraces == { [primary |-> "a", chain |-> <<"b", "x", "b", "a">>],
              [primary |-> "x", chain |-> <<"b">>] }
=============================================================================
