---------------------------- MODULE MCLiveWriter ----------------------------
(* TLC instance of LiveWriter: sheet S1 holds the constant a1, the formula b1 *)
(* and the blank c1; d1 and e1 would be on the sheet S2 not there yet.        *)
EXTENDS LiveWriter, TLC

MCCells == {"a1", "b1", "c1", "d1", "e1"}
MCSheetOf == [c \in MCCells |-> IF c \in {"d1", "e1"} THEN "S2" ELSE "S1"]
MCRefOf == [f \in {} |-> "a1"]
MCBroken == {}

cell(f, v) == [absent |-> FALSE, formula |-> f, value |-> v, format |-> "General"]
blank == [absent |-> TRUE, formula |-> None, value |-> Null, format |-> "General"]

MCOriginal ==
  [sheets |-> {"S1"},
   cells |-> ("a1" :> cell(None, "1")) @@ ("b1" :> cell("=a1", Null))
          @@ ("c1" :> blank) @@ ("d1" :> blank) @@ ("e1" :> blank),
   names |-> ("Rate" :> "a1")]

\* Excel turns the text 1/2 into a date.
MCStored == [v \in {"1", "5", "6", "8"} |-> v] @@ ("1/2" :> "date")

set(c, v) == [kind |-> "setValue", cell |-> c, to |-> v]
formula(c, f) == [kind |-> "setFormula", cell |-> c, to |-> f]
percent(c) == [kind |-> "setNumberFormat", cell |-> c, to |-> "0%"]
clear(c) == [kind |-> "clear", cell |-> c]
create(s) == [kind |-> "createSheet", sheet |-> s]
define(n, r) == [kind |-> "defineName", name |-> n, to |-> r]

MCEditLists ==
  { <<set("a1", "5"), formula("b1", "=c1"), set("c1", "1/2")>>,
    <<define("Rate", "b1"), define("Rate", "c1"), percent("a1"), clear("b1")>>,
    <<set("a1", "6"), define("Rate", "b1"), create("S2"), set("d1", "6")>> }

MCHumanEdits ==
  { set("a1", "8"), set("a1", "5"), set("c1", "8"), set("d1", "8"), set("e1", "8"),
    formula("b1", "=a1+1"), define("Rate", "d1"), create("S2"),
    [kind |-> "deleteSheet", sheet |-> "S2"] }
=============================================================================
