----------------------------- MODULE MCAgentRun -----------------------------
(* TLC instance of AgentRun: sheet S1 holds the constant a1, the formula b1   *)
(* that reads it and the empty c1; d1 would be on the sheet S2 not there yet. *)
EXTENDS AgentRun, TLC

MCCells == {"a1", "b1", "c1", "d1"}
MCSheetOf == [c \in MCCells |-> IF c = "d1" THEN "S2" ELSE "S1"]
MCRefOf == ("=a1" :> "a1") @@ ("=a1/0" :> "a1")
MCBroken == {"=a1/0"}

constant(v) == [absent |-> FALSE, formula |-> None, value |-> v, format |-> None]

MCOriginal ==
  [sheets |-> {"S1"},
   cells |-> ("a1" :> constant("1"))
          @@ ("b1" :> [absent |-> FALSE, formula |-> "=a1", value |-> "1", format |-> "0.0"])
          @@ ("c1" :> Absent) @@ ("d1" :> Absent),
   names |-> ("Rate" :> "a1")]

set(c, v) == [kind |-> "setValue", cell |-> c, to |-> v]
formula(c, f) == [kind |-> "setFormula", cell |-> c, to |-> f]
percent(c) == [kind |-> "setNumberFormat", cell |-> c, to |-> "0%"]
clear(c) == [kind |-> "clear", cell |-> c]
create(s) == [kind |-> "createSheet", sheet |-> s]
define(n, r) == [kind |-> "defineName", name |-> n, to |-> r]

MCEditLists ==
  { <<>>,
    <<percent("b1")>>,
    <<formula("b1", "=a1/0"), define("Rate", "b1")>>,
    <<set("c1", "5"), percent("b1")>>,
    <<create("S2")>>,
    <<set("d1", "5")>> }

MCRepairLists ==
  { <<formula("b1", "=a1")>>,
    <<clear("c1")>>,
    <<define("Rate", "c1"), define("Rate", "b1")>>,
    <<create("S2"), set("d1", "6")>>,
    <<set("d1", "7"), create("S2")>>,
    <<set("d1", "7")>> }

MCHumanEdits ==
  { set("a1", "2"), set("b1", "3"), set("c1", "5"), set("c1", "4"), clear("c1"),
    set("d1", "8"), define("Rate", "c1"), percent("c1"),
    [kind |-> "deleteSheet", sheet |-> "S2"] }
=============================================================================
