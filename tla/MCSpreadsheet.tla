----------------------------- MODULE MCSpreadsheet -----------------------------
(* The scenes TLC plays. A formula is written as its words, cells are named by *)
(* their address.                                                              *)
EXTENDS Spreadsheet

Operators == {"+", "-", "*", "/", "^", "&", "=", "<>", "<", "<=", ">", ">=", "%", "@", "#",
              "(", ")", "{", "}", ",", ";", ":", "!"}
Grid == {Address(r, c, ra, ca) : r \in 0 .. 5, c \in 0 .. 5, ra, ca \in BOOLEAN}
Places ==
  LET merged(functions) == FoldSet(LAMBDA f, g : f @@ g, [x \in {} |-> <<>>], functions)
      row(r, ra, ca) == merged({cellText(Address(r, c, ra, ca)) :> Address(r, c, ra, ca) : c \in 0 .. 5})
  IN merged({merged({row(r, ra, ca) : r \in 0 .. 5}) : ra, ca \in BOOLEAN})
Digits == [n \in {ToString(i) : i \in 0 .. 100} |-> CHOOSE i \in 0 .. 100 : ToString(i) = n]
Errors == {"#N/A", "#REF!", "#DIV/0!"}
Lexeme(x) ==
  IF x \in Operators THEN Op(x)
  ELSE IF x = " " THEN Space
  ELSE IF x \in Errors THEN ErrorToken(x)
  ELSE IF x \in DOMAIN Digits THEN NumberToken(Digits[x])
  ELSE IF x \in DOMAIN Places THEN CellToken(Places[x])
  ELSE Word(x)
Lexemes(words) == {Lexeme(x) : x \in words}
F(words) == [i \in DOMAIN words |-> Lexeme(words[i])]

On(sheet, x) == <<sheet, Places[x].row, Places[x].col>>
At1(x) == On("Model", x)
\* What is at these addresses of the sheet Model.
Cells1(contents) ==
  [p \in {At1(x) : x \in DOMAIN contents} |-> contents[cellText(Relative(p[2], p[3]))]]
Formulas1(contents) == Cells1([x \in DOMAIN contents |-> F(contents[x])])
NoFormulas == [p \in {} |-> <<>>]
Nowhere == [p \in {} |-> {}]

Draft(values, formulas) ==
  [sheets |-> <<"Model">>, values |-> Cells1(values), formulas |-> formulas,
   names |-> <<>>, tables |-> <<>>]
Empty == Draft(Nowhere, NoFormulas)

Quiet == [lexicon |-> {}, length |-> 0, drafts |-> {Empty}, cells |-> {}, texts |-> {},
          values |-> {}, fills |-> {}, sheets |-> {}, renames |-> {}, names |-> {}, tables |-> {},
          budget |-> 0, twins |-> {}]

Typing(lexicon, length) == [Quiet EXCEPT !.lexicon = lexicon, !.length = length]

Arith == Typing(Lexemes({"A1", "2", "-", "^", "%", "(", ")", "@", ",", "<"}), 5)
Refs == Typing(Lexemes({"A1", "$B2", "A", "2", ":", " ", "!", "Sales"})
               \union {ColToken(1), QuotedToken(<<"My Data">>)}, 5)
\* Words that are columns up to XFD and none from XFE, and cells on both sides.
Edge == Typing(Lexemes({"x", "Tax", "XFD", "XFE", ":", ","})
               \union {CellToken(a) : a \in {Relative(0, 16381), Relative(0, 16383), Relative(0, 16384),
                                            Address(0, 16384, TRUE, TRUE)}}, 4)
Calls == Typing(Lexemes({"SUM", "LAMBDA", "LOG10", "x", "(", ")", ",", "1", "#"}), 5)
Arrays == Typing(Lexemes({"{", "}", ",", ";", "1", "-", "true", " "}) \union {StringToken("x")}, 5)

Inside == UNION {[1 .. n -> {"[", "]", "#", ",", ":", "@", "'", "Rate", "All", " "}] : n \in 1 .. 4}
Balanced(v) ==
  LET chars == escapeAwareChars(v)
  IN Depth(chars, Len(chars)) = 0 /\ \A i \in 1 .. Len(chars) : Depth(chars, i) >= 0
Parts == {<<"Rate">>, <<"[", "Rate", "]">>, <<"#", "All">>, <<"[", "#", "All", "]">>,
          <<"[", "#", "This Row", "]">>, <<"[", "Rate", "]", ":", "[", "Base", "]">>}
Composed == {at \o Join(parts, ",") : at \in {<<>>, <<"@">>}, parts \in UNION {[1 .. n -> Parts] : n \in 1 .. 3}}
Brackets == Typing({BracketToken(v) : v \in Composed \union {v \in Inside : Balanced(v) /\ Last(v) # "'"}}, 1)

Tiny == Draft([A1 |-> Num(1), A2 |-> Num(2), A3 |-> Num(3), B1 |-> Num(4), B2 |-> Num(5)], Nowhere)
Cs(xs) == {At1(x) : x \in xs}

Fills == [Quiet EXCEPT !.drafts = {Tiny}, !.cells = Cs({"B1", "C1", "C2"}),
  !.texts = {F(<<"A1", "+", "B1">>), F(<<"SUM", "(", "A1", ":", "A2", ")">>), F(<<"SUM", "(", "A$1", ":", "A1", ")">>),
             F(<<"SUM", "(", "$A1", ":", "B1", ")">>), F(<<"SUM", "(", "A1", ":", "B$2", ")">>)},
  !.values = {Num(9)}, !.fills = {<<2, 0>>, <<1, 1>>}, !.budget = 2]

Cycles == [Quiet EXCEPT
  !.drafts = {Draft([A1 |-> Num(1), B2 |-> Num(2)], Formulas1([D1 |-> <<"SUM", "(", "A1", ":", "B2", ")">>, E1 |-> <<"D1", "+", "A2">>]))},
  !.cells = Cs({"A1", "B1", "A2"}),
  !.texts = {F(<<"A1">>), F(<<"B2", "+", "A1">>), F(<<"SUM", "(", "A1", ":", "B1", ")">>),
             F(<<"IF", "(", "A2", ">", "1", ",", "B1", ",", "D1", ")">>)},
  !.values = {Num(3)}, !.fills = {<<1, 0>>}, !.budget = 2]

Named(s, scope, words) == [s |-> s, scope |-> scope, text |-> F(words)]
SalesTable == [s |-> "Sales", sheet |-> "Model", startRow |-> 2, endRow |-> 4, startCol |-> 0, endCol |-> 1,
               headerRow |-> 2, hasTotals |-> TRUE, columns |-> <<<<"Rate">>, <<"Base">>>>]
Sales(v) == <<Word("Sales"), BracketToken(v)>>

Naming == [Quiet EXCEPT
  !.drafts = {[sheets |-> <<"Model", "Data">>,
     values |-> Cells1([A1 |-> Num(1), A2 |-> Num(2)]) @@ (On("Data", "A1") :> Num(5)) @@ (On("Data", "B1") :> Num(6)),
     formulas |-> Formulas1([C1 |-> <<"Rate", "+", "A2">>, C2 |-> <<"Data", "!", "A1", "+", "1">>,
                             C3 |-> <<"SUM", "(", "Model", ":", "Data", "!", "A1", ")">>, C4 |-> <<"Total">>])
                  @@ (On("Data", "C1") :> F(<<"Rate">>)),
     names |-> <<Named("Rate", None, <<"Model", "!", "$A$1">>), Named("Total", None, <<"SUM", "(", "Rate", ",", "Model", "!", "C2", ")">>)>>,
     tables |-> <<>>]},
  !.cells = {At1("A1"), At1("C2"), On("Data", "A1")},
  !.texts = {F(<<"Rate", "+", "1">>), F(<<"Data", "!", "$A:$A">>), F(<<"SUM", "(", "Input", "!", "A1", ":", "B1", ")">>)},
  !.values = {Num(8)}, !.fills = {},
  !.sheets = {"Data", "Extra"}, !.renames = {<<"Data", "Input">>},
  !.names = {Named("Rate", None, <<"Data", "!", "$B$1">>), Named("Rate", "Model", <<"$A$2">>), Named("Total", None, <<"Total">>)},
  !.budget = 2]

Tables == [Quiet EXCEPT
  !.drafts = {[Draft([A4 |-> Num(1), A5 |-> Num(3), B4 |-> Num(2), A3 |-> Txt("A"), B3 |-> Txt("B")],
                     Formulas1([D1 |-> <<"A4", "+", "1">>])) EXCEPT !.tables = <<SalesTable>>]},
  !.cells = Cs({"C4", "C5", "A4"}),
  !.texts = {Sales(<<"@", "Rate">>), <<BracketToken(<<"@", "Base">>)>>, F(<<"SUM", "(">>) \o Sales(<<"Rate">>) \o F(<<")">>),
             F(<<"SUM", "(">>) \o Sales(<<"#", "All">>) \o F(<<")">>), F(<<"SUM", "(">>) \o Sales(<<"[", "#", "Totals", "]", ",", "[", "Rate", "]", ":", "[", "Base", "]">>) \o F(<<")">>)},
  !.values = {Num(9)}, !.fills = {<<1, 0>>}, !.tables = {"Sales"}, !.budget = 2]

Faults == [Quiet EXCEPT
  !.drafts = {Draft([A1 |-> Num(1), A2 |-> Num(0), E2 |-> Txt("check")],
                    Formulas1([F2 |-> <<"B1", "-", "B2">>]))},
  !.cells = Cs({"A2", "B1", "B2", "C1"}),
  !.texts = {F(<<"7", "/", "A2">>), F(<<"B1", "+", "B2">>), F(<<"IFERROR", "(", "B1", ",", "7", ")">>), F(<<"SUM", "(", "A1", ":", "B2", ")">>)},
  !.values = {Err("#N/A"), Num(0)}, !.fills = {<<1, 0>>}, !.budget = 2]

Scoped == [Quiet EXCEPT
  !.drafts = {[Draft([A1 |-> Num(1), A2 |-> Num(2)], Formulas1([D1 |-> <<"A1", "+", "1">>]))
       EXCEPT !.names = <<Named("Rate", None, <<"$A$2">>)>>]},
  !.cells = Cs({"B1", "B2", "A1"}),
  !.texts = {F(<<"LET", "(", "x", ",", "A1", ",", "x", "+", "Rate", ")">>),
             F(<<"LAMBDA", "(", "x", ",", "x", "+", "A2", ")", "(", "B1", ")">>),
             F(<<"SUM", "(", "A", ":", "A", ")">>), F(<<"SUM", "(", "1", ":", "1", ")">>),
             F(<<"SUM", "(", "{", "1", ",", "2", "}", ")", "+", "A1">>)},
  !.values = {Num(9)}, !.fills = {<<1, 0>>}, !.names = {Named("Rate", "Model", <<"$A$1">>)}, !.budget = 2]

LookupFormulas == Formulas1(
  [D1 |-> <<"XLOOKUP", "(", "C1", ",", "A1", ":", "A3", ",", "B1", ":", "B3", ")">>,
   E1 |-> <<"INDEX", "(", "B1", ":", "B3", ",", "MATCH", "(", "C1", ",", "A1", ":", "A3", ",", "0", ")", ")">>,
   F1 |-> <<"VLOOKUP", "(", "C1", ",", "A1", ":", "B3", ",", "2", ",", "FALSE", ")">>,
   D2 |-> <<"COUNTIF", "(", "A1", ":", "A3", ",", "C1", ")">>,
   E2 |-> <<"COUNTIFS", "(", "A1", ":", "A3", ",", "C1", ")">>,
   D3 |-> <<"SUMIF", "(", "A1", ":", "A3", ",", "C1", ",", "B1", ":", "B3", ")">>,
   E3 |-> <<"SUMIFS", "(", "B1", ":", "B3", ",", "A1", ":", "A3", ",", "C1", ")">>,
   D4 |-> <<"SUBTOTAL", "(", "9", ",", "A1", ":", "A3", ")">>,
   E4 |-> <<"SUM", "(", "A1", ":", "A3", ")">>,
   D5 |-> <<"IFERROR", "(", "SMALL", "(", "A1", ":", "A3", ",", "1", ")", ",", "0", ")">>,
   E5 |-> <<"IFERROR", "(", "MIN", "(", "A1", ":", "A3", ")", ",", "0", ")">>])
Keys == {Num(1), Num(2), Txt("2"), Bool(TRUE), Err("#N/A")}
Column1(col, values) == [p \in {<<"Model", i - 1, col>> : i \in DOMAIN values} |-> values[p[2] + 1]]
\* What is looked for is typed into C1.
Lookups1 ==
  LET formulas == LookupFormulas
      pair(x, y) == <<At1(x), At1(y)>>
  IN [Quiet EXCEPT
    !.drafts = {[Empty EXCEPT !.formulas = formulas,
                   !.values = Column1(0, k) @@ Column1(1, <<Num(10), Num(20), Num(30)>>) @@ Column1(2, <<Num(1)>>)]
                 : k \in [1 .. 3 -> Keys]},
    !.cells = {At1("C1")}, !.values = Keys, !.budget = 1,
    !.twins = {pair("D1", "E1"), pair("D1", "F1"), pair("D2", "E2"), pair("D3", "E3"), pair("D4", "E4"), pair("D5", "E5")}]

MCScenes ==
  [arith |-> Arith, refs |-> Refs, edge |-> Edge, calls |-> Calls, arrays |-> Arrays, brackets |-> Brackets,
   fills |-> Fills, cycles |-> Cycles, naming |-> Naming, tables |-> Tables, faults |-> Faults,
   scoped |-> Scoped, lookups |-> Lookups1]
================================================================================
