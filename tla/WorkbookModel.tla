----------------------------- MODULE WorkbookModel -----------------------------
(* The workbook in memory, model/workbook.ts: sheets in tab order, populated   *)
(* cells, defined names and tables. A cell keeps its formula as text together  *)
(* with what parseFormula makes of it, which the code computes again at every  *)
(* use; a defined name keeps the tree of what it refers to. Values are records *)
(* whose field k is their type. Charts, pivots, formats and merged areas are   *)
(* left out: nothing modelled here reads them.                                 *)
EXTENDS FormulaParser

Blank == [k |-> "blank"]
Num(n) == [k |-> "num", n |-> n]
Txt(s) == [k |-> "text", s |-> s]
Bool(b) == [k |-> "bool", b |-> b]
Err(e) == [k |-> "err", e |-> e]

NoFormula == [k |-> "none"]
Constant(v) == [text |-> <<>>, parse |-> NoFormula, v |-> v]
Formula(text, v) == [text |-> text, parse |-> parseFormula(text), v |-> v]
HasFormula(cell) == cell.parse # NoFormula

\* Cells are kept under <<sheet, row, column>>.
EmptyBook == [sheets |-> <<>>, cells |-> [p \in {} |-> Blank], names |-> <<>>, tables |-> <<>>]

SameName(a, b) == toUpperCase(a) = toUpperCase(b)

FirstOf(list) == IF list = <<>> THEN <<>> ELSE <<Head(list)>>
\* The first entry of a list that passes, as a sequence of at most one.
FirstWhere(list, Passes(_)) ==
  FirstOf(SelectSeq(list, Passes))

----------------------------------------------------------------------------
(* Lookups. *)

sheetIndex(book, name) == SelectInSeq(book.sheets, LAMBDA s : SameName(s, name))
HasSheet(book, name) == sheetIndex(book, name) > 0
\* The sheet under the spelling the workbook knows it by.
sheetNamed(book, name) == book.sheets[sheetIndex(book, name)]

Between(sheets, from, to) ==
  IF from = 0 \/ to = 0 THEN <<>>
  ELSE IF from <= to THEN SubSeq(sheets, from, to) ELSE SubSeq(sheets, to, from)
sheetsInSpan(book, start, end) ==
  Between(book.sheets, sheetIndex(book, start), sheetIndex(book, end))

tableNamed(book, name) == FirstWhere(book.tables, LAMBDA t : SameName(t.s, name))

definedName(book, name, scope) ==
  LET called == SelectSeq(book.names, LAMBDA n : SameName(n.s, name))
      scoped == SelectSeq(called, LAMBDA n : n.scope # None /\ SameName(n.scope, scope))
  IN FirstOf(scoped \o SelectSeq(called, LAMBDA n : n.scope = None))

Populated(book, p) == p \in DOMAIN book.cells
CellsOn(book, sheet) == {p \in DOMAIN book.cells : p[1] = sheet}
FormulaCells(book) == {p \in DOMAIN book.cells : HasFormula(book.cells[p])}

bounds(book, sheet) ==
  LET rows == {p[2] : p \in CellsOn(book, sheet)}
      cols == {p[3] : p \in CellsOn(book, sheet)}
  IN IF rows = {} THEN [r1 |-> 0, r2 |-> 0, c1 |-> 0, c2 |-> 0]
     ELSE [r1 |-> Min(rows), r2 |-> Max(rows), c1 |-> Min(cols), c2 |-> Max(cols)]

----------------------------------------------------------------------------
(* Changes. *)

addSheet(book, name) ==
  IF HasSheet(book, name) THEN book ELSE [book EXCEPT !.sheets = Append(@, name)]

\* sheet.set and sheet.delete.
SetCell(book, p, cell) == [book EXCEPT !.cells = (p :> cell) @@ @]
DeleteCell(book, p) ==
  [book EXCEPT !.cells = [q \in DOMAIN book.cells \ {p} |-> book.cells[q]]]

dropScopedTo(book, sheet) ==
  [book EXCEPT !.names = SelectSeq(@, LAMBDA n : n.scope = None \/ ~SameName(n.scope, sheet)),
               !.tables = SelectSeq(@, LAMBDA t : ~SameName(t.sheet, sheet))]

removeSheet(book, name) ==
  LET sheet == sheetNamed(book, name)
      gone == CellsOn(book, sheet)
  IN IF ~HasSheet(book, name) THEN book
     ELSE dropScopedTo(
            [book EXCEPT !.sheets = SelectSeq(@, LAMBDA s : s # sheet),
                         !.cells = [p \in DOMAIN book.cells \ gone |-> book.cells[p]]], sheet)

\* The formulas keep the old name.
renameSheet(book, from, to) ==
  LET sheet == sheetNamed(book, from)
      renamed(s) == IF s # None /\ SameName(s, sheet) THEN to ELSE s
      moved(p) == <<renamed(p[1]), p[2], p[3]>>
  IN IF ~HasSheet(book, from) \/ HasSheet(book, to) THEN book
     ELSE [book EXCEPT
       !.sheets = [i \in DOMAIN @ |-> renamed(@[i])],
       !.cells = [q \in {moved(p) : p \in DOMAIN @} |->
                    book.cells[CHOOSE p \in DOMAIN book.cells : moved(p) = q]],
       !.names = [i \in DOMAIN @ |-> [@[i] EXCEPT !.scope = renamed(@)]],
       !.tables = [i \in DOMAIN @ |-> [@[i] EXCEPT !.sheet = renamed(@)]]]

removeName(book, name, scope) ==
  LET matches == {i \in DOMAIN book.names :
        /\ SameName(book.names[i].s, name)
        /\ IF scope = None \/ book.names[i].scope = None THEN book.names[i].scope = scope
           ELSE SameName(book.names[i].scope, scope)}
  IN IF matches = {} THEN book ELSE [book EXCEPT !.names = RemoveAt(@, Min(matches))]

\* Defining a name again replaces it.
defineName(book, name) ==
  LET rest == removeName(book, name.s, name.scope)
  IN [rest EXCEPT !.names = Append(@, name)]

removeTable(book, name) ==
  LET matches == {i \in DOMAIN book.tables : SameName(book.tables[i].s, name)}
  IN IF matches = {} THEN book ELSE [book EXCEPT !.tables = RemoveAt(@, Min(matches))]
=============================================================================
