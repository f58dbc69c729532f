------------------------------ MODULE References ------------------------------
(* From the references of a formula to areas of sheets: graph/resolve.ts, and  *)
(* the cells of an area, graph/cellIndex.ts. What cannot be resolved is        *)
(* counted, never dropped.                                                     *)
EXTENDS WorkbookModel

MaxNameDepth == 8

\* A formula at row of a sheet, or a run of them spanRows further down and
\* spanCols further to the right.
Host(book, sheet, row) ==
  [book |-> book, sheet |-> sheet, row |-> row, rowEnd |-> row, spanRows |-> 0, spanCols |-> 0]

Unresolved == [areas |-> <<>>, unresolved |-> 1]
Resolved(areas) == [areas |-> areas, unresolved |-> 0]
Both(a, b) == [areas |-> a.areas \o b.areas, unresolved |-> a.unresolved + b.unresolved]

Span(lo, hi) == [whole |-> FALSE, lo |-> lo, hi |-> hi]
ResolvedArea(sheet, rows, cols) == [sheet |-> sheet, rows |-> rows, cols |-> cols]

sheetNames(book, spec, hostSheet) ==
  IF spec.external # None THEN <<>>
  ELSE IF spec.start = None THEN <<hostSheet>>
  ELSE IF spec.end # None THEN sheetsInSpan(book, spec.start, spec.end)
  ELSE IF HasSheet(book, spec.start) THEN <<sheetNamed(book, spec.start)>> ELSE <<>>

\* Mutant: a run reads what its first cell reads.
SweptAtAnchor(axis, by) == [whole |-> axis.whole, lo |-> axis.lo, hi |-> axis.hi]
\* A relative end sweeps with the run, an absolute one stays.
Swept(axis, by) ==
  [whole |-> axis.whole, lo |-> axis.lo, hi |-> IF axis.hiAbs THEN axis.hi ELSE axis.hi + by]

OnSheets(names, area, ctx) ==
  IF names = <<>> THEN Unresolved
  ELSE Resolved([i \in DOMAIN names |->
         ResolvedArea(names[i], Swept(area.rows, ctx.spanRows), Swept(area.cols, ctx.spanCols))])
resolveAreaRef(area, ctx) == OnSheets(sheetNames(ctx.book, area.sheet, ctx.sheet), area, ctx)

\* Where the columns of a use stand in the table; 0 for a column it does not have.
ColumnsAt(table, use) ==
  LET same(a, b) == Len(a) = Len(b) /\ \A i \in DOMAIN a : SameName(a[i], b[i])
  IN {SelectInSeq(table.columns, LAMBDA c : same(c, column)) : column \in ToSet(use.columns)}

\* The rows of a use, as a sequence of at most one span.
RowsOf(table, use, ctx) ==
  LET dataStart == table.headerRow + 1
      dataEnd == IF table.hasTotals THEN table.endRow - 1 ELSE table.endRow
      items == ToSet(use.items)
  IN CASE use.thisRow -> IF ctx.row \notin dataStart .. dataEnd THEN <<>>
                         ELSE <<Span(ctx.row, Min({ctx.rowEnd, dataEnd}))>>
       [] ~use.thisRow /\ "All" \in items -> <<Span(table.startRow, table.endRow)>>
       [] ~use.thisRow /\ "Headers" \in items /\ "All" \notin items ->
            <<Span(table.headerRow, table.headerRow)>>
       [] ~use.thisRow /\ "Totals" \in items /\ items \intersect {"All", "Headers"} = {} ->
            IF table.hasTotals THEN <<Span(table.endRow, table.endRow)>> ELSE <<>>
       [] OTHER -> <<Span(dataStart, dataEnd)>>

\* Unresolved when a column is missing, the row is outside the data, or there
\* are no totals.
TableArea(table, at, rows) ==
  IF 0 \in at \/ rows = <<>> THEN Unresolved
  ELSE Resolved(<<ResolvedArea(table.sheet, rows[1],
                    IF at = {} THEN Span(table.startCol, table.endCol)
                    ELSE Span(table.startCol + Min(at) - 1, table.startCol + Max(at) - 1))>>)

InTable(table, use, ctx) ==
  IF table = <<>> THEN Unresolved
  ELSE TableArea(table[1], ColumnsAt(table[1], use), RowsOf(table[1], use, ctx))

\* Without a table's name, the first table of the sheet that has the host's row.
resolveStructured(use, ctx) ==
  InTable(IF use.s # "" THEN tableNamed(ctx.book, use.s)
          ELSE FirstWhere(ctx.book.tables, LAMBDA t : /\ SameName(t.sheet, ctx.sheet)
                                                      /\ ctx.row \in t.startRow .. t.endRow),
          use, ctx)

RECURSIVE resolveExtracted(_, _, _), resolveName(_, _, _), NamedAreas(_, _, _)
resolveExtracted(refs, ctx, depth) ==
  LET each(list, Outcome(_)) == [i \in DOMAIN list |-> Outcome(list[i])]
  IN FoldLeft(Both, Resolved(<<>>),
       each(refs.areas, LAMBDA a : resolveAreaRef(a, ctx))
       \o each(refs.names, LAMBDA n : resolveName(n, ctx, depth))
       \o each(refs.structured, LAMBDA s : resolveStructured(s, ctx)))

\* A name is resolved as the formula it stands for, on the sheet it belongs to.
resolveName(use, ctx, depth) ==
  IF depth > MaxNameDepth THEN Unresolved
  ELSE NamedAreas(definedName(ctx.book, use.s,
                    IF use.sheet.start = None THEN ctx.sheet ELSE use.sheet.start), ctx, depth)

NamedAreas(defined, ctx, depth) ==
  LET home == IF defined[1].scope = None THEN ctx.sheet ELSE defined[1].scope
  IN IF defined = <<>> THEN Unresolved
     ELSE resolveExtracted(extractRefs(defined[1].refersTo), [ctx EXCEPT !.sheet = home], depth + 1)

Resolve(ast, ctx) == resolveExtracted(extractRefs(ast), ctx, 0)

----------------------------------------------------------------------------
(* The populated cells of an area; which axis the index scans makes no        *)
(* difference to the outcome.                                                 *)

Within(axis, i) == axis.whole \/ i \in axis.lo .. axis.hi

cellsIn(book, area) ==
  IF ~HasSheet(book, area.sheet) THEN {}
  ELSE {p \in CellsOn(book, sheetNamed(book, area.sheet)) :
          Within(area.rows, p[2]) /\ Within(area.cols, p[3])}

\* The cells one cell's own formula reads, wherever it sits in a run.
CellsIn(book, areas) == UNION {cellsIn(book, a) : a \in ToSet(areas)}
CellReads(book, p) ==
  CellsIn(book, Resolve(book.cells[p].parse.ast, Host(book, p[1], p[2])).areas)
=============================================================================
