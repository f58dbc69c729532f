------------------------------ MODULE Spreadsheet ------------------------------
(* A workbook under the simulator host, host/simulator.ts: a formula is typed, *)
(* change sets are applied and undone, and every one of them ends with a fresh *)
(* graph and a recalculation. What has a memory here is the workbook; the      *)
(* properties are about what the parser, the graph, the preview, the evaluator *)
(* and the audit make of it, which must agree with one another.                *)
EXTENDS AuditRules

CONSTANT
  Scenes    \* name -> what may happen: the tokens that may be typed and how
            \* many, drafts of the workbooks to start from, the cells, texts,
            \* values and fills of the edits, the names, sheets and tables to
            \* make or drop, how many change sets, pairs of cells that must agree

VARIABLES
  scene,    \* the scene being played, which never changes
  line,     \* the formula being typed
  book,     \* the workbook
  graph,    \* its dependency graph, as built by the last recalculation
  circular, \* the cells the last recalculation could not order
  before,   \* the workbook as the last change set found it
  written,  \* and as it wrote it, before the recalculation
  known,    \* and its graph, which the preview was computed from
  edits,    \* the cells the last change set wrote
  preview,  \* what it was said to affect
  left      \* change sets left in the scene

vars == <<scene, line, book, graph, circular, before, written, known, edits, preview, left>>

Here == Scenes[scene]

\* Simulator.of(workbook).recalculate()
Settles(b) ==
  \E g \in {build(b)} : \E r \in {recalculate(b, g)} :
    graph' = g /\ book' = r.book /\ circular' = r.circular

\* A defined name keeps its text; every use parses it.
NameOf(n) == [s |-> n.s, scope |-> n.scope, refersTo |-> parseFormula(n.text).ast]

\* The workbook a draft describes, its values by cell and its formulas by cell.
Drafted(draft) ==
  [sheets |-> draft.sheets, tables |-> draft.tables,
   names |-> [i \in DOMAIN draft.names |-> NameOf(draft.names[i])],
   cells |-> [p \in DOMAIN draft.formulas |-> Formula(draft.formulas[p], Blank)]
             @@ [p \in DOMAIN draft.values |-> Constant(draft.values[p])]]

Init ==
  \E s \in DOMAIN Scenes : \E draft \in Scenes[s].drafts :
    \E b \in {Drafted(draft)} : \E g \in {build(b)} : \E r \in {recalculate(b, g)} :
      /\ scene = s /\ line = <<>> /\ left = Scenes[s].budget
      /\ book = r.book /\ before = r.book /\ written = b /\ graph = g /\ known = g /\ circular = r.circular
      /\ edits = {} /\ preview = analyzeImpact(g, {})

Type(token) ==
  /\ Len(line) < Here.length
  /\ ~(token = Space /\ line # <<>> /\ Last(line) = Space)
  /\ line' = Append(line, token)
  /\ UNCHANGED <<scene, book, graph, circular, before, written, known, edits, preview, left>>

\* What a change set writes; or the inverses of its structural edits, when it is
\* undone. A sheet is deleted when all cells on it are the change set's own, or
\* the user insists.
Writes(b, cells) == written' = b /\ edits' = cells

\* A cell edit makes the sheet it names; setFormula keeps the value until the
\* recalculation.
WithFormula(b, p, text) ==
  SetCell(addSheet(b, p[1]), p, Formula(text, Read(b, p)))

Enter(p, text) == Writes(WithFormula(book, p, text), {p})
SetValue(p, v) == Writes(SetCell(addSheet(book, p[1]), p, Constant(v)), {p})
Clear(p) == Writes(DeleteCell(addSheet(book, p[1]), p), {p})

\* One formula for a cell and, translated, for the rows below and columns beside it.
Away(p, d) == <<p[1], p[2] + d[1], p[3] + d[2]>>
Filled(b, p, text, d) ==
  WithFormula(b, Away(p, d), IF d = <<0, 0>> THEN text ELSE translateFormula(text, d[1], d[2]))
Fill(p, text, down, right) ==
  LET steps == (0 .. down) \X (0 .. right)
  IN Writes(FoldLeft(LAMBDA b, d : Filled(b, p, text, d), book, SetToSeq(steps)),
           {Away(p, d) : d \in steps})

CreateSheet(name) == ~HasSheet(book, name) /\ Writes(addSheet(book, name), {})
UndoCreateSheet(name) == HasSheet(book, name) /\ Writes(removeSheet(book, name), {})
UndoRenameSheet(from, to) ==
  /\ HasSheet(book, from) /\ ~HasSheet(book, to)
  /\ Writes(renameSheet(book, from, to), {})
DefineName(name) == Writes(defineName(book, NameOf(name)), {})
UndoDefineName(name) ==
  /\ definedName(book, name.s, name.scope) # <<>>
  /\ Writes(removeName(book, name.s, name.scope), {})
UndoCreateTable(name) == tableNamed(book, name) # <<>> /\ Writes(removeTable(book, name), {})

Change ==
  \/ \E p \in Here.cells : \/ \E text \in Here.texts : Enter(p, text)
                           \/ \E v \in Here.values : SetValue(p, v)
                           \/ Clear(p)
                           \/ \E text \in Here.texts, f \in Here.fills : Fill(p, text, f[1], f[2])
  \/ \E name \in Here.sheets : CreateSheet(name) \/ UndoCreateSheet(name)
  \/ \E r \in Here.renames : UndoRenameSheet(r[1], r[2])
  \/ \E name \in Here.names : DefineName(name) \/ UndoDefineName(name)
  \/ \E t \in Here.tables : UndoCreateTable(t)

\* A change set is proposed with a preview, applied and recalculated, in one step.
Apply ==
  /\ left > 0 /\ left' = left - 1
  /\ Change
  /\ before' = book /\ known' = graph /\ preview' = analyzeImpact(graph, edits')
  /\ Settles(written')
  /\ UNCHANGED <<scene, line>>

Next ==
  \/ \E token \in Here.lexicon : Type(token)
  \/ Apply

Spec == Init /\ [][Next]_vars

----------------------------------------------------------------------------
(* Formulas. *)

\* Structured references, without the text they were written with. This row
\* is said twice when it is said as an item.
Structured(n) == {[m EXCEPT !.raw = <<>>, !.items = SelectSeq(@, LAMBDA i : i # "This Row")] :
                    m \in {m \in walk(n) : m.k = "structured"}}
Awkward(column) ==
  column # <<>> /\ ("," \in ToSet(column) \/ column[1] = " " \/ Last(column) = " ")
Tidy(ast) == \A m \in Structured(ast) : Len(m.columns) <= 2 /\ \A c \in ToSet(m.columns) : ~Awkward(c)
Means(again, first) ==
  /\ again.ok /\ Structured(again.ast) = Structured(first.ast)
  /\ Structured(first.ast) = {} => again.ast = first.ast
SurvivesText(first) == first.ok /\ Tidy(first.ast) => Means(parseFormula(serialize(first.ast)), first)
\* What a formula means survives parse -> serialize -> parse (serialize.ts, the
\* canonical form every written formula takes): the second tree is the first,
\* or, with structured references, names the same tables, items and columns.
\* Left out are references with more than two columns, of which serialize keeps
\* two, and columns whose names hold a comma or begin or end with a space.
RoundTrip == SurvivesText(parseFormula(line))

\* A corner of a reference that is past the last column or row of a sheet.
PastEdge(m) ==
  LET past(addr) == addr.row > MaxRow \/ addr.col > MaxCol
  IN CASE m.k = "cell" -> past(m.a)
       [] m.k = "range" -> past(m.a) \/ past(m.z)
       [] m.k = "colRange" -> m.from.at > MaxCol \/ m.to.at > MaxCol
       [] m.k = "rowRange" -> m.from.at > MaxRow \/ m.to.at > MaxRow
       [] OTHER -> FALSE
Fits(ast) == \A m \in walk(ast) : ~PastEdge(m)

Copies(copy, first) ==
  first.ok /\ Fits(Shifted(first.ast, 1, 2))
           /\ (Structured(first.ast) = {} \/ serialize(first.ast) = line) =>
    copy.ok /\ normalizeR1C1(copy.ast, 1, 2) = normalizeR1C1(first.ast, 0, 0)
\* A fill writes one formula: the text translateFormula (runtime.ts) gives for a
\* cell one row down and two columns to the right parses, and relative to that
\* cell it is the same formula, so that the graph finds the copies to be one
\* run. The signature keeps structured references as they were typed, hence the
\* canonical spelling. Beyond the last column or row the shifted reference is read
\* back as a defined name; formulas that reach it are left out.
FillIsACopy == Copies(parseFormula(translateFormula(line, 1, 2)), parseFormula(line))

(* The graph. *)

\* Another value in q changes what p's formula gives.
Influences(q, p) == \E v \in {Num(7), Txt("B"), Err("#N/A")} :
   ValueOf([book EXCEPT !.cells[q].v = v], p) # ValueOf(book, p)

\* The ends of an area keep their order all along a run; the first end of
\* A1:A$2 passes the second after two rows.
Ends(p) == LET areas == extractRefs(book.cells[p].parse.ast).areas
           IN [i \in DOMAIN areas |-> <<areas[i].rows.loAbs, areas[i].rows.hiAbs,
                                        areas[i].cols.loAbs, areas[i].cols.hiAbs>>]
InOrder(n) == \A p \in Cells(n) : Ends(p) = Ends(Anchor(n))

\* When the audit says that every reference is in the graph (coverageComplete),
\* it is: if another value in a cell would change what a formula gives, the
\* formula's run has an edge from the node of that cell, or is known to read
\* itself. Left out are the runs in which an end of an area passes the other.
EveryInfluenceHasItsEdge ==
  coverageComplete(graph) =>
    \A n \in DOMAIN graph.formulas : InOrder(n) =>
      \A p \in Cells(n), q \in DOMAIN book.cells : Influences(q, p) =>
         IF q \in Cells(n) THEN n \in graph.own ELSE \E m \in precedents(graph, n) : q \in Cells(m)

RECURSIVE Upstream(_, _)
\* The cells seen, and all they read.
Upstream(reads, seen) ==
  LET more == UNION {reads[p] : p \in seen} \ seen
  IN IF more = {} THEN seen ELSE Upstream(reads, seen \union more)

\* The cycles the graph reports are those of the cells, although its nodes are
\* runs and the search is over nodes: a cell that reads itself through other
\* cells is in a reported group, each group holds such a cell, and the cells
\* that the recalculation leaves as #CIRCULAR! are those and what follows from them.
CyclesExact ==
  LET cells == FormulaCells(book)
      reads == Tabulated([p \in cells |-> CellReads(book, p) \intersect cells])
      up == Tabulated([p \in cells |-> Upstream(reads, reads[p])])
      looping == {p \in cells : p \in up[p]}
  IN /\ looping \subseteq CellsOf(UNION graph.cycles)
     /\ \A group \in graph.cycles : CellsOf(group) \intersect looping # {}
     /\ circular = {p \in cells : p \in looping \/ up[p] \intersect looping # {}}

\* One pass is enough: recalculate evaluates each formula once, in the order
\* Kahn's algorithm gave, and afterwards each holds what it would evaluate to
\* now, through names, tables, areas and fills, unless it is circular or one of
\* its references did not resolve.
RecalcSettles ==
  \A n \in DOMAIN graph.formulas : graph.formulas[n].unresolved = 0 =>
    \A p \in Cells(n) \ circular : book.cells[p].v = ValueOf(book, p)

\* What the user was told covers what happened: when a change set writes cells
\* that were populated, every cell whose value is then another was in a node of
\* the preview (analyzeImpact), in the run of an edited cell, or edited. A cell
\* that was empty has no node, and its readers are not announced.
PreviewCoversChanges ==
  coverageComplete(known) /\ edits # {} /\ edits \subseteq DOMAIN before.cells =>
    changed(before, book) \subseteq
      CellsOf(preview.affected \union {n \in nodes(known) : Cells(n) \intersect edits # {}}) \union edits

\* From every error value the audit's report leads to a cause: following what
\* the formula reads, cell by cell and through errors only, one comes to a cell
\* whose row in the report is critical, though AUD-004 drops the errors it takes
\* for propagated and the report keeps one row per cell. Left out are errors in,
\* or downstream of, a run of several cells with an error among them: AUD-004
\* looks at nodes, and two such runs may each be taken for the other's cause.
AuditNamesEveryRoot ==
  LET rows == runAudit(book, graph).rows
      errors == ErrorCells(book)
      reads == [p \in DOMAIN book.cells |->
                  IF HasFormula(book.cells[p]) THEN CellReads(book, p) \intersect errors ELSE {}]
      blurred == {n \in nodes(graph) : cellCount(n) > 1 /\ Cells(n) \intersect errors # {}}
      clear(p) == \A n \in nodeAt(graph, p) : ({n} \union trace(graph, n)) \intersect blurred = {}
  IN \A p \in {p \in errors : clear(p)} :
       \E q \in Upstream(reads, {p}) : q \in DOMAIN rows /\ rows[q].severity = "critical"

\* Formulas a user takes for the same thing agree on every content of the keys,
\* errors, booleans and numbers written as text included: XLOOKUP, INDEX of
\* MATCH and exact VLOOKUP, COUNTIF and COUNTIFS, SUMIF and SUMIFS, SUM and
\* SUBTOTAL 9, the least of SMALL and MIN.
TwinsAgree == \A t \in Here.twins : book.cells[t[1]].v = book.cells[t[2]].v
=============================================================================
