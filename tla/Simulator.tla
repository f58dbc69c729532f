------------------------------- MODULE Simulator -------------------------------
(* Recalculation, sim/simulator.ts: every formula is evaluated once, after the *)
(* formulas it reads; what cannot be ordered is circular. And the preview of a *)
(* change set, analyzeImpact of changeset/engine.ts, from the same graph.      *)
EXTENDS DependencyGraph, Evaluator

\* Mutant: only what the formula names by address.
cellPrecedentsByAddress(book, p) ==
  LET refs == extractRefs(book.cells[p].parse.ast)
  IN CellsIn(book, resolveExtracted([refs EXCEPT !.names = <<>>, !.structured = <<>>],
                                    Host(book, p[1], p[2]), 0).areas) \intersect FormulaCells(book)
\* One cell's formula precedents; a run is not expanded here.
cellPrecedents(book, p) == CellReads(book, p) \intersect FormulaCells(book)

RowMajor(p, q) == p[2] < q[2] \/ (p[2] = q[2] /\ p[3] < q[3])

InRowMajor(S) == SortSeq(FoldSet(LAMBDA p, list : Append(list, p), <<>>, S), RowMajor)

\* The formula cells in the order of the graph's nodes, run by run.
InRuns(book, runs) ==
  SelectSeq(FlattenSeq([i \in DOMAIN runs |-> InRowMajor(Cells(runs[i]))]),
            LAMBDA p : p \in FormulaCells(book))
formulaCells(book, graph) ==
  InRuns(book, FlattenSeq([i \in DOMAIN book.sheets |->
    InRowMajor({n \in DOMAIN graph.formulas : SameName(n[1], book.sheets[i])})]))

RECURSIVE Ordered(_, _, _, _)
\* Kahn's algorithm: the queue holds cells whose precedents are all in order.
Ordered(cells, reads, queue, order) ==
  LET key == Head(queue)
      done == Append(order, key)
      released == SelectSeq(cells, LAMBDA c : key \in reads[c] /\ reads[c] \subseteq ToSet(done))
  IN IF queue = <<>> THEN order ELSE Ordered(cells, reads, Tail(queue) \o released, done)

ValueOf(book, p) == Scalar(evaluate(book.cells[p].parse.ast, book, p, NoLocals))

\* [book: the book with its new values, circular: the cells left over]
Settled(book, circular) ==
  [book |-> [book EXCEPT !.cells =
     [p \in DOMAIN @ |-> IF p \in circular THEN [@[p] EXCEPT !.v = Err("#CIRCULAR!")] ELSE @[p]]],
   circular |-> circular]
Evaluated(book, order) ==
  FoldLeft(LAMBDA b, p : [b EXCEPT !.cells[p].v = ValueOf(b, p)], book, order)
InOrderOf(book, cells, order) == Settled(Evaluated(book, order), ToSet(cells) \ ToSet(order))
AfterReads(book, cells, reads) ==
  InOrderOf(book, cells, Ordered(cells, reads, SelectSeq(cells, LAMBDA p : reads[p] = {}), <<>>))
Recalculated(book, cells) ==
  AfterReads(book, cells,
    Tabulated([p \in ToSet(cells) |-> cellPrecedents(book, p) \intersect ToSet(cells)]))
recalculate(book, graph) == Recalculated(book, formulaCells(book, graph))

changed(before, after) ==
  {p \in DOMAIN before.cells \intersect DOMAIN after.cells : before.cells[p].v # after.cells[p].v}

----------------------------------------------------------------------------

\* What a change set will say it affects, for the cells it edits.
Impact(graph, affected, formulas) ==
  [affected |-> affected,
   affectedCells |-> FoldSet(LAMBDA n, sum : sum + cellCount(n), 0, affected),
   affectedOutputs |-> {n \in formulas : dependents(graph, n) = {}},
   opaqueDownstream |-> Cardinality({n \in formulas : graph.formulas[n].opaque})]
ImpactOf(graph, affected) == Impact(graph, affected, affected \intersect DOMAIN graph.formulas)
analyzeImpact(graph, edits) == ImpactOf(graph, UNION {impactOfArea(graph, {p}) : p \in edits})
=============================================================================
