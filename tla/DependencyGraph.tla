---------------------------- MODULE DependencyGraph ----------------------------
(* The dependency graph, graph/graph.ts over graph/runs.ts: its nodes are runs *)
(* of cells filled with one formula and the constants that formulas read, its  *)
(* edges go from what is read to what reads it.                                *)
(*                                                                             *)
(* A node is identified by its rectangle <<sheet, r1, c1, r2, c2>>.            *)
EXTENDS References

Cells(node) == {<<node[1], r, c>> : r \in node[2] .. node[4], c \in node[3] .. node[5]}
Rectangle(p, endRow, endCol) == <<p[1], p[2], p[3], endRow, endCol>>
CellNode(p) == Rectangle(p, p[2], p[3])
cellCount(node) == (node[4] - node[2] + 1) * (node[5] - node[3] + 1)

CellsOf(nodes) == UNION {Cells(n) : n \in nodes}

----------------------------------------------------------------------------
(* Runs: from the first cell in row-major order, right as far as the strip    *)
(* goes, then down as long as whole rows match.                               *)

RECURSIVE findRuns(_)
findRuns(remaining) ==
  LET first == CHOOSE p \in remaining : \A q \in remaining :
                 p[2] < q[2] \/ (p[2] = q[2] /\ p[3] <= q[3])
      strip(row, endCol) == {<<first[1], row, c>> : c \in first[3] .. endCol}
      cols == {q[3] : q \in {q \in remaining : q[2] = first[2] /\ q[3] >= first[3]}}
      endCol == Max({c \in cols : strip(first[2], c) \subseteq remaining})
      rows == {q[2] : q \in {q \in remaining : q[2] >= first[2]}}
      endRow == Max({r \in rows : \A s \in first[2] .. r : strip(s, endCol) \subseteq remaining})
      run == Rectangle(first, endRow, endCol)
  IN IF remaining = {} THEN {} ELSE {run} \union findRuns(remaining \ Cells(run))

\* A formula that does not parse matches no other.
Signature(parsed, p) ==
  IF parsed.ok THEN normalizeR1C1(parsed.ast, p[2], p[3])
  ELSE <<[t |-> "unparsed", here |-> <<p[2], p[3]>>]>>
signature(book, p) == Signature(book.cells[p].parse, p)

\* The runs of a workbook, sheet by sheet.
RunsByPattern(pattern) ==
  UNION {findRuns({p \in DOMAIN pattern : pattern[p] = s}) : s \in Range(pattern)}
Runs(book) ==
  RunsByPattern(Tabulated([p \in FormulaCells(book) |-> <<p[1], signature(book, p)>>]))

----------------------------------------------------------------------------
(* Nodes and edges. *)

Anchor(node) == <<node[1], node[2], node[3]>>

\* References are resolved for the whole run, not for its first cell only.
RunHost(book, node) ==
  [book |-> book, sheet |-> node[1], row |-> node[2], rowEnd |-> node[4],
   spanRows |-> node[4] - node[2], spanCols |-> node[5] - node[3]]

FormulaNode(parsed, pattern, refs, resolution) ==
  [signature |-> pattern, ast |-> parsed.ast, unparsed |-> ~parsed.ok,
   resolved |-> resolution.areas, unresolved |-> resolution.unresolved,
   opaque |-> refs.opaque \/ resolution.unresolved > 0, computed |-> refs.opaque,
   volatile |-> refs.volatile, external |-> refs.external, functions |-> refs.functions]
addFormulaNode(book, node) ==
  LET parsed == book.cells[Anchor(node)].parse
  IN FormulaNode(parsed, signature(book, Anchor(node)), extractRefs(parsed.ast),
                 Resolve(parsed.ast, RunHost(book, node)))

\* [formulas: run -> its analysis, values: the constants read, edges, own: the
\*  runs whose references overlap themselves]
Linked(formulas, reads) ==
  LET runs == DOMAIN formulas
  IN [formulas |-> formulas, values |-> UNION {reads[n] : n \in runs} \ runs,
      edges |-> UNION {{<<m, n>> : m \in reads[n] \ {n}} : n \in runs},
      own |-> {n \in runs : n \in reads[n]}]
buildEdges(book, formulas) ==
  LET owners(p) == {n \in DOMAIN formulas : p \in Cells(n)}
      owner(p) == IF owners(p) = {} THEN CellNode(p) ELSE CHOOSE n \in owners(p) : TRUE
  IN Linked(formulas, Tabulated([n \in DOMAIN formulas |->
       {owner(p) : p \in CellsIn(book, formulas[n].resolved)}]))

nodes(graph) == DOMAIN graph.formulas \union graph.values
nodeAt(graph, p) == {n \in nodes(graph) : p \in Cells(n)}
dependents(graph, n) == {e[2] : e \in {e \in graph.edges : e[1] = n}}
precedents(graph, n) == {e[1] : e \in {e \in graph.edges : e[2] = n}}

\* What is met from the start, which is left out, in at most depth steps.
RECURSIVE Reach(_, _, _, _)
Reach(step, frontier, seen, depth) ==
  LET found == UNION {step[n] : n \in frontier} \ seen
  IN IF frontier = {} \/ depth = 0 THEN seen
     ELSE Reach(step, found, seen \union found, depth - 1)
traverse(step, start, depth) == Reach(step, start, start, depth) \ start

Unlimited == 99
Downstream(graph) == Tabulated([n \in nodes(graph) |-> dependents(graph, n)])
impactOf(graph, starts) == traverse(Downstream(graph), starts, Unlimited)
impact(graph, n) == impactOf(graph, {n})
trace(graph, n) == traverse([m \in nodes(graph) |-> precedents(graph, m)], {n}, Unlimited)
\* Mutant: only what reads the cells themselves.
impactOfAreaDirect(graph, cells) ==
  UNION {dependents(graph, n) : n \in {n \in nodes(graph) : Cells(n) \intersect cells # {}}}
\* What a change of the cells may reach; a cell with no node reaches nothing.
impactOfArea(graph, cells) == impactOf(graph, {n \in nodes(graph) : Cells(n) \intersect cells # {}})

----------------------------------------------------------------------------
(* Circular references: strongly connected nodes, confirmed cell by cell.     *)

RECURSIVE Shrink(_, _)
\* What is left when cells that read nothing left are taken away again and again.
Shrink(reads, cells) ==
  LET kept == {p \in cells : reads[p] \intersect cells # {}}
  IN IF kept = cells THEN cells ELSE Shrink(reads, kept)

LoopAmong(book, cells) ==
  Shrink(Tabulated([p \in cells |-> CellReads(book, p)]), cells) # {}
hasCellLevelCycle(book, component) ==
  LoopAmong(book, CellsOf(component) \intersect FormulaCells(book))

\* ahead: what can be reached from each node, itself included.
Components(ahead) == {{m \in ahead[n] : n \in ahead[m]} : n \in DOMAIN ahead}
\* Mutant: nodes in a loop are taken for cells in a loop.
detectCyclesOfRuns(book, graph) ==
  {c \in Components(Tabulated([n \in nodes(graph) |-> {n} \union impact(graph, n)])) :
     Cardinality(c) > 1 \/ c \subseteq graph.own}
detectCycles(book, graph) ==
  {c \in Components(Tabulated([n \in nodes(graph) |-> {n} \union impact(graph, n)])) :
     (Cardinality(c) > 1 \/ c \subseteq graph.own) /\ hasCellLevelCycle(book, c)}

stats(book, graph) ==
  LET count(Passes(_)) == Cardinality({n \in DOMAIN graph.formulas : Passes(graph.formulas[n])})
  IN [opaqueNodes |-> count(LAMBDA i : i.opaque), externalRefNodes |-> count(LAMBDA i : i.external),
      unparsedFormulas |-> Cardinality({p \in FormulaCells(book) : ~book.cells[p].parse.ok}),
      unresolvedRefs |-> FoldSet(LAMBDA n, sum : sum + graph.formulas[n].unresolved, 0,
                                 DOMAIN graph.formulas)]

Analysed(book, graph) ==
  [formulas |-> graph.formulas, values |-> graph.values, edges |-> graph.edges,
   own |-> graph.own, cycles |-> detectCycles(book, graph), stats |-> stats(book, graph)]
build(book) ==
  Analysed(book, buildEdges(book, Tabulated([n \in Runs(book) |-> addFormulaNode(book, n)])))

\* What the audit tells the user about the graph: every reference is in it.
coverageComplete(graph) == \A s \in DOMAIN graph.stats : graph.stats[s] = 0
=============================================================================
