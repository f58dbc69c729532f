------------------------------ MODULE AuditRules ------------------------------
(* The audit, audit/rules.ts, balance.ts and engine.ts: rules over the graph   *)
(* and the workbook, and the report that keeps one row per cell. AUD-003,      *)
(* AUD-007 and AUD-010 ask the semantic map and AUD-013 the AI functions;      *)
(* none of them is modelled.                                                   *)
EXTENDS Simulator

Severities == <<"critical", "high", "medium", "low">>
severityRank(severity) == SelectInSeq(Severities, LAMBDA s : s = severity)

blastRadius(graph, n) == FoldSet(LAMBDA m, sum : sum + cellCount(m), 0, impact(graph, n))

finding(rule, severity, graph, n) ==
  [rule |-> rule, severity |-> severity, at |-> Anchor(n), radius |-> blastRadius(graph, n)]

----------------------------------------------------------------------------
(* AUD-001: a small run between two cells of one other pattern.               *)

FormulaNodeAt(graph, p) == nodeAt(graph, p) \intersect DOMAIN graph.formulas

\* Along a row, the nodes left and right of the run; along a column, above and below.
Flanking(graph, n, axis) ==
  IF axis = "row" THEN <<FormulaNodeAt(graph, <<n[1], n[2], n[3] - 1>>),
                         FormulaNodeAt(graph, <<n[1], n[2], n[5] + 1>>)>>
  ELSE <<FormulaNodeAt(graph, <<n[1], n[2] - 1, n[3]>>),
         FormulaNodeAt(graph, <<n[1], n[4] + 1, n[3]>>)>>

\* Looking along a row, the pattern of the suspect recurs in its columns, which
\* makes it part of a fill that runs the other way; along a column, in its rows.
recursAlong(graph, suspect, axis) ==
  \E n \in DOMAIN graph.formulas \ {suspect} :
    /\ n[1] = suspect[1]
    /\ graph.formulas[n].signature = graph.formulas[suspect].signature
    /\ IF axis = "row" THEN n[3] <= suspect[5] /\ n[5] >= suspect[3]
       ELSE n[2] <= suspect[4] /\ n[4] >= suspect[2]

Breaks(graph, suspect, axis) ==
  LET flanks == Flanking(graph, suspect, axis)
      signatures == {graph.formulas[n].signature : n \in flanks[1] \union flanks[2]}
  IN /\ flanks[1] # {} /\ flanks[2] # {}
     /\ Cardinality(signatures) = 1 /\ graph.formulas[suspect].signature \notin signatures
     /\ ~recursAlong(graph, suspect, axis)
     /\ Cardinality(CellsOf(flanks[1] \union flanks[2])) >= 3

AUD_001(graph) ==
  {finding("AUD-001", "high", graph, n) : n \in {n \in DOMAIN graph.formulas :
     cellCount(n) <= 2 /\ \E axis \in {"row", "column"} : Breaks(graph, n, axis)}}

----------------------------------------------------------------------------
(* AUD-002: numbers inside formulas.                                          *)

Benign == {0, 1, 2, 4, 12, 24, 60, 100, 365, 366, 1000, 10000, 1000000}
Rounding == {"ROUND", "ROUNDUP", "ROUNDDOWN"}
Structural == Rounding \union
  {"INDEX", "MATCH", "VLOOKUP", "HLOOKUP", "OFFSET", "LEFT", "RIGHT", "MID", "SUBTOTAL", "CHOOSE",
   "LARGE", "SMALL", "RANK", "POWER", "SEQUENCE", "TEXT", "REPT", "COLUMN", "ROW"}

RECURSIVE magicNumbers(_, _)
\* The numbers that are assumptions, unless benign says they are in a place that needs one.
magicNumbers(n, benign) ==
  LET all(list, excused) == UNION {magicNumbers(list[i], excused) : i \in DOMAIN list}
      structural == n.s \in Structural
      excused(i) == benign \/ (structural /\ (n.s \in Rounding => i > 1))
  IN CASE n.k = "number" -> IF benign \/ n.n \in Benign THEN {} ELSE {n.n}
       [] n.k = "unary" /\ n.e.k = "number" ->
            IF benign \/ n.e.n \in Benign THEN {} ELSE {IF n.s = "-" THEN -n.e.n ELSE n.e.n}
       [] n.k = "func" -> UNION {magicNumbers(n.args[i], excused(i)) : i \in DOMAIN n.args}
       [] n.k = "binary" -> magicNumbers(n.l, benign) \union magicNumbers(n.r, benign \/ n.s = "^")
       [] n.k = "percent" -> magicNumbers(n.e, TRUE)
       [] n.k = "callExpr" -> magicNumbers(n.e, benign) \union all(n.args, benign)
       [] n.k = "array" -> all(FlattenSeq(n.rows), benign)
       [] n.k \in OneOperand \ {"percent"} /\ ~(n.k = "unary" /\ n.e.k = "number") ->
            magicNumbers(n.e, benign)
       [] OTHER -> {}

RECURSIVE isBareLiteral(_)
isBareLiteral(n) == n.k = "number" \/ (n.k \in {"unary", "group"} /\ isBareLiteral(n.e))

AUD_002(graph) ==
  {finding("AUD-002", "medium", graph, n) : n \in {n \in DOMAIN graph.formulas :
     LET info == graph.formulas[n]
     IN ~info.unparsed /\ magicNumbers(info.ast, FALSE) # {} /\ ~isBareLiteral(info.ast)}}

----------------------------------------------------------------------------
(* AUD-004: errors, of which only those are listed that no error leads to.    *)

isErrorValue(v) == isError(v) /\ v.e # "#CIRCULAR!"
ErrorCells(book) == {p \in DOMAIN book.cells : isErrorValue(book.cells[p].v)}

isPropagated(book, graph, p) ==
  \E n \in nodeAt(graph, p) : \E m \in precedents(graph, n) : Cells(m) \intersect ErrorCells(book) # {}

\* When every error follows from another, all of them are listed.
Reportable(book, graph) ==
  LET roots == {p \in ErrorCells(book) : ~isPropagated(book, graph, p)}
  IN IF roots # {} THEN roots ELSE ErrorCells(book)

AUD_004(book, graph) ==
  LET radius(p) == FoldSet(LAMBDA n, sum : sum + blastRadius(graph, n), 0, nodeAt(graph, p))
  IN {[rule |-> "AUD-004", severity |-> "critical", at |-> p, radius |-> radius(p)] :
        p \in Reportable(book, graph)}

----------------------------------------------------------------------------
(* AUD-005, 006, 009 and 011, AUD-008.                                        *)

\* One row for each group, at a node of it that the walk happened to end with.
AUD_005(graph) ==
  {[rule |-> "AUD-005", severity |-> "critical", at |-> Anchor(CHOOSE n \in group : TRUE),
    radius |-> FoldSet(LAMBDA n, sum : sum + blastRadius(graph, n), 0, group)] :
     group \in graph.cycles}

\* Only references to a single cell: a blank within a range is normal.
AUD_006(book, graph) ==
  LET single(axis) == ~axis.whole /\ axis.lo = axis.hi
      empty(a) == single(a.rows) /\ single(a.cols)
                  /\ IsBlank(Read(book, <<a.sheet, a.rows.lo, a.cols.lo>>))
  IN {finding("AUD-006", "medium", graph, n) : n \in {n \in DOMAIN graph.formulas :
        \E a \in ToSet(graph.formulas[n].resolved) : empty(a)}}

AUD_009(graph) ==
  LET volatile == {n \in DOMAIN graph.formulas : graph.formulas[n].volatile}
      total == FoldSet(LAMBDA n, sum : sum + cellCount(n), 0, volatile)
  IN {finding("AUD-009", IF total > 50 THEN "medium" ELSE "low", graph, n) : n \in volatile}

AUD_011(graph) ==
  LET severity(info) == IF info.external THEN "medium" ELSE "low"
  IN {finding("AUD-011", severity(graph.formulas[n]), graph, n) : n \in {n \in DOMAIN graph.formulas :
        \/ graph.formulas[n].external \/ graph.formulas[n].computed
        \/ graph.formulas[n].unresolved > 0}}

CheckLabels == {"check"}
LabelReach == 40

\* The formulas to the right of a label that says they are a check, which should be 0.
detectBalanceAssertions(book) ==
  LET labels == {p \in DOMAIN book.cells : /\ ~HasFormula(book.cells[p])
                                           /\ book.cells[p].v \in {Txt(s) : s \in CheckLabels}}
  IN {q \in FormulaCells(book) : \E p \in labels :
        q[1] = p[1] /\ q[2] = p[2] /\ q[3] > p[3] /\ q[3] <= p[3] + LabelReach}

checkBalanceAssertions(book, graph) ==
  LET v(p) == book.cells[p].v
      radius(p) == FoldSet(LAMBDA n, sum : sum + blastRadius(graph, n), 0, nodeAt(graph, p))
      row(p, severity, r) == [rule |-> "AUD-008", severity |-> severity, at |-> p, radius |-> r]
      checks == detectBalanceAssertions(book)
  IN {row(p, "high", 0) : p \in {p \in checks : ~IsNum(v(p))}}
     \union {row(p, "critical", radius(p)) : p \in {p \in checks : IsNum(v(p)) /\ v(p) # Num(0)}}

----------------------------------------------------------------------------
(* The report. *)

RulesRun == <<"AUD-001", "AUD-002", "AUD-004", "AUD-005", "AUD-006", "AUD-009", "AUD-011", "AUD-008">>

Findings(book, graph) ==
  AUD_001(graph) \union AUD_002(graph) \union AUD_004(book, graph) \union AUD_005(graph)
  \union AUD_006(book, graph) \union AUD_009(graph) \union AUD_011(graph)
  \union checkBalanceAssertions(book, graph)

\* Mutant: how much is downstream goes before severity.
RanksBeforeByRadius(f, g) ==
  LET s == severityRank(f.severity) - severityRank(g.severity)
      rule(h) == SelectInSeq(RulesRun, LAMBDA r : r = h.rule)
  IN f.radius > g.radius \/ (f.radius = g.radius /\ (rule(f) < rule(g) \/ (rule(f) = rule(g) /\ s < 0)))
\* Severity first, then how much is downstream, then the order of the rules.
RanksBefore(f, g) ==
  LET s == severityRank(f.severity) - severityRank(g.severity)
      rule(h) == SelectInSeq(RulesRun, LAMBDA r : r = h.rule)
  IN s < 0 \/ (s = 0 /\ (f.radius > g.radius \/ (f.radius = g.radius /\ rule(f) < rule(g))))

\* One row per cell: the finding that ranks first, with the rules that fired there too.
dedupeByAddress(findings) ==
  LET at(p) == {f \in findings : f.at = p}
      primary(p) == CHOOSE f \in at(p) : \A g \in at(p) \ {f} : RanksBefore(f, g)
  IN [p \in {f.at : f \in findings} |->
        [rule |-> primary(p).rule, severity |-> primary(p).severity, radius |-> primary(p).radius,
         alsoFlaggedBy |-> {f.rule : f \in at(p) \ {primary(p)}}]]

runAudit(book, graph) ==
  [rows |-> dedupeByAddress(Findings(book, graph)), complete |-> coverageComplete(graph)]
=============================================================================
