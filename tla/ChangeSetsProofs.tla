--------------------------- MODULE ChangeSetsProofs ---------------------------
(***************************************************************************)
(* Lemmas about the operators of ChangeSets, for every workbook and every    *)
(* list of edits: what applying, recalculating, planning and undoing leave   *)
(* alone, and what a risk bounds.                                            *)
(***************************************************************************)
EXTENDS ChangeSets, NumberLemmas

IsList(s) == s \in Seq(ToSet(s))
IsEditList(edits) == IsList(edits) /\ \A i \in DOMAIN edits : IsEdit(edits[i])

LEMMA ListDomain ==
  ASSUME NEW s, IsList(s)
  PROVE  Len(s) \in Nat /\ DOMAIN s = 1 .. Len(s)
  BY DEF IsList

LEMMA SeqIsList ==
  ASSUME NEW S, NEW s \in Seq(S)
  PROVE  IsList(s)
<1>1. \A i \in 1 .. Len(s) : s[i] \in ToSet(s)
  BY DEF ToSet
<1>. QED BY <1>1 DEF IsList

LEMMA ListConcat ==
  ASSUME NEW s, NEW t, IsList(s), IsList(t)
  PROVE  /\ IsList(s \o t) /\ Len(s \o t) = Len(s) + Len(t)
         /\ \A i \in 1 .. Len(s) : (s \o t)[i] = s[i]
         /\ \A i \in 1 .. Len(t) : (s \o t)[Len(s) + i] = t[i]
         /\ SubSeq(s \o t, Len(s) + 1, Len(s \o t)) = t
<1>. DEFINE S == ToSet(s) \cup ToSet(t)
<1>1. s \in Seq(S) /\ t \in Seq(S)
  <2>1. \A i \in 1 .. Len(s) : s[i] \in S
    BY DEF IsList, ToSet
  <2>2. \A i \in 1 .. Len(t) : t[i] \in S
    BY DEF IsList, ToSet
  <2>. QED BY <2>1, <2>2 DEF IsList
<1>. HIDE DEF S
<1>2. /\ s \o t \in Seq(S) /\ Len(s \o t) = Len(s) + Len(t)
      /\ \A i \in 1 .. Len(s) : (s \o t)[i] = s[i]
      /\ \A i \in 1 .. Len(t) : (s \o t)[Len(s) + i] = t[i]
      /\ SubSeq(s \o t, Len(s) + 1, Len(s \o t)) = t
  BY <1>1
<1>. QED BY <1>2, SeqIsList

-----------------------------------------------------------------------------
(* Touched cells.                                                            *)

LEMMA TouchedCells ==
  ASSUME NEW edits, IsEditList(edits)
  PROVE  Touched(edits) \subseteq Cells
  BY DEF Touched, IsEditList, IsEdit

LEMMA TouchedConcat ==
  ASSUME NEW e1, NEW e2, IsEditList(e1), IsEditList(e2)
  PROVE  /\ IsEditList(e1 \o e2)
         /\ Touched(e1 \o e2) = Touched(e1) \cup Touched(e2)
         /\ SubSeq(e1 \o e2, Len(e1) + 1, Len(e1 \o e2)) = e2
<1>. DEFINE e == e1 \o e2
<1>1. /\ IsList(e) /\ Len(e) = Len(e1) + Len(e2)
      /\ \A i \in 1 .. Len(e1) : e[i] = e1[i]
      /\ \A i \in 1 .. Len(e2) : e[Len(e1) + i] = e2[i]
      /\ SubSeq(e, Len(e1) + 1, Len(e)) = e2
  BY ListConcat DEF IsEditList
<1>2. /\ Len(e1) \in Nat /\ Len(e2) \in Nat /\ DOMAIN e = 1 .. Len(e)
      /\ DOMAIN e1 = 1 .. Len(e1) /\ DOMAIN e2 = 1 .. Len(e2)
  BY <1>1, ListDomain DEF IsEditList
<1>. HIDE DEF e
<1>3. ASSUME NEW i \in DOMAIN e
      PROVE  \/ i \in DOMAIN e1 /\ e[i] = e1[i]
             \/ i - Len(e1) \in DOMAIN e2 /\ e[i] = e2[i - Len(e1)]
  <2>1. i \in 1 .. Len(e1) \/ i - Len(e1) \in 1 .. Len(e2)
    BY <1>1, <1>2
  <2>2. Len(e1) + (i - Len(e1)) = i
    BY <1>2
  <2>. QED BY <2>1, <2>2, <1>1, <1>2
<1>4. IsEditList(e)
  BY <1>1, <1>3 DEF IsEditList
<1>5. ASSUME NEW c
      PROVE  c \in Touched(e) <=> c \in Touched(e1) \/ c \in Touched(e2)
  <2>1. ASSUME NEW i \in DOMAIN e, isCellEdit(e[i]), c = e[i].cell
        PROVE  c \in Touched(e1) \/ c \in Touched(e2)
    BY <2>1, <1>3 DEF Touched
  <2>2. ASSUME NEW i \in DOMAIN e1, isCellEdit(e1[i]), c = e1[i].cell
        PROVE  c \in Touched(e)
    <3>1. i \in DOMAIN e /\ e[i] = e1[i]
      BY <1>1, <1>2
    <3>. QED BY <3>1, <2>2 DEF Touched
  <2>3. ASSUME NEW i \in DOMAIN e2, isCellEdit(e2[i]), c = e2[i].cell
        PROVE  c \in Touched(e)
    <3>1. Len(e1) + i \in DOMAIN e /\ e[Len(e1) + i] = e2[i]
      BY <1>1, <1>2
    <3>. QED BY <3>1, <2>3 DEF Touched
  <2>. QED BY <2>1, <2>2, <2>3 DEF Touched
<1>. QED BY <1>1, <1>4, <1>5 DEF e

-----------------------------------------------------------------------------
(* Recalculation and edits.                                                  *)

\* Recalculation moves the values of formula cells, and nothing else.
LEMMA Recalculated ==
  ASSUME NEW w, IsWorkbook(w)
  PROVE  LET r == Recalculate(w)
         IN  /\ IsWorkbook(r) /\ r.sheets = w.sheets /\ r.names = w.names
             /\ \A c \in Cells :
                  /\ r.cells[c].absent = w.cells[c].absent
                  /\ r.cells[c].formula = w.cells[c].formula
                  /\ r.cells[c].format = w.cells[c].format
                  /\ w.cells[c].formula = None => r.cells[c] = w.cells[c]
<1>. DEFINE input(c) == w.cells[RefOf[w.cells[c].formula]]
            result(c) == IF w.cells[c].formula \in Broken THEN Error
                         ELSE IF input(c).absent THEN "0"
                         ELSE IF input(c).formula # None THEN "computed"
                         ELSE input(c).value
            cell(c) == IF w.cells[c].formula = None THEN w.cells[c]
                       ELSE [w.cells[c] EXCEPT !.value = result(c)]
            cells == [c \in Cells |-> cell(c)]
            r == [w EXCEPT !.cells = cells]
<1>1. Recalculate(w) = r
  BY DEF Recalculate
<1>2. ASSUME NEW c \in Cells
      PROVE  /\ IsCell(cell(c))
             /\ cell(c).absent = w.cells[c].absent
             /\ cell(c).formula = w.cells[c].formula
             /\ cell(c).format = w.cells[c].format
             /\ w.cells[c].formula = None => cell(c) = w.cells[c]
  <2>1. IsCell(w.cells[c])
    BY DEF IsWorkbook
  <2>. HIDE DEF result
  <2>. QED BY <2>1 DEF IsCell
<1>. HIDE DEF cell
<1>3. r.sheets = w.sheets /\ r.names = w.names /\ r.cells = cells
      /\ r = [sheets |-> r.sheets, cells |-> r.cells, names |-> r.names]
  BY DEF IsWorkbook
<1>. HIDE DEF r
<1>. QED BY <1>1, <1>2, <1>3 DEF IsWorkbook

LEMMA OneEdit ==
  ASSUME NEW w, IsWorkbook(w), NEW e, IsEdit(e)
  PROVE  /\ IsWorkbook(ApplyEdit(w, e))
         /\ \A c \in Cells : ~(isCellEdit(e) /\ e.cell = c)
                               => ApplyEdit(w, e).cells[c] = w.cells[c]
<1>0. /\ w = [sheets |-> w.sheets, cells |-> w.cells, names |-> w.names]
      /\ w.cells = [c \in Cells |-> w.cells[c]]
      /\ \A c \in Cells : IsCell(w.cells[c])
  BY DEF IsWorkbook
<1>1. CASE isCellEdit(e)
  <2>. DEFINE cell == EditedCell(w.cells[e.cell], e)
              cells == [w.cells EXCEPT ![e.cell] = cell]
              n == [sheets |-> w.sheets \cup {SheetOf[e.cell]}, cells |-> cells, names |-> w.names]
  <2>1. e.cell \in Cells /\ IsCell(w.cells[e.cell])
    BY <1>0, <1>1 DEF IsEdit
  <2>2. IsCell(cell)
    BY <2>1, <1>1 DEF IsCell, EditedCell, Absent, isCellEdit, CellKinds
  <2>. HIDE DEF cell
  <2>3. /\ cells = [c \in Cells |-> cells[c]]
        /\ \A c \in Cells : cells[c] = IF c = e.cell THEN cell ELSE w.cells[c]
    BY <1>0, <2>1
  <2>4. ApplyEdit(w, e) = [w EXCEPT !.sheets = @ \cup {SheetOf[e.cell]}, !.cells[e.cell] = cell]
    BY <1>1 DEF ApplyEdit, cell, isCellEdit, CellKinds
  <2>5. ApplyEdit(w, e) = n
    BY <1>0, <2>4
  <2>. HIDE DEF cells
  <2>6. n.cells = cells /\ n = [sheets |-> n.sheets, cells |-> n.cells, names |-> n.names]
    OBVIOUS
  <2>. HIDE DEF n
  <2>7. IsWorkbook(n)
    BY <1>0, <2>2, <2>3, <2>6 DEF IsWorkbook
  <2>. QED BY <1>1, <2>3, <2>5, <2>6, <2>7
<1>2. CASE ~isCellEdit(e)
  <2>. DEFINE n == ApplyEdit(w, e)
  <2>1. \/ n = [w EXCEPT !.sheets = @ \cup {e.sheet}]
        \/ n = [w EXCEPT !.names[e.name] = e.to]
    BY <1>2 DEF ApplyEdit, IsEdit
  <2>2. n.cells = w.cells /\ n = [sheets |-> n.sheets, cells |-> n.cells, names |-> n.names]
    BY <2>1 DEF IsWorkbook
  <2>. HIDE DEF n
  <2>3. IsWorkbook(n) /\ \A c \in Cells : n.cells[c] = w.cells[c]
    BY <2>2 DEF IsWorkbook
  <2>. QED BY <2>3 DEF n
<1>. QED BY <1>1, <1>2

\* After i of the edits x.edits to x.w.
EditsLeave(x, i, acc) ==
  /\ IsWorkbook(acc)
  /\ \A c \in Cells :
       (\A j \in 1 .. i : ~(isCellEdit(x.edits[j]) /\ x.edits[j].cell = c))
         => acc.cells[c] = x.w.cells[c]

Editing == INSTANCE LeftFolds WITH Op <- ApplyEdit, Holds <- EditsLeave

\* Applying edits leaves the cells alone that they do not touch.
LEMMA EditsApplied ==
  ASSUME NEW w, IsWorkbook(w), NEW edits, IsEditList(edits)
  PROVE  /\ IsWorkbook(ApplyEdits(w, edits))
         /\ \A c \in Cells \ Touched(edits) : ApplyEdits(w, edits).cells[c] = w.cells[c]
<1>. DEFINE x == [w |-> w, edits |-> edits]
            n == Len(edits)
<1>1. n \in Nat /\ DOMAIN edits = 1 .. n
  BY ListDomain DEF IsEditList
<1>. HIDE DEF n
<1>2. EditsLeave(x, 0, w)
  BY DEF EditsLeave
<1>3. ASSUME NEW i \in 1 .. n, NEW acc, EditsLeave(x, i - 1, acc)
      PROVE  EditsLeave(x, i, ApplyEdit(acc, edits[i]))
  <2>1. IsWorkbook(acc) /\ IsEdit(edits[i])
    BY <1>1, <1>3 DEF EditsLeave, IsEditList
  <2>2. /\ IsWorkbook(ApplyEdit(acc, edits[i]))
        /\ \A c \in Cells : ~(isCellEdit(edits[i]) /\ edits[i].cell = c)
                              => ApplyEdit(acc, edits[i]).cells[c] = acc.cells[c]
    BY <2>1, OneEdit
  <2>3. ASSUME NEW c \in Cells,
               \A j \in 1 .. i : ~(isCellEdit(edits[j]) /\ edits[j].cell = c)
        PROVE  ApplyEdit(acc, edits[i]).cells[c] = w.cells[c]
    <3>1. i \in 1 .. i /\ \A j \in 1 .. (i - 1) : j \in 1 .. i
      BY <1>1
    <3>2. acc.cells[c] = w.cells[c]
      BY <3>1, <2>3, <1>3 DEF EditsLeave
    <3>. QED BY <3>1, <3>2, <2>2, <2>3
  <2>. QED BY <2>2, <2>3 DEF EditsLeave
<1>4. EditsLeave(x, n, Editing!Folded(w, edits))
  <2>. HIDE DEF x
  <2>. QED BY <1>1, <1>2, <1>3, Editing!FoldInvariant
<1>5. Editing!Folded(w, edits) = ApplyEdits(w, edits)
  BY DEF Editing!Folded, ApplyEdits, FoldLeft, Editing!FoldLeft, MapThenFoldSet,
         Editing!MapThenFoldSet, Max, Editing!Max
<1>. QED BY <1>1, <1>4, <1>5 DEF EditsLeave, Touched

-----------------------------------------------------------------------------
(* Risk.                                                                     *)

LEMMA RiskBounds ==
  ASSUME NEW edits, NEW w, NEW prior
  PROVE  /\ overallRisk(edits, w, prior) \in {Low, Medium, High}
         /\ \A i \in DOMAIN edits : /\ riskOf(edits[i], w, prior) \in {Low, Medium, High}
                                    /\ riskOf(edits[i], w, prior) <= overallRisk(edits, w, prior)
<1>. DEFINE Risks == {Low} \cup {riskOf(edits[i], w, prior) : i \in DOMAIN edits}
<1>1. \A e : riskOf(e, w, prior) \in {Low, Medium, High}
  BY DEF riskOf
<1>2. Risks \subseteq {Low, Medium, High} /\ Risks # {}
  BY <1>1
<1>3. \A i \in DOMAIN edits : riskOf(edits[i], w, prior) \in Risks
  OBVIOUS
<1>4. overallRisk(edits, w, prior) = Max(Risks)
  BY DEF overallRisk
<1>. HIDE DEF Risks
<1>5. Max(Risks) \in Risks /\ \A r \in Risks : r <= Max(Risks)
  <2>1. Risks \subseteq 0 .. 2
    BY <1>2 DEF Low, Medium, High
  <2>2. \E m \in Risks : \A r \in Risks : r <= m
    BY <1>2, <2>1, GreatestNumber
  <2>3. \E m \in Risks : \A r \in Risks : m >= r
    BY <2>1, <2>2
  <2>4. Max(Risks) \in Risks /\ \A r \in Risks : Max(Risks) >= r
    BY <2>3 DEF Max
  <2>. QED BY <2>1, <2>4
<1>. QED BY <1>1, <1>2, <1>3, <1>4, <1>5

\* What is of low risk is a number format.
LEMMA LowIsFormat ==
  ASSUME NEW e, NEW w, NEW prior, riskOf(e, w, prior) <= Low
  PROVE  e.kind = "setNumberFormat"
  BY DEF riskOf, Low, Medium, High

-----------------------------------------------------------------------------
(* Structural edits and their inverses.                                      *)

InversesSoFar(x, i, ops) == ops \in Seq(ToSet(x))

Planning == INSTANCE LeftFolds WITH Op <- AddInverse, Holds <- InversesSoFar

LEMMA PlanIsList ==
  ASSUME NEW w, NEW edits, IsEditList(edits)
  PROVE  IsList(planCompensation(w, edits))
<1>. DEFINE plans == [i \in DOMAIN edits |-> planOne(w, edits, i)]
            n == Len(edits)
<1>1. n \in Nat /\ DOMAIN plans = 1 .. n
  BY ListDomain DEF IsEditList
<1>2. planCompensation(w, edits) = FoldLeft(AddInverse, <<>>, plans)
  BY DEF planCompensation
<1>. HIDE DEF n, plans
<1>3. InversesSoFar(plans, 0, <<>>)
  BY DEF InversesSoFar
<1>4. ASSUME NEW i \in 1 .. n, NEW ops, InversesSoFar(plans, i - 1, ops)
      PROVE  InversesSoFar(plans, i, AddInverse(ops, plans[i]))
  <2>1. plans[i] \in ToSet(plans)
    BY <1>1 DEF ToSet
  <2>. QED BY <2>1, <1>4 DEF InversesSoFar, AddInverse
<1>5. InversesSoFar(plans, n, Planning!Folded(<<>>, plans))
  BY <1>1, <1>3, <1>4, Planning!FoldInvariant
<1>6. Planning!Folded(<<>>, plans) = planCompensation(w, edits)
  BY <1>2 DEF Planning!Folded, FoldLeft, Planning!FoldLeft, MapThenFoldSet,
              Planning!MapThenFoldSet, Max, Planning!Max
<1>. QED BY <1>5, <1>6, SeqIsList DEF InversesSoFar

\* Undoing the structure of x has so far only removed sheets, cells and all.
OnlySheetsGone(x, i, acc) ==
  /\ acc = [wb |-> acc.wb, unreversed |-> acc.unreversed]
  /\ IsWorkbook(acc.wb)
  /\ acc.wb.sheets \subseteq x.sheets
  /\ \A c \in Cells : SheetOf[c] \in acc.wb.sheets => acc.wb.cells[c] = x.cells[c]

Undoing == INSTANCE LeftFolds WITH Op <- UndoOrReport, Holds <- OnlySheetsGone

LEMMA SheetRemoved ==
  ASSUME NEW w, IsWorkbook(w), NEW sheet
  PROVE  LET n == RemoveSheet(w, sheet)
         IN  /\ IsWorkbook(n) /\ n.sheets = w.sheets \ {sheet}
             /\ \A c \in Cells : SheetOf[c] # sheet => n.cells[c] = w.cells[c]
<1>. DEFINE cells == [c \in Cells |-> IF SheetOf[c] = sheet THEN Absent ELSE w.cells[c]]
            n == [sheets |-> w.sheets \ {sheet}, cells |-> cells, names |-> w.names]
<1>0. /\ w = [sheets |-> w.sheets, cells |-> w.cells, names |-> w.names]
      /\ \A c \in Cells : IsCell(w.cells[c])
  BY DEF IsWorkbook
<1>a. RemoveSheet(w, sheet) = [w EXCEPT !.sheets = @ \ {sheet}, !.cells = cells]
  BY DEF RemoveSheet
<1>b. cells = [c \in Cells |-> cells[c]] /\ DOMAIN cells = Cells
      /\ \A c \in Cells : cells[c] = IF SheetOf[c] = sheet THEN Absent ELSE w.cells[c]
  OBVIOUS
<1>. HIDE DEF cells
<1>1. RemoveSheet(w, sheet) = n
  BY <1>0, <1>a
<1>2. IsCell(Absent)
  BY DEF IsCell, Absent
<1>3. n.sheets = w.sheets \ {sheet} /\ n.cells = cells
      /\ n = [sheets |-> n.sheets, cells |-> n.cells, names |-> n.names]
  OBVIOUS
<1>. HIDE DEF n
<1>. QED BY <1>0, <1>1, <1>b, <1>2, <1>3 DEF IsWorkbook

LEMMA OneUndo ==
  ASSUME NEW w, IsWorkbook(w), NEW op, CanUndo(w, op)
  PROVE  LET n == Undo(w, op)
         IN  /\ IsWorkbook(n)
             /\ n.sheets \subseteq w.sheets
             /\ \A c \in Cells : SheetOf[c] \in n.sheets => n.cells[c] = w.cells[c]
<1>0. /\ w = [sheets |-> w.sheets, cells |-> w.cells, names |-> w.names]
      /\ w.cells = [c \in Cells |-> w.cells[c]]
      /\ \A c \in Cells : IsCell(w.cells[c])
  BY DEF IsWorkbook
<1>1. CASE op.kind = "deleteSheet"
  <2>1. Undo(w, op) = RemoveSheet(w, op.sheet)
    BY <1>1 DEF Undo
  <2>2. /\ IsWorkbook(Undo(w, op)) /\ Undo(w, op).sheets = w.sheets \ {op.sheet}
        /\ \A c \in Cells : SheetOf[c] # op.sheet => Undo(w, op).cells[c] = w.cells[c]
    BY <2>1, SheetRemoved
  <2>. QED BY <2>2
<1>2. CASE op.kind # "deleteSheet"
  <2>. DEFINE n == Undo(w, op)
  <2>1. \/ n = [w EXCEPT !.names[op.name] = None]
        \/ n = [w EXCEPT !.names[op.name] = op.to]
    BY <1>2 DEF CanUndo, Undo
  <2>2. /\ n = [sheets |-> n.sheets, cells |-> n.cells, names |-> n.names]
        /\ n.sheets = w.sheets /\ n.cells = w.cells
    BY <1>0, <2>1
  <2>. HIDE DEF n
  <2>3. IsWorkbook(n)
    BY <2>2, <1>0 DEF IsWorkbook
  <2>. QED BY <2>2, <2>3 DEF n
<1>. QED BY <1>1, <1>2

\* Undoing the structure leaves the cells of the sheets alone that it leaves.
LEMMA Compensated ==
  ASSUME NEW w, IsWorkbook(w), NEW ops, IsList(ops)
  PROVE  LET n == applyCompensation(w, ops).wb
         IN  /\ IsWorkbook(n)
             /\ n.sheets \subseteq w.sheets
             /\ \A c \in Cells : SheetOf[c] \in n.sheets => n.cells[c] = w.cells[c]
<1>. DEFINE rev == Reverse(ops)
            n == Len(ops)
            base == [wb |-> w, unreversed |-> {}]
<1>1. n \in Nat /\ DOMAIN rev = 1 .. n
  BY ListDomain DEF Reverse
<1>2. OnlySheetsGone(w, 0, base)
  BY DEF OnlySheetsGone
<1>3. applyCompensation(w, ops) = FoldLeft(UndoOrReport, base, rev)
  BY DEF applyCompensation
<1>. HIDE DEF n, rev, base
<1>4. ASSUME NEW i \in 1 .. n, NEW acc, OnlySheetsGone(w, i - 1, acc)
      PROVE  OnlySheetsGone(w, i, UndoOrReport(acc, rev[i]))
  <2>. DEFINE op == rev[i]
              next == UndoOrReport(acc, op)
  <2>0. acc = [wb |-> acc.wb, unreversed |-> acc.unreversed] /\ IsWorkbook(acc.wb)
    BY <1>4 DEF OnlySheetsGone
  <2>. HIDE DEF op
  <2>1. CASE CanUndo(acc.wb, op)
    <3>1. next = [wb |-> Undo(acc.wb, op), unreversed |-> acc.unreversed]
      BY <2>0, <2>1 DEF UndoOrReport
    <3>. HIDE DEF next
    <3>2. next.wb = Undo(acc.wb, op) /\ next = [wb |-> next.wb, unreversed |-> next.unreversed]
      BY <3>1
    <3>3. /\ IsWorkbook(next.wb)
          /\ next.wb.sheets \subseteq acc.wb.sheets
          /\ \A c \in Cells : SheetOf[c] \in next.wb.sheets => next.wb.cells[c] = acc.wb.cells[c]
      BY <2>0, <2>1, <3>2, OneUndo
    <3>4. OnlySheetsGone(w, i, next)
      BY <3>2, <3>3, <1>4 DEF OnlySheetsGone
    <3>. QED BY <3>4 DEF next, op
  <2>2. CASE ~CanUndo(acc.wb, op)
    <3>1. next = [wb |-> acc.wb, unreversed |-> acc.unreversed \cup {op}]
      BY <2>0, <2>2 DEF UndoOrReport
    <3>. HIDE DEF next
    <3>2. next.wb = acc.wb /\ next = [wb |-> next.wb, unreversed |-> next.unreversed]
      BY <3>1
    <3>3. OnlySheetsGone(w, i, next)
      BY <3>2, <1>4 DEF OnlySheetsGone
    <3>. QED BY <3>3 DEF next, op
  <2>. QED BY <2>1, <2>2
<1>5. OnlySheetsGone(w, n, Undoing!Folded(base, rev))
  BY <1>1, <1>2, <1>4, Undoing!FoldInvariant
<1>6. Undoing!Folded(base, rev) = applyCompensation(w, ops)
  BY <1>3 DEF Undoing!Folded, FoldLeft, Undoing!FoldLeft, MapThenFoldSet,
              Undoing!MapThenFoldSet, Max, Undoing!Max
<1>. QED BY <1>5, <1>6 DEF OnlySheetsGone

-----------------------------------------------------------------------------
(* Change sets.                                                              *)

IsChangeSet(s) ==
  /\ s = [edits |-> s.edits, risk |-> s.risk, snapshots |-> s.snapshots,
          applied |-> s.applied, compensation |-> s.compensation]
  /\ IsEditList(s.edits)
  /\ s.risk \in {Low, Medium, High}
  /\ s.snapshots = [c \in Touched(s.edits) |-> s.snapshots[c]]
  /\ \A c \in Touched(s.edits) : IsCell(s.snapshots[c])
  /\ DOMAIN s.applied \subseteq Touched(s.edits)
  /\ IsList(s.compensation)

LEMMA Proposed ==
  ASSUME NEW w, IsWorkbook(w), NEW edits, IsEditList(edits)
  PROVE  LET s == proposeChangeSet(w, edits)
         IN  /\ IsChangeSet(s) /\ s.edits = edits
             /\ \A c \in Touched(edits) : s.snapshots[c] = w.cells[c]
             /\ s.risk = overallRisk(edits, w, <<>>)
             /\ s.applied = <<>>
<1>. DEFINE s == proposeChangeSet(w, edits)
<1>1. /\ s.edits = edits /\ s.risk = overallRisk(edits, w, <<>>)
      /\ s.snapshots = [c \in Touched(edits) |-> w.cells[c]]
      /\ s.applied = <<>> /\ s.compensation = planCompensation(w, edits)
      /\ s = [edits |-> s.edits, risk |-> s.risk, snapshots |-> s.snapshots,
              applied |-> s.applied, compensation |-> s.compensation]
  BY DEF proposeChangeSet, Snapshot
<1>. HIDE DEF s
<1>2. s.risk \in {Low, Medium, High} /\ IsList(s.compensation)
  BY <1>1, RiskBounds, PlanIsList
<1>3. \A c \in Touched(edits) : s.snapshots[c] = w.cells[c] /\ IsCell(s.snapshots[c])
  BY <1>1, TouchedCells DEF IsWorkbook
<1>4. DOMAIN s.applied = {}
  BY <1>1
<1>5. IsChangeSet(s)
  BY <1>1, <1>2, <1>3, <1>4 DEF IsChangeSet
<1>. QED BY <1>1, <1>3, <1>5 DEF s

\* What the applied state of s over w is merged into.
LEMMA Merged ==
  ASSUME NEW a, IsChangeSet(a), NEW b, IsChangeSet(b)
  PROVE  LET m == mergeChangeSets(a, b)
         IN  /\ IsChangeSet(m) /\ m.edits = a.edits \o b.edits /\ m.risk = a.risk
             /\ Touched(m.edits) = Touched(a.edits) \cup Touched(b.edits)
             /\ SubSeq(m.edits, Len(a.edits) + 1, Len(m.edits)) = b.edits
             /\ m.compensation = a.compensation \o b.compensation
             /\ DOMAIN m.applied = DOMAIN a.applied \cup DOMAIN b.applied
             /\ \A c \in DOMAIN m.applied : m.applied[c] = IF c \in DOMAIN b.applied
                                                          THEN b.applied[c] ELSE a.applied[c]
             /\ \A c \in Touched(m.edits) : m.snapshots[c] = IF c \in Touched(a.edits)
                                                            THEN a.snapshots[c] ELSE b.snapshots[c]
<1>. DEFINE m == mergeChangeSets(a, b)
            snaps == [c \in DOMAIN a.snapshots \cup DOMAIN b.snapshots |->
                        IF c \in DOMAIN a.snapshots THEN a.snapshots[c] ELSE b.snapshots[c]]
            writes == [c \in DOMAIN b.applied \cup DOMAIN a.applied |->
                         IF c \in DOMAIN b.applied THEN b.applied[c] ELSE a.applied[c]]
<1>0. /\ a = [edits |-> a.edits, risk |-> a.risk, snapshots |-> a.snapshots,
              applied |-> a.applied, compensation |-> a.compensation]
      /\ DOMAIN a.snapshots = Touched(a.edits) /\ DOMAIN b.snapshots = Touched(b.edits)
  BY DEF IsChangeSet
<1>1. m = [a EXCEPT !.edits = @ \o b.edits, !.snapshots = snaps, !.applied = writes,
                    !.compensation = @ \o b.compensation]
  BY DEF mergeChangeSets
<1>. HIDE DEF m, snaps, writes
<1>2. /\ m.edits = a.edits \o b.edits /\ m.risk = a.risk /\ m.snapshots = snaps
      /\ m.applied = writes /\ m.compensation = a.compensation \o b.compensation
      /\ m = [edits |-> m.edits, risk |-> m.risk, snapshots |-> m.snapshots,
              applied |-> m.applied, compensation |-> m.compensation]
  BY <1>0, <1>1
<1>3. /\ IsEditList(m.edits)
      /\ Touched(m.edits) = Touched(a.edits) \cup Touched(b.edits)
      /\ SubSeq(m.edits, Len(a.edits) + 1, Len(m.edits)) = b.edits
  BY <1>2, TouchedConcat DEF IsChangeSet
<1>4. IsList(m.compensation) /\ m.risk \in {Low, Medium, High}
  BY <1>2, ListConcat DEF IsChangeSet
<1>5. /\ DOMAIN snaps = Touched(m.edits)
      /\ snaps = [c \in Touched(m.edits) |-> snaps[c]]
      /\ \A c \in Touched(m.edits) : snaps[c] = IF c \in Touched(a.edits)
                                                THEN a.snapshots[c] ELSE b.snapshots[c]
  BY <1>0, <1>3 DEF snaps
<1>6. \A c \in Touched(m.edits) : IsCell(snaps[c])
  BY <1>3, <1>5 DEF IsChangeSet
<1>7. /\ DOMAIN writes = DOMAIN a.applied \cup DOMAIN b.applied
      /\ \A c \in DOMAIN writes : writes[c] = IF c \in DOMAIN b.applied
                                              THEN b.applied[c] ELSE a.applied[c]
  BY DEF writes
<1>8. DOMAIN writes \subseteq Touched(m.edits)
  BY <1>3, <1>7 DEF IsChangeSet
<1>9. IsChangeSet(m)
  BY <1>2, <1>3, <1>4, <1>5, <1>6, <1>8 DEF IsChangeSet
<1>. QED BY <1>2, <1>3, <1>5, <1>7, <1>9 DEF m

LEMMA EarlierSnapshotWins ==
  ASSUME NEW a, IsChangeSet(a), NEW b, IsChangeSet(b),
         NEW c \in Touched(a.edits) \cup Touched(b.edits)
  PROVE  mergeChangeSets(a, b).snapshots[c] = IF c \in Touched(a.edits) THEN a.snapshots[c]
                                              ELSE b.snapshots[c]
<1>. DEFINE m == mergeChangeSets(a, b)
<1>1. Touched(m.edits) = Touched(a.edits) \cup Touched(b.edits)
  BY Merged
<1>2. \A x \in Touched(m.edits) : m.snapshots[x] = IF x \in Touched(a.edits)
                                                  THEN a.snapshots[x] ELSE b.snapshots[x]
  BY Merged
<1>. HIDE DEF m
<1>3. m.snapshots[c] = IF c \in Touched(a.edits) THEN a.snapshots[c] ELSE b.snapshots[c]
  BY <1>1, <1>2
<1>. QED BY <1>3 DEF m

\* What a rollback may restore: a cell on a sheet that is there, holding what
\* the change set left there.
Ours(w, s) ==
  {c \in DOMAIN s.snapshots : /\ SheetOf[c] \in w.sheets
                              /\ c \in DOMAIN s.applied
                              /\ ~changedSinceApply(s.applied[c], w.cells[c])}

LEMMA RolledBack ==
  ASSUME NEW w, IsWorkbook(w), NEW s, IsChangeSet(s)
  PROVE  LET r == rollback(w, s)
         IN  /\ IsWorkbook(r.wb)
             /\ r.wb.sheets \subseteq w.sheets
             /\ \A c \in Cells : SheetOf[c] \in r.wb.sheets =>
                  r.wb.cells[c] = IF c \in Ours(w, s) THEN s.snapshots[c] ELSE w.cells[c]
             /\ r.report.conflicts =
                  {c \in DOMAIN s.snapshots \ Ours(w, s) : SheetOf[c] \in w.sheets}
<1>. DEFINE gone == {c \in DOMAIN s.snapshots : SheetOf[c] \notin w.sheets}
            conflicts == {c \in DOMAIN s.snapshots \ gone :
                            \/ c \notin DOMAIN s.applied
                            \/ changedSinceApply(s.applied[c], w.cells[c])}
            ours == DOMAIN s.snapshots \ (gone \cup conflicts)
            cells == [c \in Cells |-> IF c \in ours THEN s.snapshots[c] ELSE w.cells[c]]
            restored == [w EXCEPT !.cells = cells]
            undone == applyCompensation(restored, s.compensation)
<1>1. ours = Ours(w, s)
  BY DEF Ours
<1>2. conflicts = {c \in DOMAIN s.snapshots \ Ours(w, s) : SheetOf[c] \in w.sheets}
  BY DEF Ours
<1>3. rollback(w, s).wb = undone.wb /\ rollback(w, s).report.conflicts = conflicts
  BY DEF rollback
<1>. HIDE DEF ours, conflicts
<1>4. /\ restored = [sheets |-> restored.sheets, cells |-> restored.cells, names |-> restored.names]
      /\ restored.sheets = w.sheets /\ restored.cells = cells
  BY DEF IsWorkbook
<1>5. \A c \in Cells : IsCell(cells[c])
  BY <1>1 DEF Ours, IsChangeSet, IsWorkbook
<1>. HIDE DEF restored
<1>6. IsWorkbook(restored)
  BY <1>4, <1>5 DEF IsWorkbook
<1>7. /\ IsWorkbook(undone.wb)
      /\ undone.wb.sheets \subseteq restored.sheets
      /\ \A c \in Cells : SheetOf[c] \in undone.wb.sheets
                            => undone.wb.cells[c] = restored.cells[c]
  BY <1>6, Compensated DEF IsChangeSet
<1>. HIDE DEF undone
<1>. QED BY <1>1, <1>2, <1>3, <1>4, <1>7

\* What a rollback restores before it undoes the structure.
RestoredBook(w, s) ==
  [sheets |-> w.sheets, names |-> w.names,
   cells |-> [c \in Cells |-> IF c \in Ours(w, s) THEN s.snapshots[c] ELSE w.cells[c]]]

LEMMA RestoredThenUndone ==
  ASSUME NEW w, IsWorkbook(w), NEW s, IsChangeSet(s)
  PROVE  /\ IsWorkbook(RestoredBook(w, s))
         /\ rollback(w, s).wb = applyCompensation(RestoredBook(w, s), s.compensation).wb
<1>. DEFINE gone == {c \in DOMAIN s.snapshots : SheetOf[c] \notin w.sheets}
            conflicts == {c \in DOMAIN s.snapshots \ gone :
                            \/ c \notin DOMAIN s.applied
                            \/ changedSinceApply(s.applied[c], w.cells[c])}
            ours == DOMAIN s.snapshots \ (gone \cup conflicts)
            cells == [c \in Cells |-> IF c \in ours THEN s.snapshots[c] ELSE w.cells[c]]
            restored == [w EXCEPT !.cells = cells]
<1>1. ours = Ours(w, s)
  BY DEF Ours
<1>2. rollback(w, s).wb = applyCompensation(restored, s.compensation).wb
  BY DEF rollback
<1>. HIDE DEF ours
<1>3. restored = RestoredBook(w, s)
  BY <1>1 DEF IsWorkbook, RestoredBook
<1>4. \A c \in Cells : IsCell(RestoredBook(w, s).cells[c])
  BY DEF RestoredBook, Ours, IsChangeSet, IsWorkbook
<1>. HIDE DEF restored
<1>5. IsWorkbook(RestoredBook(w, s))
  BY <1>4 DEF IsWorkbook, RestoredBook
<1>. QED BY <1>2, <1>3, <1>5

-----------------------------------------------------------------------------
(* What a list of inverses undoes.                                           *)

Names(op, n) == op.kind \in {"deleteName", "restoreName"} /\ op.name = n
Deleted(ops) == {ops[i].sheet : i \in {j \in DOMAIN ops : ops[j].kind = "deleteSheet"}}

\* The i-th inverse takes the names v back to u, or leaves a name undefined
\* that an earlier inverse is about.
InverseFits(ops, i, names, u, v) ==
  LET op == ops[i]
  IN  \A n \in names :
        IF Names(op, n)
        THEN /\ v[n] = op.expect
             /\ IF op.kind = "restoreName" THEN op.to = u[n]
                ELSE u[n] = None \/ \E j \in 1 .. (i - 1) : Names(ops[j], n)
        ELSE v[n] = u[n]

\* The names were x before the edits that ops inverts, and are y after them.
IsHistory(h, ops, x, y) ==
  /\ h[0] = x /\ h[Len(ops)] = y
  /\ \A i \in 1 .. Len(ops) : InverseFits(ops, i, DOMAIN x, h[i - 1], h[i])
NamesFit(ops, x, y) == \E h : IsHistory(h, ops, x, y)

LEMMA EditShape ==
  ASSUME NEW w, IsWorkbook(w), NEW e, IsEdit(e)
  PROVE  LET n == ApplyEdit(w, e)
         IN  /\ n.names = IF e.kind = "defineName" THEN [w.names EXCEPT ![e.name] = e.to]
                          ELSE w.names
             /\ n.sheets = IF isCellEdit(e) THEN w.sheets \cup {SheetOf[e.cell]}
                           ELSE IF e.kind = "createSheet" THEN w.sheets \cup {e.sheet}
                           ELSE w.sheets
<1>0. w = [sheets |-> w.sheets, cells |-> w.cells, names |-> w.names]
  BY DEF IsWorkbook
<1>1. CASE isCellEdit(e)
  <2>. DEFINE cell == EditedCell(w.cells[e.cell], e)
  <2>1. ApplyEdit(w, e) = [w EXCEPT !.sheets = @ \cup {SheetOf[e.cell]}, !.cells[e.cell] = cell]
    BY <1>1 DEF ApplyEdit, isCellEdit, CellKinds
  <2>2. e.kind \notin {"defineName", "createSheet"}
    BY <1>1 DEF isCellEdit, CellKinds
  <2>. HIDE DEF cell
  <2>. QED BY <1>0, <1>1, <2>1, <2>2
<1>2. CASE ~isCellEdit(e)
  <2>1. \/ e.kind = "createSheet" /\ ApplyEdit(w, e) = [w EXCEPT !.sheets = @ \cup {e.sheet}]
        \/ e.kind = "defineName" /\ ApplyEdit(w, e) = [w EXCEPT !.names[e.name] = e.to]
    BY <1>2 DEF ApplyEdit, IsEdit
  <2>. QED BY <1>0, <1>2, <2>1
<1>. QED BY <1>1, <1>2

\* A history is prolonged by one inverse, and two are put end to end.
LEMMA HistoryGrows ==
  ASSUME NEW ops, IsList(ops), NEW op, NEW x, NEW y, NEW z, NamesFit(ops, x, y),
         InverseFits(Append(ops, op), Len(ops) + 1, DOMAIN x, y, z)
  PROVE  NamesFit(Append(ops, op), x, z)
<1>. DEFINE m == Len(ops)
            all == Append(ops, op)
<1>1. PICK h : IsHistory(h, ops, x, y)
  BY DEF NamesFit
<1>2. m \in Nat /\ Len(all) = m + 1 /\ \A i \in 1 .. m : all[i] = ops[i]
  BY DEF IsList
<1>. DEFINE g == [i \in 0 .. (m + 1) |-> IF i <= m THEN h[i] ELSE z]
<1>3. g[0] = x /\ g[m] = y /\ g[m + 1] = z /\ \A i \in 0 .. m : g[i] = h[i]
  BY <1>1, <1>2 DEF IsHistory
<1>. HIDE DEF g, all, m
<1>4. ASSUME NEW i \in 1 .. (m + 1)
      PROVE  InverseFits(all, i, DOMAIN x, g[i - 1], g[i])
  <2>1. CASE i = m + 1
    BY <1>2, <1>3, <2>1 DEF all, m
  <2>2. CASE i # m + 1
    <3>1. i \in 1 .. m /\ i - 1 \in 0 .. m /\ i \in 0 .. m
      BY <1>2, <2>2
    <3>2. InverseFits(ops, i, DOMAIN x, h[i - 1], h[i])
      BY <1>1, <3>1 DEF IsHistory, m
    <3>3. all[i] = ops[i] /\ \A j \in 1 .. (i - 1) : all[j] = ops[j]
      BY <1>2, <3>1
    <3>4. g[i] = h[i] /\ g[i - 1] = h[i - 1]
      BY <1>3, <3>1
    <3>. QED BY <3>2, <3>3, <3>4 DEF InverseFits
  <2>. QED BY <2>1, <2>2
<1>5. IsHistory(g, all, x, z)
  BY <1>2, <1>3, <1>4 DEF IsHistory
<1>. QED BY <1>5 DEF NamesFit, all

LEMMA HistoriesJoin ==
  ASSUME NEW a, IsList(a), NEW b, IsList(b), NEW x, NEW y, NEW z,
         DOMAIN y = DOMAIN x, NamesFit(a, x, y), NamesFit(b, y, z)
  PROVE  NamesFit(a \o b, x, z)
<1>. DEFINE m == Len(a)
            k == Len(b)
            all == a \o b
<1>1. PICK f : IsHistory(f, a, x, y)
  BY DEF NamesFit
<1>2. PICK h : IsHistory(h, b, y, z)
  BY DEF NamesFit
<1>3. /\ m \in Nat /\ k \in Nat /\ Len(all) = m + k
      /\ \A i \in 1 .. m : all[i] = a[i]
      /\ \A i \in 1 .. k : all[m + i] = b[i]
  BY ListDomain, ListConcat
<1>. DEFINE g == [i \in 0 .. (m + k) |-> IF i <= m THEN f[i] ELSE h[i - m]]
<1>4. /\ \A i \in 0 .. m : g[i] = f[i]
      /\ \A i \in 0 .. k : g[m + i] = h[i]
  <2>1. \A i \in 0 .. m : g[i] = f[i]
    BY <1>3
  <2>2. g[m] = h[0]
    BY <2>1, <1>1, <1>2, <1>3 DEF IsHistory
  <2>3. \A i \in 1 .. k : g[m + i] = h[i]
    <3>. TAKE i \in 1 .. k
    <3>1. m + i \in 0 .. (m + k) /\ ~(m + i <= m) /\ (m + i) - m = i
      BY <1>3
    <3>. QED BY <3>1
  <2>. HIDE DEF g
  <2>4. \A i \in 0 .. k : i = 0 \/ i \in 1 .. k
    BY <1>3
  <2>5. m + 0 = m
    BY <1>3
  <2>. QED BY <2>1, <2>2, <2>3, <2>4, <2>5
<1>. HIDE DEF g, all, m, k
<1>5. ASSUME NEW i \in 1 .. m
      PROVE  InverseFits(all, i, DOMAIN x, g[i - 1], g[i])
  <2>1. i - 1 \in 0 .. m /\ i \in 0 .. m
    BY <1>3
  <2>2. InverseFits(a, i, DOMAIN x, f[i - 1], f[i])
    BY <1>1 DEF IsHistory, m
  <2>3. all[i] = a[i] /\ \A j \in 1 .. (i - 1) : all[j] = a[j]
    BY <1>3
  <2>. QED BY <1>4, <2>1, <2>2, <2>3 DEF InverseFits
<1>6. ASSUME NEW i \in 1 .. k
      PROVE  InverseFits(all, m + i, DOMAIN x, g[(m + i) - 1], g[m + i])
  <2>1. i - 1 \in 0 .. k /\ i \in 0 .. k /\ (m + i) - 1 = m + (i - 1)
    BY <1>3
  <2>2. InverseFits(b, i, DOMAIN x, h[i - 1], h[i])
    BY <1>2 DEF IsHistory, k
  <2>3. all[m + i] = b[i] /\ \A j \in 1 .. (i - 1) : m + j \in 1 .. ((m + i) - 1) /\ all[m + j] = b[j]
    BY <1>3
  <2>4. g[(m + i) - 1] = h[i - 1] /\ g[m + i] = h[i]
    BY <1>4, <2>1
  <2>. QED BY <2>2, <2>3, <2>4 DEF InverseFits
<1>7. ASSUME NEW i \in 1 .. (m + k)
      PROVE  InverseFits(all, i, DOMAIN x, g[i - 1], g[i])
  <2>1. i \in 1 .. m \/ (i - m \in 1 .. k /\ i = m + (i - m))
    BY <1>3
  <2>. QED BY <2>1, <1>5, <1>6
<1>8. g[0] = x /\ g[m + k] = z
  BY <1>1, <1>2, <1>3, <1>4 DEF IsHistory, m, k
<1>9. IsHistory(g, all, x, z)
  BY <1>3, <1>7, <1>8 DEF IsHistory
<1>. QED BY <1>9 DEF NamesFit, all

-----------------------------------------------------------------------------
(* Planned inverses undo the edits they were planned for.                    *)

\* The sheets an edit makes sure are there.
SheetsOf(e) == IF isCellEdit(e) THEN {SheetOf[e.cell]}
               ELSE IF e.kind = "createSheet" THEN {e.sheet} ELSE {}
Defines(e, n) == e.kind = "defineName" /\ e.name = n

Mentioned(edits, s) == \E i \in DOMAIN edits : s \in SheetsOf(edits[i])

\* The sheets the first i edits create.
NewSheets(w, edits, i) ==
  {edits[j].sheet : j \in {k \in 1 .. i : edits[k].kind = "createSheet" /\ edits[k].sheet \notin w.sheets}}

\* The first i edits of x.edits led from x.w to x.trace[i], and ops leads back.
PlanSoFar(x, i, ops) ==
  LET w == x.w
      v == x.trace[i]
      edits == x.edits
  IN  /\ IsList(ops)
      /\ IsWorkbook(v)
      /\ v.names = [n \in DOMAIN w.names |-> v.names[n]]
      /\ NamesFit(ops, w.names, v.names)
      /\ \A n \in DOMAIN w.names :
           IF \E j \in 1 .. i : Defines(edits[j], n) THEN \E k \in 1 .. Len(ops) : Names(ops[k], n)
           ELSE v.names[n] = w.names[n]
      /\ Deleted(ops) = NewSheets(w, edits, i)
      /\ w.sheets \subseteq v.sheets
      /\ \A s \in v.sheets \ w.sheets : \E j \in 1 .. i : s \in SheetsOf(edits[j])
      /\ \A j \in 1 .. i : SheetsOf(edits[j]) \subseteq v.sheets

PlanningBack == INSTANCE LeftFolds WITH Op <- AddInverse, Holds <- PlanSoFar

\* One more inverse.
LEMMA DeletedGrows ==
  ASSUME NEW ops, IsList(ops), NEW op
  PROVE  /\ IsList(Append(ops, op))
         /\ Deleted(Append(ops, op)) = IF op.kind = "deleteSheet" THEN Deleted(ops) \cup {op.sheet}
                                       ELSE Deleted(ops)
         /\ Len(Append(ops, op)) = Len(ops) + 1 /\ Append(ops, op)[Len(ops) + 1] = op
         /\ \A i \in 1 .. Len(ops) : Append(ops, op)[i] = ops[i]
<1>. DEFINE all == Append(ops, op)
            m == Len(ops)
            S == ToSet(ops) \cup {op}
<1>1. /\ m \in Nat /\ DOMAIN ops = 1 .. m /\ Len(all) = m + 1 /\ DOMAIN all = 1 .. (m + 1)
      /\ all[m + 1] = op /\ \A i \in 1 .. m : all[i] = ops[i]
  BY DEF IsList
<1>2. ops \in Seq(S)
  <2>1. \A i \in 1 .. m : ops[i] \in S
    BY <1>1 DEF ToSet
  <2>. QED BY <2>1 DEF IsList
<1>3. all \in Seq(S)
  BY <1>2
<1>. HIDE DEF all, m, S
<1>4. IsList(all)
  BY <1>3, SeqIsList
<1>5. ASSUME NEW s
      PROVE  s \in Deleted(all) <=> s \in Deleted(ops) \/ (op.kind = "deleteSheet" /\ s = op.sheet)
  <2>1. \A i : i \in 1 .. (m + 1) <=> i \in 1 .. m \/ i = m + 1
    BY <1>1
  <2>. QED BY <2>1, <1>1 DEF Deleted
<1>. QED BY <1>1, <1>4, <1>5 DEF all, m

LEMMA PlanGrows ==
  ASSUME NEW x, IsWorkbook(x.w), IsEditList(x.edits),
         NEW i \in 1 .. Len(x.edits),
         x.trace[i] = ApplyEdit(x.trace[i - 1], x.edits[i]),
         NEW ops, PlanSoFar(x, i - 1, ops)
  PROVE  PlanSoFar(x, i, AddInverse(ops, planOne(x.w, x.edits, i)))
<1>. DEFINE w == x.w
            edits == x.edits
            u == x.trace[i - 1]
            v == x.trace[i]
            e == edits[i]
            op == planOne(w, edits, i)
            next == AddInverse(ops, op)
<1>0. /\ i \in Nat /\ IsEdit(e)
      /\ \A j : j \in 1 .. i <=> j \in 1 .. (i - 1) \/ j = i
  BY ListDomain DEF IsEditList
<1>1. /\ IsList(ops) /\ IsWorkbook(u)
      /\ u.names = [n \in DOMAIN w.names |-> u.names[n]]
      /\ NamesFit(ops, w.names, u.names)
      /\ \A n \in DOMAIN w.names :
           IF \E j \in 1 .. (i - 1) : Defines(edits[j], n)
           THEN \E k \in 1 .. Len(ops) : Names(ops[k], n)
           ELSE u.names[n] = w.names[n]
      /\ Deleted(ops) = NewSheets(w, edits, i - 1)
      /\ w.sheets \subseteq u.sheets
      /\ \A s \in u.sheets \ w.sheets : \E j \in 1 .. (i - 1) : s \in SheetsOf(edits[j])
      /\ \A j \in 1 .. (i - 1) : SheetsOf(edits[j]) \subseteq u.sheets
  BY DEF PlanSoFar
<1>2. /\ IsWorkbook(v)
      /\ v.names = IF e.kind = "defineName" THEN [u.names EXCEPT ![e.name] = e.to] ELSE u.names
      /\ v.sheets = IF isCellEdit(e) THEN u.sheets \cup {SheetOf[e.cell]}
                    ELSE IF e.kind = "createSheet" THEN u.sheets \cup {e.sheet}
                    ELSE u.sheets
  <2>1. v = ApplyEdit(u, e) /\ IsWorkbook(u) /\ IsEdit(e)
    BY <1>0, <1>1
  <2>. HIDE DEF u, v, e
  <2>. QED BY <2>1, OneEdit, EditShape
<1>3. /\ op.kind = "cell" <=> isCellEdit(e)
      /\ e.kind = "createSheet" =>
           IF e.sheet \in w.sheets THEN op.kind = "none"
           ELSE op.kind = "deleteSheet" /\ op.sheet = e.sheet
      /\ e.kind = "defineName" =>
           /\ op.kind \in {"deleteName", "restoreName"} /\ op.name = e.name /\ op.expect = e.to
           /\ op.kind = "restoreName" =>
                op.to = w.names[e.name] /\ \A j \in 1 .. (i - 1) : ~Defines(edits[j], e.name)
           /\ op.kind = "deleteName" =>
                w.names[e.name] = None \/ \E j \in 1 .. (i - 1) : Defines(edits[j], e.name)
  <2>1. CASE isCellEdit(e)
    <3>1. op = [kind |-> "cell"] /\ e.kind \notin {"createSheet", "defineName"}
      BY <2>1 DEF planOne, isCellEdit, CellKinds
    <3>. QED BY <2>1, <3>1
  <2>2. CASE e.kind = "createSheet"
    <3>1. ~isCellEdit(e)
      BY <2>2 DEF isCellEdit, CellKinds
    <3>2. CASE e.sheet \in w.sheets
      <4>1. op = [kind |-> "none"]
        BY <2>2, <3>1, <3>2 DEF planOne
      <4>. QED BY <2>2, <3>1, <3>2, <4>1
    <3>3. CASE e.sheet \notin w.sheets
      <4>1. op = [kind |-> "deleteSheet", sheet |-> e.sheet,
                  ourCells |-> {c \in Touched(edits) : SheetOf[c] = e.sheet}]
        BY <2>2, <3>1, <3>3 DEF planOne
      <4>. HIDE DEF op
      <4>2. op.kind = "deleteSheet" /\ op.sheet = e.sheet
        BY <4>1
      <4>. QED BY <2>2, <3>1, <3>3, <4>2
    <3>. QED BY <3>2, <3>3
  <2>3. CASE e.kind = "defineName"
    <3>. DEFINE before == \E j \in 1 .. (i - 1) : edits[j].kind = "defineName" /\ edits[j].name = e.name
    <3>1. ~isCellEdit(e)
      BY <2>3 DEF isCellEdit, CellKinds
    <3>0. before <=> \E j \in 1 .. (i - 1) : Defines(edits[j], e.name)
      BY DEF Defines
    <3>2. CASE before \/ w.names[e.name] = None
      <4>1. op = [kind |-> "deleteName", name |-> e.name, expect |-> e.to]
        BY <2>3, <3>1, <3>2 DEF planOne
      <4>. HIDE DEF op, before
      <4>2. op.kind = "deleteName" /\ op.name = e.name /\ op.expect = e.to
        BY <4>1
      <4>. QED BY <2>3, <3>0, <3>1, <3>2, <4>2
    <3>3. CASE ~before /\ w.names[e.name] # None
      <4>1. op = [kind |-> "restoreName", name |-> e.name, expect |-> e.to, to |-> w.names[e.name]]
        BY <2>3, <3>1, <3>3 DEF planOne
      <4>. HIDE DEF op, before
      <4>2. op.kind = "restoreName" /\ op.name = e.name /\ op.expect = e.to /\ op.to = w.names[e.name]
        BY <4>1
      <4>. QED BY <2>3, <3>0, <3>1, <3>3, <4>2
    <3>. HIDE DEF before
    <3>. QED BY <3>2, <3>3
  <2>. HIDE DEF op
  <2>4. isCellEdit(e) \/ e.kind \in {"createSheet", "defineName"}
    BY <1>0 DEF IsEdit
  <2>. QED BY <2>1, <2>2, <2>3, <2>4
<1>. HIDE DEF op, e, u, v, w
<1>4. /\ w.sheets \subseteq v.sheets
      /\ \A s \in v.sheets \ w.sheets : \E j \in 1 .. i : s \in SheetsOf(edits[j])
      /\ \A j \in 1 .. i : SheetsOf(edits[j]) \subseteq v.sheets
  <2>1. \A s \in v.sheets : s \in u.sheets \/ s \in SheetsOf(e)
    BY <1>2 DEF SheetsOf
  <2>2. u.sheets \subseteq v.sheets /\ SheetsOf(e) \subseteq v.sheets
    BY <1>2 DEF SheetsOf
  <2>. QED BY <1>0, <1>1, <2>1, <2>2 DEF e
<1>5. /\ DOMAIN v.names = DOMAIN w.names
      /\ v.names = [n \in DOMAIN w.names |-> v.names[n]]
      /\ \A n \in DOMAIN w.names : v.names[n] = IF Defines(e, n) THEN e.to ELSE u.names[n]
  BY <1>1, <1>2 DEF Defines
<1>6. IsList(next) /\ Deleted(next) = NewSheets(w, edits, i)
  <2>1. NewSheets(w, edits, i) =
          IF e.kind = "createSheet" /\ e.sheet \notin w.sheets
          THEN NewSheets(w, edits, i - 1) \cup {e.sheet} ELSE NewSheets(w, edits, i - 1)
    BY <1>0 DEF NewSheets, e
  <2>2. CASE op.kind = "cell"
    <3>1. next = ops /\ e.kind # "createSheet"
      BY <2>2, <1>3 DEF AddInverse, isCellEdit, CellKinds
    <3>. QED BY <3>1, <2>1, <1>1
  <2>3. CASE op.kind # "cell"
    <3>1. next = Append(ops, op)
      BY <2>3 DEF AddInverse
    <3>. HIDE DEF next
    <3>2. IsList(next) /\ Deleted(next) = IF op.kind = "deleteSheet" THEN Deleted(ops) \cup {op.sheet}
                                          ELSE Deleted(ops)
      BY <3>1, <1>1, DeletedGrows
    <3>3. e.kind \in {"createSheet", "defineName"}
      BY <2>3, <1>3, <1>0 DEF IsEdit
    <3>. QED BY <3>2, <3>3, <2>1, <1>1, <1>3
  <2>. QED BY <2>2, <2>3
<1>7. /\ NamesFit(next, w.names, v.names)
      /\ \A n \in DOMAIN w.names :
           IF \E j \in 1 .. i : Defines(edits[j], n) THEN \E k \in 1 .. Len(next) : Names(next[k], n)
           ELSE v.names[n] = w.names[n]
  <2>0. \A n : (\E j \in 1 .. i : Defines(edits[j], n))
                 <=> Defines(e, n) \/ \E j \in 1 .. (i - 1) : Defines(edits[j], n)
    BY <1>0 DEF e
  <2>1. CASE op.kind = "cell"
    <3>1. next = ops /\ e.kind # "defineName"
      BY <2>1, <1>3 DEF AddInverse, isCellEdit, CellKinds
    <3>2. v.names = u.names /\ \A n : ~Defines(e, n)
      BY <3>1, <1>2 DEF Defines
    <3>. QED BY <2>0, <3>1, <3>2, <1>1
  <2>2. CASE op.kind # "cell"
    <3>1. next = Append(ops, op)
      BY <2>2 DEF AddInverse
    <3>2. /\ Len(next) = Len(ops) + 1 /\ next[Len(ops) + 1] = op /\ Len(ops) \in Nat
          /\ \A k \in 1 .. Len(ops) : next[k] = ops[k]
      BY <3>1, <1>1, DeletedGrows, ListDomain
    <3>. HIDE DEF next
    <3>3. \A n : Names(op, n) <=> Defines(e, n)
      <4>1. e.kind \in {"createSheet", "defineName"}
        BY <2>2, <1>3, <1>0 DEF IsEdit
      <4>. QED BY <4>1, <1>3 DEF Names, Defines
    <3>4. \A n : (\E k \in 1 .. Len(next) : Names(next[k], n))
                   <=> Names(op, n) \/ \E k \in 1 .. Len(ops) : Names(ops[k], n)
      <4>1. \A k : k \in 1 .. Len(next) <=> k \in 1 .. Len(ops) \/ k = Len(ops) + 1
        BY <3>2
      <4>. QED BY <4>1, <3>2
    <3>5. \A n \in DOMAIN w.names :
            IF \E j \in 1 .. i : Defines(edits[j], n) THEN \E k \in 1 .. Len(next) : Names(next[k], n)
            ELSE v.names[n] = w.names[n]
      BY <2>0, <3>3, <3>4, <1>1, <1>5
    <3>6. InverseFits(next, Len(ops) + 1, DOMAIN w.names, u.names, v.names)
      <4>1. ASSUME NEW n \in DOMAIN w.names, Defines(e, n)
            PROVE  /\ v.names[n] = op.expect
                   /\ IF op.kind = "restoreName" THEN op.to = u.names[n]
                      ELSE \/ u.names[n] = None
                           \/ \E j \in 1 .. ((Len(ops) + 1) - 1) : Names(next[j], n)
        <5>1. e.kind = "defineName" /\ e.name = n
          BY <4>1 DEF Defines
        <5>2. v.names[n] = op.expect
          BY <5>1, <4>1, <1>3, <1>5
        <5>3. CASE \E j \in 1 .. (i - 1) : Defines(edits[j], n)
          <6>1. PICK k \in 1 .. Len(ops) : Names(ops[k], n)
            BY <5>3, <1>1
          <6>2. k \in 1 .. ((Len(ops) + 1) - 1) /\ next[k] = ops[k]
            BY <3>2
          <6>3. op.kind # "restoreName"
            BY <5>1, <5>3, <1>3
          <6>. QED BY <5>2, <6>1, <6>2, <6>3
        <5>4. CASE ~ \E j \in 1 .. (i - 1) : Defines(edits[j], n)
          <6>1. u.names[n] = w.names[n]
            BY <5>4, <1>1
          <6>. QED BY <5>1, <5>2, <5>4, <6>1, <1>3
        <5>. QED BY <5>3, <5>4
      <4>2. ASSUME NEW n \in DOMAIN w.names, ~Defines(e, n)
            PROVE  v.names[n] = u.names[n]
        BY <4>2, <1>5
      <4>. QED BY <3>2, <3>3, <4>1, <4>2 DEF InverseFits
    <3>7. NamesFit(next, w.names, v.names)
      BY <1>1, <3>1, <3>6, HistoryGrows
    <3>. QED BY <3>5, <3>7
  <2>. QED BY <2>1, <2>2
<1>. QED BY <1>2, <1>4, <1>5, <1>6, <1>7 DEF PlanSoFar, u, v, w, e, op

LEMMA PlannedBack ==
  ASSUME NEW w, IsWorkbook(w), w.names = [n \in DOMAIN w.names |-> w.names[n]],
         NEW edits, IsEditList(edits)
  PROVE  LET v == ApplyEdits(w, edits)
             ops == planCompensation(w, edits)
         IN  /\ v.names = [n \in DOMAIN w.names |-> v.names[n]]
             /\ NamesFit(ops, w.names, v.names)
             /\ Deleted(ops) = NewSheets(w, edits, Len(edits))
             /\ w.sheets \subseteq v.sheets
             /\ \A s \in v.sheets \ w.sheets : Mentioned(edits, s)
             /\ \A i \in DOMAIN edits : SheetsOf(edits[i]) \subseteq v.sheets
<1>. DEFINE n == Len(edits)
            plans == [i \in DOMAIN edits |-> planOne(w, edits, i)]
<1>1. n \in Nat /\ DOMAIN edits = 1 .. n /\ DOMAIN plans = 1 .. n
  BY ListDomain DEF IsEditList
<1>2. PICK g : Editing!IsTrace(g, w, edits, n) /\ Editing!Folded(w, edits) = g[n]
  BY <1>1, Editing!FoldHasTrace
<1>3. ApplyEdits(w, edits) = g[n]
  <2>1. Editing!Folded(w, edits) = ApplyEdits(w, edits)
    BY DEF Editing!Folded, ApplyEdits, FoldLeft, Editing!FoldLeft, MapThenFoldSet,
           Editing!MapThenFoldSet, Max, Editing!Max
  <2>. QED BY <1>2, <2>1
<1>4. g[0] = w /\ \A i \in 1 .. n : g[i] = ApplyEdit(g[i - 1], edits[i])
  BY <1>2 DEF Editing!IsTrace
<1>. DEFINE x == [w |-> w, edits |-> edits, trace |-> g]
<1>5. x.w = w /\ x.edits = edits /\ x.trace = g
  OBVIOUS
<1>6. planCompensation(w, edits) = FoldLeft(AddInverse, <<>>, plans)
  BY DEF planCompensation
<1>7. \A i \in 1 .. n : plans[i] = planOne(w, edits, i)
  BY <1>1
<1>. HIDE DEF x, plans, n
<1>8. PlanSoFar(x, 0, <<>>)
  <2>1. \A s : ~(s \in 1 .. 0)
    OBVIOUS
  <2>2. IsList(<<>>) /\ Len(<<>>) = 0 /\ Deleted(<<>>) = {} /\ NewSheets(w, edits, 0) = {}
    BY DEF IsList, Deleted, NewSheets
  <2>3. NamesFit(<<>>, w.names, w.names)
    <3>. DEFINE h == [i \in {0} |-> w.names]
    <3>1. h[0] = w.names
      OBVIOUS
    <3>2. IsHistory(h, <<>>, w.names, w.names)
      BY <3>1, <2>1, <2>2 DEF IsHistory
    <3>. QED BY <3>2 DEF NamesFit
  <2>. QED BY <2>1, <2>2, <2>3, <1>4, <1>5 DEF PlanSoFar
<1>9. ASSUME NEW i \in 1 .. n, NEW ops, PlanSoFar(x, i - 1, ops)
      PROVE  PlanSoFar(x, i, AddInverse(ops, plans[i]))
  BY <1>4, <1>5, <1>7, <1>9, PlanGrows DEF n
<1>10. PlanSoFar(x, n, PlanningBack!Folded(<<>>, plans))
  BY <1>1, <1>8, <1>9, PlanningBack!FoldInvariant
<1>11. PlanningBack!Folded(<<>>, plans) = planCompensation(w, edits)
  BY <1>6 DEF PlanningBack!Folded, FoldLeft, PlanningBack!FoldLeft, MapThenFoldSet,
              PlanningBack!MapThenFoldSet, Max, PlanningBack!Max
<1>12. \A s : (\E j \in 1 .. n : s \in SheetsOf(edits[j])) => Mentioned(edits, s)
  BY <1>1 DEF Mentioned
<1>. QED BY <1>1, <1>3, <1>5, <1>10, <1>11, <1>12 DEF PlanSoFar, n

-----------------------------------------------------------------------------
(* Undoing takes the names back, and away the sheets it deletes.             *)

\* The last i of the inverses x.ops were undone: those before them still lead
\* from x.names to x.history[Len(x.ops) - i].
UndoneSoFar(x, i, acc) ==
  LET k == Len(x.ops) - i
      h == x.history[k]
      names == acc.wb.names
  IN  /\ acc = [wb |-> acc.wb, unreversed |-> acc.unreversed]
      /\ IsWorkbook(acc.wb)
      /\ acc.wb.cells = x.wb.cells
      /\ names = [n \in DOMAIN x.names |-> names[n]]
      /\ \A n \in DOMAIN x.names :
           \/ names[n] = h[n]
           \/ names[n] = None /\ \E j \in 1 .. k : Names(x.ops[j], n)
      /\ acc.wb.sheets = x.wb.sheets \ {x.ops[j].sheet : j \in {m \in (k + 1) .. Len(x.ops) :
                                                                  x.ops[m].kind = "deleteSheet"}}

TakingBack == INSTANCE LeftFolds WITH Op <- UndoOrReport, Holds <- UndoneSoFar

\* The sheets that are deleted hold nothing.
Deletable(w, ops) == \A c \in Cells : SheetOf[c] \in Deleted(ops) => w.cells[c] = Absent

LEMMA OneTakenBack ==
  ASSUME NEW x, IsList(x.ops), IsHistory(x.history, x.ops, x.names, x.history[Len(x.ops)]),
         Deletable(x.wb, x.ops),
         NEW i \in 1 .. Len(x.ops), NEW acc, UndoneSoFar(x, i - 1, acc),
         NEW op, op = x.ops[Len(x.ops) + 1 - i]
  PROVE  UndoneSoFar(x, i, UndoOrReport(acc, op))
<1>. DEFINE ops == x.ops
            m == Len(ops)
            k == m - i
            w == acc.wb
            next == UndoOrReport(acc, op)
            n(q) == next.wb.names[q]
<1>0. /\ m \in Nat /\ DOMAIN ops = 1 .. m /\ k \in Nat /\ k + 1 \in 1 .. m
      /\ m - (i - 1) = k + 1 /\ m + 1 - i = k + 1 /\ (k + 1) - 1 = k
  BY ListDomain
<1>1. /\ acc = [wb |-> w, unreversed |-> acc.unreversed]
      /\ IsWorkbook(w) /\ w.cells = x.wb.cells
      /\ w.names = [q \in DOMAIN x.names |-> w.names[q]]
      /\ \A q \in DOMAIN x.names :
           \/ w.names[q] = x.history[k + 1][q]
           \/ w.names[q] = None /\ \E j \in 1 .. (k + 1) : Names(ops[j], q)
      /\ w.sheets = x.wb.sheets \ {ops[j].sheet : j \in {l \in ((k + 1) + 1) .. m :
                                                            ops[l].kind = "deleteSheet"}}
  BY <1>0 DEF UndoneSoFar
<1>2. op = ops[k + 1]
  BY <1>0
<1>3. InverseFits(ops, k + 1, DOMAIN x.names, x.history[k], x.history[k + 1])
  BY <1>0 DEF IsHistory
<1>. HIDE DEF w, k, m
<1>4. {ops[j].sheet : j \in {l \in (k + 1) .. m : ops[l].kind = "deleteSheet"}}
        = {ops[j].sheet : j \in {l \in ((k + 1) + 1) .. m : ops[l].kind = "deleteSheet"}}
          \cup (IF op.kind = "deleteSheet" THEN {op.sheet} ELSE {})
  <2>1. \A l : l \in (k + 1) .. m <=> l \in ((k + 1) + 1) .. m \/ l = k + 1
    BY <1>0
  <2>. QED BY <1>2, <2>1
<1>5. /\ next = [wb |-> next.wb, unreversed |-> next.unreversed]
      /\ next.wb = IF CanUndo(w, op) THEN Undo(w, op) ELSE w
  <2>1. CASE CanUndo(w, op)
    <3>1. next = [wb |-> Undo(w, op), unreversed |-> acc.unreversed]
      BY <1>1, <2>1 DEF UndoOrReport, w
    <3>. HIDE DEF next
    <3>. QED BY <2>1, <3>1
  <2>2. CASE ~CanUndo(w, op)
    <3>1. next = [wb |-> w, unreversed |-> acc.unreversed \cup {op}]
      BY <1>1, <2>2 DEF UndoOrReport, w
    <3>. HIDE DEF next
    <3>. QED BY <2>2, <3>1
  <2>. QED BY <2>1, <2>2
<1>. HIDE DEF next
<1>w. /\ w = [sheets |-> w.sheets, cells |-> w.cells, names |-> w.names]
      /\ w.cells = [c \in Cells |-> w.cells[c]]
      /\ \A c \in Cells : IsCell(w.cells[c])
  BY <1>1 DEF IsWorkbook
<1>6. /\ IsWorkbook(next.wb) /\ next.wb.cells = w.cells
      /\ next.wb.sheets = w.sheets \ (IF op.kind = "deleteSheet" THEN {op.sheet} ELSE {})
      /\ next.wb.names = [q \in DOMAIN x.names |-> next.wb.names[q]]
      /\ \A q \in DOMAIN x.names :
           next.wb.names[q] =
             IF Names(op, q) /\ CanUndo(w, op)
             THEN IF op.kind = "restoreName" THEN op.to ELSE None
             ELSE w.names[q]
  <2>1. CASE op.kind = "deleteSheet"
    <3>1. op.sheet \in Deleted(ops)
      BY <1>0, <1>2, <2>1 DEF Deleted
    <3>2. \A c \in Cells : SheetOf[c] = op.sheet => w.cells[c] = Absent
      BY <3>1, <1>1 DEF Deletable
    <3>3. CanUndo(w, op) <=> op.sheet \in w.sheets
      BY <2>1, <3>2 DEF CanUndo, Absent
    <3>4. CASE op.sheet \notin w.sheets
      BY <2>1, <3>3, <3>4, <1>1, <1>5 DEF Names
    <3>5. CASE op.sheet \in w.sheets
      <4>1. next.wb = RemoveSheet(w, op.sheet)
        BY <2>1, <3>3, <3>5, <1>5 DEF Undo
      <4>2. [c \in Cells |-> IF SheetOf[c] = op.sheet THEN Absent ELSE w.cells[c]] = w.cells
        BY <1>w, <3>2
      <4>3. next.wb = [sheets |-> w.sheets \ {op.sheet}, cells |-> w.cells, names |-> w.names]
        BY <4>1, <4>2, <1>w DEF RemoveSheet
      <4>4. /\ next.wb.sheets = w.sheets \ {op.sheet} /\ next.wb.cells = w.cells
            /\ next.wb.names = w.names /\ IsWorkbook(next.wb)
        BY <4>3, <1>w DEF IsWorkbook
      <4>. QED BY <2>1, <4>4, <1>1 DEF Names
    <3>. QED BY <3>4, <3>5
  <2>2. CASE op.kind # "deleteSheet" /\ CanUndo(w, op)
    <3>. DEFINE to == IF op.kind = "restoreName" THEN op.to ELSE None
    <3>1. op.kind \in {"deleteName", "restoreName"} /\ next.wb = [w EXCEPT !.names[op.name] = to]
      BY <2>2, <1>5 DEF CanUndo, Undo
    <3>2. /\ next.wb = [sheets |-> w.sheets, cells |-> w.cells,
                        names |-> [w.names EXCEPT ![op.name] = to]]
      BY <3>1, <1>w
    <3>. HIDE DEF to
    <3>3. /\ next.wb.sheets = w.sheets /\ next.wb.cells = w.cells
          /\ next.wb.names = [w.names EXCEPT ![op.name] = to]
          /\ next.wb = [sheets |-> next.wb.sheets, cells |-> next.wb.cells, names |-> next.wb.names]
      BY <3>2
    <3>4. IsWorkbook(next.wb)
      BY <3>3, <1>w DEF IsWorkbook
    <3>5. \A q \in DOMAIN x.names : next.wb.names[q] = IF q = op.name THEN to ELSE w.names[q]
      BY <3>3, <1>1
    <3>6. next.wb.names = [q \in DOMAIN x.names |-> next.wb.names[q]]
      BY <3>3, <1>1
    <3>. QED BY <2>2, <3>1, <3>3, <3>4, <3>5, <3>6 DEF Names, to
  <2>3. CASE op.kind # "deleteSheet" /\ ~CanUndo(w, op)
    BY <2>3, <1>1, <1>5
  <2>. QED BY <2>1, <2>2, <2>3
<1>7. next.wb.sheets = x.wb.sheets \ {ops[j].sheet : j \in {l \in (k + 1) .. m : ops[l].kind = "deleteSheet"}}
  BY <1>1, <1>4, <1>6
<1>8. ASSUME NEW q \in DOMAIN x.names
      PROVE  \/ next.wb.names[q] = x.history[k][q]
             \/ next.wb.names[q] = None /\ \E j \in 1 .. k : Names(ops[j], q)
  <2>0. \A j : j \in 1 .. (k + 1) <=> j \in 1 .. k \/ j = k + 1
    BY <1>0
  <2>1. CASE ~Names(op, q)
    <3>1. x.history[k + 1][q] = x.history[k][q]
      BY <1>2, <1>3, <2>1 DEF InverseFits
    <3>. QED BY <2>0, <2>1, <3>1, <1>1, <1>2, <1>6
  <2>2. CASE Names(op, q)
    <3>1. /\ x.history[k + 1][q] = op.expect
          /\ IF op.kind = "restoreName" THEN op.to = x.history[k][q]
             ELSE x.history[k][q] = None \/ \E j \in 1 .. k : Names(ops[j], q)
      BY <1>0, <1>2, <1>3, <2>2 DEF InverseFits
    <3>2. w.names[q] \in {None, op.expect} /\ op.name = q /\ op.kind \in {"deleteName", "restoreName"}
      BY <1>1, <2>2, <3>1 DEF Names
    <3>3. CASE op.kind = "restoreName"
      BY <2>2, <3>1, <3>2, <3>3, <1>6 DEF CanUndo
    <3>4. CASE op.kind = "deleteName"
      <4>1. next.wb.names[q] = None
        BY <2>2, <3>2, <3>4, <1>6 DEF CanUndo
      <4>. QED BY <4>1, <3>1, <3>4
    <3>. QED BY <3>2, <3>3, <3>4
  <2>. QED BY <2>1, <2>2
<1>. QED BY <1>1, <1>5, <1>6, <1>7, <1>8 DEF UndoneSoFar, next, k, m

LEMMA TakenBack ==
  ASSUME NEW w, IsWorkbook(w), NEW ops, IsList(ops), Deletable(w, ops),
         NEW names, NamesFit(ops, names, w.names),
         w.names = [n \in DOMAIN names |-> w.names[n]],
         names = [n \in DOMAIN names |-> names[n]]
  PROVE  LET r == applyCompensation(w, ops).wb
         IN  r.cells = w.cells /\ r.names = names /\ r.sheets = w.sheets \ Deleted(ops)
<1>1. PICK h : IsHistory(h, ops, names, w.names)
  BY DEF NamesFit
<1>. DEFINE x == [wb |-> w, ops |-> ops, names |-> names, history |-> h]
            rev == Reverse(ops)
            m == Len(ops)
            base == [wb |-> w, unreversed |-> {}]
<1>2. x.wb = w /\ x.ops = ops /\ x.names = names /\ x.history = h
  OBVIOUS
<1>3. /\ m \in Nat /\ DOMAIN ops = 1 .. m /\ DOMAIN rev = 1 .. m
      /\ \A i \in 1 .. m : rev[i] = ops[m + 1 - i]
  <2>1. m \in Nat /\ DOMAIN ops = 1 .. m
    BY ListDomain
  <2>2. rev = [i \in 1 .. m |-> ops[(m - i) + 1]]
    BY DEF Reverse
  <2>3. \A i \in 1 .. m : (m - i) + 1 = m + 1 - i
    BY <2>1
  <2>. HIDE DEF rev, m
  <2>. QED BY <2>1, <2>2, <2>3
<1>4. IsHistory(x.history, x.ops, x.names, x.history[Len(x.ops)])
  BY <1>1, <1>2 DEF IsHistory
<1>5. base.wb = w /\ base = [wb |-> base.wb, unreversed |-> base.unreversed]
  OBVIOUS
<1>6. applyCompensation(w, ops) = FoldLeft(UndoOrReport, base, rev)
  BY DEF applyCompensation
<1>. HIDE DEF x, rev, base
<1>7. UndoneSoFar(x, 0, base)
  <2>1. Len(x.ops) - 0 = m /\ x.history[m] = w.names /\ \A j : ~(j \in (m + 1) .. m)
    BY <1>1, <1>2, <1>3 DEF IsHistory
  <2>. HIDE DEF m
  <2>. QED BY <1>2, <1>3, <1>5, <2>1 DEF UndoneSoFar, m
<1>8. ASSUME NEW i \in 1 .. m, NEW acc, UndoneSoFar(x, i - 1, acc)
      PROVE  UndoneSoFar(x, i, UndoOrReport(acc, rev[i]))
  BY <1>2, <1>3, <1>4, <1>8, OneTakenBack
<1>9. UndoneSoFar(x, m, TakingBack!Folded(base, rev))
  <2>. HIDE DEF m
  <2>. QED BY <1>3, <1>7, <1>8, TakingBack!FoldInvariant
<1>10. TakingBack!Folded(base, rev) = applyCompensation(w, ops)
  BY <1>6 DEF TakingBack!Folded, FoldLeft, TakingBack!FoldLeft, MapThenFoldSet,
              TakingBack!MapThenFoldSet, Max, TakingBack!Max
<1>. DEFINE r == applyCompensation(w, ops).wb
<1>11. /\ r.cells = w.cells
       /\ r.names = [n \in DOMAIN names |-> r.names[n]]
       /\ \A n \in DOMAIN names : \/ r.names[n] = h[0][n]
                                  \/ \E j \in 1 .. 0 : Names(ops[j], n)
       /\ r.sheets = w.sheets \ {ops[j].sheet : j \in {l \in 1 .. m : ops[l].kind = "deleteSheet"}}
  <2>1. m - m = 0 /\ 0 + 1 = 1
    BY <1>3
  <2>. QED BY <1>2, <1>9, <1>10, <2>1 DEF UndoneSoFar
<1>. HIDE DEF r
<1>12. r.names = names
  <2>1. \A n \in DOMAIN names : r.names[n] = names[n]
    BY <1>1, <1>11 DEF IsHistory
  <2>. QED BY <1>11, <2>1
<1>13. r.sheets = w.sheets \ Deleted(ops)
  BY <1>3, <1>11 DEF Deleted
<1>. QED BY <1>11, <1>12, <1>13 DEF r
=============================================================================
