--------------------------- MODULE LiveWriterProofs ---------------------------
(***************************************************************************)
(* Proofs about LiveWriter, for every workbook, every change set, every edit *)
(* of people between two syncs and every sync that fails.                    *)
(***************************************************************************)
EXTENDS LiveWriter, ChangeSetsProofs

-----------------------------------------------------------------------------
(* Cells of a live workbook.                                                 *)

\* A blank cell, and only a blank one, holds nothing.
LiveCell(x) ==
  /\ IsCell(x)
  /\ x.absent \in BOOLEAN /\ (x.absent <=> x.formula = None /\ x.value = Null)
  /\ x.formula # None => x.value = Null

LiveBook(w) ==
  /\ IsWorkbook(w)
  /\ w.names = [n \in DOMAIN OriginalWorkbook.names |-> w.names[n]]
  /\ \A c \in Cells : /\ LiveCell(w.cells[c])
                      /\ SheetOf[c] \notin w.sheets => w.cells[c].absent

LEMMA OriginalIsLive == LiveBook(OriginalWorkbook)
  BY WorkbookAssumption DEF LiveBook, LiveCell, IsWorkbook

\* Blank cells have the same content, and equal content is what no read tells
\* apart.
LEMMA SameCells ==
  ASSUME NEW x, NEW y, LiveCell(x), LiveCell(y)
  PROVE  /\ x.absent /\ y.absent => content(x) = content(y)
         /\ content(x) = content(y) <=> ~Differs(x, y)
         /\ content(x) = content(y) =>
              x.absent = y.absent /\ x.formula = y.formula /\ x.value = y.value
  BY DEF LiveCell, content, Differs

LEMMA AbsentIsLive == LiveCell(Absent) /\ Absent.absent
  BY DEF LiveCell, IsCell, Absent

LEMMA WrittenIsLive ==
  ASSUME NEW old, LiveCell(old), NEW e, isCellEdit(e), IsLiveEdit(e)
  PROVE  LiveCell(WrittenCell(old, e))
<1>. DEFINE x == WrittenCell(old, e)
<1>1. old = [absent |-> old.absent, formula |-> old.formula, value |-> old.value,
             format |-> old.format]
  BY DEF LiveCell, IsCell
<1>2. CASE e.kind = "setFormula"
  <2>1. x = [absent |-> FALSE, formula |-> e.to, value |-> Null, format |-> old.format]
    BY <1>1, <1>2 DEF WrittenCell, WithFormula
  <2>2. e.to # None
    BY <1>2 DEF IsLiveEdit
  <2>. QED BY <2>1, <2>2 DEF LiveCell, IsCell
<1>3. CASE e.kind = "setValue"
  <2>1. x = [absent |-> (Stored[e.to] = Null), formula |-> None, value |-> Stored[e.to],
             format |-> old.format]
    BY <1>1, <1>3 DEF WrittenCell, WithValue
  <2>2. CASE Stored[e.to] = Null
    <3>1. x = [absent |-> TRUE, formula |-> None, value |-> Null, format |-> old.format]
      BY <2>1, <2>2
    <3>. QED BY <3>1 DEF LiveCell, IsCell
  <2>3. CASE Stored[e.to] # Null
    <3>1. x = [absent |-> FALSE, formula |-> None, value |-> Stored[e.to], format |-> old.format]
      BY <2>1, <2>3
    <3>. QED BY <2>3, <3>1 DEF LiveCell, IsCell
  <2>. QED BY <2>2, <2>3
<1>4. CASE e.kind = "setNumberFormat"
  <2>1. x = [absent |-> old.absent, formula |-> old.formula, value |-> old.value,
             format |-> e.to]
    BY <1>1, <1>4 DEF WrittenCell
  <2>. QED BY <2>1 DEF LiveCell, IsCell
<1>5. CASE e.kind = "clear"
  <2>1. x = [absent |-> TRUE, formula |-> None, value |-> Null, format |-> old.format]
    BY <1>1, <1>5 DEF WrittenCell, Blank
  <2>. QED BY <2>1 DEF LiveCell, IsCell
<1>. QED BY <1>2, <1>3, <1>4, <1>5 DEF isCellEdit, CellKinds

\* What the snapshots hold is restored as it was.
LEMMA RestoredIsSnapshot ==
  ASSUME NEW old, LiveCell(old), NEW snap, LiveCell(snap),
         snap.value # Null => Stored[snap.value] = snap.value
  PROVE  LET x == RestoredCell(old, snap)
         IN  /\ LiveCell(x) /\ content(x) = content(snap)
             /\ snap.format # None => x.format = snap.format
<1>. DEFINE x == RestoredCell(old, snap)
            filled == IF snap.absent THEN Blank(old)
                      ELSE IF snap.formula # None THEN WithFormula(old, snap.formula)
                      ELSE WithValue(old, snap.value)
<1>1. old = [absent |-> old.absent, formula |-> old.formula, value |-> old.value,
             format |-> old.format]
  BY DEF LiveCell, IsCell
<1>2. x = IF snap.format = None THEN filled ELSE [filled EXCEPT !.format = snap.format]
  BY DEF RestoredCell
<1>3. filled = [absent |-> snap.absent, formula |-> snap.formula, value |-> snap.value,
                format |-> old.format]
  <2>1. CASE snap.absent
    <3>1. filled = [absent |-> TRUE, formula |-> None, value |-> Null, format |-> old.format]
      BY <1>1, <2>1 DEF Blank
    <3>. QED BY <2>1, <3>1 DEF LiveCell
  <2>2. CASE ~snap.absent /\ snap.formula # None
    <3>1. filled = [absent |-> FALSE, formula |-> snap.formula, value |-> Null,
                    format |-> old.format]
      BY <1>1, <2>2 DEF WithFormula
    <3>. QED BY <2>2, <3>1 DEF LiveCell
  <2>3. CASE ~snap.absent /\ snap.formula = None
    <3>1. snap.value # Null
      BY <2>3 DEF LiveCell
    <3>2. filled = [absent |-> FALSE, formula |-> None, value |-> snap.value,
                    format |-> old.format]
      BY <1>1, <2>3, <3>1 DEF WithValue
    <3>. QED BY <2>3, <3>2 DEF LiveCell
  <2>. QED BY <2>1, <2>2, <2>3
<1>. HIDE DEF filled
<1>4. /\ x = [absent |-> snap.absent, formula |-> snap.formula, value |-> snap.value,
              format |-> x.format]
      /\ snap.format # None => x.format = snap.format
  BY <1>2, <1>3
<1>. HIDE DEF x
<1>5. LiveCell(x) /\ content(x) = content(snap)
  BY <1>4 DEF LiveCell, IsCell, content
<1>. QED BY <1>4, <1>5 DEF x

-----------------------------------------------------------------------------
(* Writing cells.                                                            *)

CellsWritten(x, i, acc) ==
  /\ LiveBook(acc)
  /\ acc.sheets = x.w.sheets /\ acc.names = x.w.names
  /\ \A c \in Cells \ Touched(x.edits) : acc.cells[c] = x.w.cells[c]

Writing == INSTANCE LeftFolds WITH Op <- WriteCell, Holds <- CellsWritten

LEMMA CellWritten ==
  ASSUME NEW w, LiveBook(w), NEW e, isCellEdit(e), IsLiveEdit(e), SheetOf[e.cell] \in w.sheets
  PROVE  LET n == WriteCell(w, e)
         IN  /\ LiveBook(n) /\ n.sheets = w.sheets /\ n.names = w.names
             /\ \A c \in Cells \ {e.cell} : n.cells[c] = w.cells[c]
<1>. DEFINE x == WrittenCell(w.cells[e.cell], e)
            cells == [w.cells EXCEPT ![e.cell] = x]
            n == WriteCell(w, e)
<1>1. e.cell \in Cells
  BY DEF IsLiveEdit, IsEdit
<1>2. LiveCell(x)
  BY <1>1, WrittenIsLive DEF LiveBook
<1>3. /\ w = [sheets |-> w.sheets, cells |-> w.cells, names |-> w.names]
      /\ w.cells = [c \in Cells |-> w.cells[c]]
  BY DEF LiveBook, IsWorkbook
<1>4. n = [w EXCEPT !.cells[e.cell] = x]
  BY DEF WriteCell
<1>. HIDE DEF x, n
<1>5. n = [sheets |-> w.sheets, cells |-> cells, names |-> w.names]
  BY <1>3, <1>4
<1>6. /\ cells = [c \in Cells |-> cells[c]]
      /\ \A c \in Cells : cells[c] = IF c = e.cell THEN x ELSE w.cells[c]
  BY <1>3
<1>. HIDE DEF cells
<1>7. IsWorkbook(n)
  BY <1>2, <1>5, <1>6 DEF IsWorkbook, LiveBook, LiveCell
<1>8. \A c \in Cells : LiveCell(n.cells[c]) /\ (SheetOf[c] \notin n.sheets => n.cells[c].absent)
  BY <1>2, <1>5, <1>6 DEF LiveBook
<1>9. n.names = [m \in DOMAIN OriginalWorkbook.names |-> n.names[m]]
  BY <1>5 DEF LiveBook
<1>. QED BY <1>5, <1>6, <1>7, <1>8, <1>9 DEF LiveBook, n

IsBatch(w, edits) ==
  /\ IsList(edits)
  /\ \A i \in DOMAIN edits : /\ isCellEdit(edits[i]) /\ IsLiveEdit(edits[i])
                             /\ SheetOf[edits[i].cell] \in w.sheets

LEMMA BatchWritten ==
  ASSUME NEW w, LiveBook(w), NEW edits, IsBatch(w, edits)
  PROVE  LET n == WriteCells(w, edits)
         IN  /\ LiveBook(n) /\ n.sheets = w.sheets /\ n.names = w.names
             /\ \A c \in Cells \ Touched(edits) : n.cells[c] = w.cells[c]
<1>. DEFINE x == [w |-> w, edits |-> edits]
            n == Len(edits)
<1>1. n \in Nat /\ DOMAIN edits = 1 .. n
  BY ListDomain DEF IsBatch
<1>2. x.w = w /\ x.edits = edits
  OBVIOUS
<1>. HIDE DEF n, x
<1>3. CellsWritten(x, 0, w)
  BY <1>2 DEF CellsWritten
<1>4. ASSUME NEW i \in 1 .. n, NEW acc, CellsWritten(x, i - 1, acc)
      PROVE  CellsWritten(x, i, WriteCell(acc, edits[i]))
  <2>1. /\ isCellEdit(edits[i]) /\ IsLiveEdit(edits[i]) /\ SheetOf[edits[i].cell] \in w.sheets
        /\ edits[i].cell \in Touched(edits)
    BY <1>1 DEF IsBatch, Touched
  <2>2. LiveBook(acc) /\ acc.sheets = w.sheets /\ acc.names = w.names
        /\ \A c \in Cells \ Touched(edits) : acc.cells[c] = w.cells[c]
    BY <1>2, <1>4 DEF CellsWritten
  <2>3. /\ LiveBook(WriteCell(acc, edits[i]))
        /\ WriteCell(acc, edits[i]).sheets = acc.sheets
        /\ WriteCell(acc, edits[i]).names = acc.names
        /\ \A c \in Cells \ {edits[i].cell} : WriteCell(acc, edits[i]).cells[c] = acc.cells[c]
    BY <2>1, <2>2, CellWritten
  <2>. QED BY <1>2, <2>1, <2>2, <2>3 DEF CellsWritten
<1>5. CellsWritten(x, n, Writing!Folded(w, edits))
  BY <1>1, <1>3, <1>4, Writing!FoldInvariant
<1>6. Writing!Folded(w, edits) = WriteCells(w, edits)
  BY DEF WriteCells, Writing!Folded, FoldLeft, Writing!FoldLeft, MapThenFoldSet,
         Writing!MapThenFoldSet, Max, Writing!Max
<1>. QED BY <1>2, <1>5, <1>6 DEF CellsWritten

-----------------------------------------------------------------------------
(* The two kinds of edits, and the inverses of the structural ones.          *)

CellEditsSoFar(x, i, acc) == acc \in Seq({e \in ToSet(x) : isCellEdit(e)})

Filtering == INSTANCE LeftFolds WITH Op <- AddCellEdit, Holds <- CellEditsSoFar

LEMMA FilterIsList ==
  ASSUME NEW edits, IsList(edits)
  PROVE  FoldLeft(AddCellEdit, <<>>, edits) \in Seq({e \in ToSet(edits) : isCellEdit(e)})
<1>. DEFINE n == Len(edits)
<1>1. n \in Nat /\ DOMAIN edits = 1 .. n
  BY ListDomain
<1>. HIDE DEF n
<1>2. CellEditsSoFar(edits, 0, <<>>)
  BY DEF CellEditsSoFar
<1>3. ASSUME NEW i \in 1 .. n, NEW acc, CellEditsSoFar(edits, i - 1, acc)
      PROVE  CellEditsSoFar(edits, i, AddCellEdit(acc, edits[i]))
  <2>1. edits[i] \in ToSet(edits)
    BY <1>1 DEF ToSet
  <2>. QED BY <2>1, <1>3 DEF CellEditsSoFar, AddCellEdit
<1>4. CellEditsSoFar(edits, n, Filtering!Folded(<<>>, edits))
  BY <1>1, <1>2, <1>3, Filtering!FoldInvariant
<1>5. Filtering!Folded(<<>>, edits) = FoldLeft(AddCellEdit, <<>>, edits)
  BY DEF Filtering!Folded, FoldLeft, Filtering!FoldLeft, MapThenFoldSet,
         Filtering!MapThenFoldSet, Max, Filtering!Max
<1>. QED BY <1>4, <1>5 DEF CellEditsSoFar

IsDefine(e, n) == e.kind = "defineName" /\ e.name = n

\* op takes back what e does to a workbook like w.
Inverts(w, e, op) ==
  \/ e.kind = "createSheet" /\ op.kind = "none" /\ e.sheet \in w.sheets
  \/ /\ e.kind = "createSheet" /\ op.kind = "deleteSheet"
     /\ op.sheet = e.sheet /\ e.sheet \notin w.sheets
  \/ /\ e.kind = "defineName" /\ op.kind \in {"deleteName", "restoreName"}
     /\ op.name = e.name

RestoresName(w, n, op) ==
  \/ op.kind = "deleteName" /\ w.names[n] = None
  \/ op.kind = "restoreName" /\ op.to = w.names[n]

LEMMA PlanInverts ==
  ASSUME NEW w, NEW edits, NEW i \in DOMAIN edits, IsEdit(edits[i])
  PROVE  LET e == edits[i]
             op == planOne(w, edits, i)
         IN  /\ isCellEdit(e) => op.kind = "cell"
             /\ ~isCellEdit(e) => op.kind # "cell" /\ Inverts(w, e, op)
             /\ e.kind = "defineName" /\ (\A j \in 1 .. (i - 1) : ~IsDefine(edits[j], e.name))
                  => RestoresName(w, e.name, op)
<1>. DEFINE e == edits[i]
            op == planOne(w, edits, i)
            definedBefore == \E j \in 1 .. (i - 1) : IsDefine(edits[j], e.name)
<1>1. CASE isCellEdit(e)
  <2>1. op = [kind |-> "cell"]
    BY <1>1 DEF planOne, isCellEdit, CellKinds
  <2>. QED BY <1>1, <2>1 DEF isCellEdit, CellKinds
<1>2. CASE e.kind = "createSheet"
  <2>1. ~isCellEdit(e)
    BY <1>2 DEF isCellEdit, CellKinds
  <2>2. CASE e.sheet \in w.sheets
    <3>1. op = [kind |-> "none"]
      BY <1>2, <2>1, <2>2 DEF planOne
    <3>. QED BY <1>2, <2>1, <2>2, <3>1 DEF Inverts
  <2>3. CASE e.sheet \notin w.sheets
    <3>1. op.kind = "deleteSheet" /\ op.sheet = e.sheet
      BY <1>2, <2>1, <2>3 DEF planOne
    <3>. QED BY <1>2, <2>1, <2>3, <3>1 DEF Inverts
  <2>. QED BY <2>2, <2>3
<1>3. CASE e.kind = "defineName"
  <2>1. ~isCellEdit(e)
    BY <1>3 DEF isCellEdit, CellKinds
  <2>2. CASE definedBefore \/ w.names[e.name] = None
    <3>1. op = [kind |-> "deleteName", name |-> e.name, expect |-> e.to]
      BY <1>3, <2>1, <2>2 DEF planOne, IsDefine
    <3>. QED BY <1>3, <2>1, <2>2, <3>1 DEF Inverts, RestoresName
  <2>3. CASE ~definedBefore /\ w.names[e.name] # None
    <3>1. op = [kind |-> "restoreName", name |-> e.name, expect |-> e.to, to |-> w.names[e.name]]
      BY <1>3, <2>1, <2>3 DEF planOne, IsDefine
    <3>. QED BY <1>3, <2>1, <2>3, <3>1 DEF Inverts, RestoresName
  <2>. QED BY <2>2, <2>3
<1>4. \/ isCellEdit(e) \/ e.kind = "createSheet" \/ e.kind = "defineName"
  BY DEF IsEdit
<1>. QED BY <1>1, <1>2, <1>3, <1>4

\* S lists the structural edits among the first i, ops their inverses.
Aligned(w, edits, i, S, ops) ==
  /\ S \in Seq({e \in ToSet(edits) : ~isCellEdit(e)})
  /\ IsList(ops) /\ Len(ops) = Len(S)
  /\ \A j \in 1 .. i : ~isCellEdit(edits[j]) => \E k \in 1 .. Len(S) : S[k] = edits[j]
  /\ \A k \in 1 .. Len(S) :
       /\ Inverts(w, S[k], ops[k])
       /\ S[k].kind = "defineName" /\ (\A j \in 1 .. (k - 1) : ~IsDefine(S[j], S[k].name))
            => RestoresName(w, S[k].name, ops[k])

AlignedSoFar(x, i, ops) == Aligned(x.w, x.edits, i, x.h[i], ops)

Splitting == INSTANCE LeftFolds WITH Op <- AddStructural, Holds <- AlignedSoFar
Inverting == INSTANCE LeftFolds WITH Op <- AddInverse, Holds <- AlignedSoFar

LEMMA AlignedNext ==
  ASSUME NEW w, NEW edits, IsEditList(edits), NEW i \in DOMAIN edits,
         NEW S, NEW ops, Aligned(w, edits, i - 1, S, ops)
  PROVE  Aligned(w, edits, i, AddStructural(S, edits[i]), AddInverse(ops, planOne(w, edits, i)))
<1>. DEFINE e == edits[i]
            op == planOne(w, edits, i)
            T == {x \in ToSet(edits) : ~isCellEdit(x)}
<1>1. /\ isCellEdit(e) => op.kind = "cell"
      /\ ~isCellEdit(e) => op.kind # "cell" /\ Inverts(w, e, op)
      /\ e.kind = "defineName" /\ (\A j \in 1 .. (i - 1) : ~IsDefine(edits[j], e.name))
           => RestoresName(w, e.name, op)
  BY PlanInverts DEF IsEditList
<1>2. i \in 1 .. Len(edits) /\ Len(edits) \in Nat /\ e \in ToSet(edits)
  BY ListDomain DEF IsEditList, ToSet
<1>. HIDE DEF op
<1>3. CASE isCellEdit(e)
  <2>1. AddStructural(S, e) = S /\ AddInverse(ops, op) = ops
    BY <1>1, <1>3 DEF AddStructural, AddInverse
  <2>2. \A j \in 1 .. i : j \in 1 .. (i - 1) \/ j = i
    BY <1>2
  <2>. QED BY <1>3, <2>1, <2>2 DEF Aligned, op
<1>4. CASE ~isCellEdit(e)
  <2>. DEFINE S2 == Append(S, e)
              ops2 == Append(ops, op)
              n == Len(S)
  <2>1. AddStructural(S, e) = S2 /\ AddInverse(ops, op) = ops2
    BY <1>1, <1>4 DEF AddStructural, AddInverse
  <2>2. S \in Seq(T) /\ IsList(ops) /\ Len(ops) = n /\ n \in Nat
    BY DEF Aligned
  <2>3. e \in T
    BY <1>2, <1>4
  <2>4. /\ S2 \in Seq(T) /\ Len(S2) = n + 1 /\ S2[n + 1] = e
        /\ \A k \in 1 .. n : S2[k] = S[k]
    BY <2>2, <2>3
  <2>5. /\ IsList(ops2) /\ Len(ops2) = n + 1 /\ ops2[n + 1] = op
        /\ \A k \in 1 .. n : ops2[k] = ops[k]
    <3>1. ops \in Seq(ToSet(ops) \cup {op})
      BY <2>2 DEF IsList
    <3>2. ops2 \in Seq(ToSet(ops) \cup {op})
      BY <3>1
    <3>3. /\ Len(ops2) = n + 1 /\ ops2[n + 1] = op
          /\ \A k \in 1 .. n : ops2[k] = ops[k]
      BY <2>2, <3>1
    <3>. QED BY <3>2, <3>3, SeqIsList
  <2>. HIDE DEF S2, ops2, T
  <2>6. /\ \A j \in 1 .. (i - 1) : ~isCellEdit(edits[j]) => \E k \in 1 .. n : S[k] = edits[j]
        /\ \A k \in 1 .. n :
             /\ Inverts(w, S[k], ops[k])
             /\ S[k].kind = "defineName" /\ (\A j \in 1 .. (k - 1) : ~IsDefine(S[j], S[k].name))
                  => RestoresName(w, S[k].name, ops[k])
    BY DEF Aligned
  <2>. HIDE DEF n
  <2>7. ASSUME NEW j \in 1 .. i, ~isCellEdit(edits[j])
        PROVE  \E k \in 1 .. (n + 1) : S2[k] = edits[j]
    <3>1. CASE j = i
      BY <2>2, <2>4, <3>1
    <3>2. CASE j # i
      <4>1. PICK k \in 1 .. n : S[k] = edits[j]
        BY <1>2, <2>6, <2>7, <3>2
      <4>2. k \in 1 .. (n + 1) /\ S2[k] = edits[j]
        BY <2>2, <2>4, <4>1
      <4>. QED BY <4>2
    <3>. QED BY <3>1, <3>2
  <2>8. ASSUME NEW k \in 1 .. (n + 1)
        PROVE  /\ Inverts(w, S2[k], ops2[k])
               /\ S2[k].kind = "defineName"
                    /\ (\A j \in 1 .. (k - 1) : ~IsDefine(S2[j], S2[k].name))
                    => RestoresName(w, S2[k].name, ops2[k])
    <3>1. CASE k \in 1 .. n
      <4>1. S2[k] = S[k] /\ ops2[k] = ops[k] /\ \A j \in 1 .. (k - 1) : S2[j] = S[j]
        BY <2>2, <2>4, <2>5, <3>1
      <4>. QED BY <2>6, <3>1, <4>1
    <3>2. CASE k = n + 1
      <4>1. S2[k] = e /\ ops2[k] = op /\ \A j \in 1 .. n : S2[j] = S[j]
        BY <2>4, <2>5, <3>2
      <4>2. Inverts(w, e, op)
        BY <1>1, <1>4
      <4>3. ASSUME e.kind = "defineName", \A j \in 1 .. n : ~IsDefine(S[j], e.name)
            PROVE  RestoresName(w, e.name, op)
        <5>1. ASSUME NEW j \in 1 .. (i - 1), IsDefine(edits[j], e.name) PROVE FALSE
          <6>1. ~isCellEdit(edits[j])
            BY <5>1 DEF IsDefine, isCellEdit, CellKinds
          <6>2. PICK m \in 1 .. n : S[m] = edits[j]
            BY <2>6, <6>1
          <6>. QED BY <4>3, <5>1, <6>2
        <5>. QED BY <1>1, <4>3, <5>1
      <4>4. 1 .. (k - 1) = 1 .. n
        BY <2>2, <3>2
      <4>. QED BY <4>1, <4>2, <4>3, <4>4
    <3>. QED BY <2>2, <3>1, <3>2
  <2>9. Aligned(w, edits, i, S2, ops2)
    BY <2>4, <2>5, <2>7, <2>8 DEF Aligned, T
  <2>. QED BY <2>1, <2>9 DEF op
<1>. QED BY <1>3, <1>4

\* The inverses line up with the structural edits.
LEMMA InversesAligned ==
  ASSUME NEW w, NEW edits, IsEditList(edits)
  PROVE  Aligned(w, edits, Len(edits), FoldLeft(AddStructural, <<>>, edits),
                 planCompensation(w, edits))
<1>. DEFINE n == Len(edits)
            plans == [i \in DOMAIN edits |-> planOne(w, edits, i)]
<1>1. n \in Nat /\ DOMAIN edits = 1 .. n /\ DOMAIN plans = 1 .. n
  BY ListDomain DEF IsEditList
<1>2. planCompensation(w, edits) = FoldLeft(AddInverse, <<>>, plans)
  BY DEF planCompensation
<1>3. \A i \in 1 .. n : plans[i] = planOne(w, edits, i)
  BY <1>1
<1>. HIDE DEF n, plans
<1>4. PICK h : /\ Splitting!IsTrace(h, <<>>, edits, n)
               /\ Splitting!Folded(<<>>, edits) = h[n]
  BY <1>1, Splitting!FoldHasTrace
<1>5. h[0] = <<>> /\ \A i \in 1 .. n : h[i] = AddStructural(h[i - 1], edits[i])
  BY <1>4 DEF Splitting!IsTrace
<1>. DEFINE x == [w |-> w, edits |-> edits, h |-> h]
<1>6. x.w = w /\ x.edits = edits /\ x.h = h
  OBVIOUS
<1>. HIDE DEF x
<1>7. AlignedSoFar(x, 0, <<>>)
  <2>1. <<>> \in Seq({e \in ToSet(edits) : ~isCellEdit(e)}) /\ Len(<<>>) = 0
    OBVIOUS
  <2>2. IsList(<<>>)
    BY <2>1, SeqIsList
  <2>3. Aligned(w, edits, 0, <<>>, <<>>)
    BY <2>1, <2>2 DEF Aligned
  <2>. QED BY <1>5, <1>6, <2>3 DEF AlignedSoFar
<1>8. ASSUME NEW i \in 1 .. n, NEW ops, AlignedSoFar(x, i - 1, ops)
      PROVE  AlignedSoFar(x, i, AddInverse(ops, plans[i]))
  <2>1. Aligned(w, edits, i - 1, h[i - 1], ops)
    BY <1>6, <1>8 DEF AlignedSoFar
  <2>2. Aligned(w, edits, i, AddStructural(h[i - 1], edits[i]), AddInverse(ops, planOne(w, edits, i)))
    BY <1>1, <2>1, AlignedNext
  <2>. QED BY <1>3, <1>5, <1>6, <2>2 DEF AlignedSoFar
<1>9. AlignedSoFar(x, n, Inverting!Folded(<<>>, plans))
  BY <1>1, <1>7, <1>8, Inverting!FoldInvariant
<1>10. Inverting!Folded(<<>>, plans) = planCompensation(w, edits)
  BY <1>2 DEF Inverting!Folded, FoldLeft, Inverting!FoldLeft, MapThenFoldSet,
              Inverting!MapThenFoldSet, Max, Inverting!Max
<1>11. Splitting!Folded(<<>>, edits) = FoldLeft(AddStructural, <<>>, edits)
  BY DEF Splitting!Folded, FoldLeft, Splitting!FoldLeft, MapThenFoldSet,
         Splitting!MapThenFoldSet, Max, Splitting!Max
<1>. QED BY <1>4, <1>6, <1>9, <1>10, <1>11 DEF AlignedSoFar, n

-----------------------------------------------------------------------------
(* The change set.                                                           *)

ChangeSetInv ==
  /\ cs = [edits |-> cs.edits, snapshots |-> cs.snapshots, applied |-> cs.applied,
           compensation |-> cs.compensation]
  /\ cs.edits \in EditLists
  /\ cs.snapshots = Snapshot(Extracted(OriginalWorkbook), cs.edits)
  /\ cs.compensation = planCompensation(Extracted(OriginalWorkbook), cs.edits)

LEMMA EmittedLists ==
  ASSUME NEW edits \in EditLists
  PROVE  IsEditList(edits) /\ \A i \in DOMAIN edits : IsLiveEdit(edits[i])
<1>1. edits \in Seq(Emitted) /\ \A e \in Emitted : IsLiveEdit(e)
  BY EditAssumption
<1>2. IsList(edits) /\ \A i \in DOMAIN edits : edits[i] \in Emitted
  BY <1>1, SeqIsList
<1>. QED BY <1>1, <1>2 DEF IsEditList, IsLiveEdit

LEMMA ExtractedShape ==
  LET x == Extracted(OriginalWorkbook)
  IN  /\ x.sheets = OriginalWorkbook.sheets /\ x.names = OriginalWorkbook.names
      /\ \A c \in Cells :
           /\ LiveCell(x.cells[c])
           /\ content(x.cells[c]) = content(OriginalWorkbook.cells[c])
           /\ x.cells[c].value # Null => Stored[x.cells[c].value] = x.cells[c].value
           /\ IncludeNumberFormats /\ ~OriginalWorkbook.cells[c].absent
                => x.cells[c].format = OriginalWorkbook.cells[c].format
<1>. DEFINE o == OriginalWorkbook
            cell(c) == IF o.cells[c].absent THEN Absent
                       ELSE IF IncludeNumberFormats THEN o.cells[c]
                       ELSE [o.cells[c] EXCEPT !.format = None]
            cells == [c \in Cells |-> cell(c)]
            x == Extracted(o)
<1>1. o = [sheets |-> o.sheets, cells |-> o.cells, names |-> o.names]
  BY WorkbookAssumption DEF IsWorkbook
<1>2. x = [o EXCEPT !.cells = cells]
  BY DEF Extracted
<1>. HIDE DEF x
<1>3. ASSUME NEW c \in Cells
      PROVE  /\ LiveCell(cell(c))
             /\ content(cell(c)) = content(o.cells[c])
             /\ cell(c).value # Null => Stored[cell(c).value] = cell(c).value
             /\ IncludeNumberFormats /\ ~o.cells[c].absent => cell(c).format = o.cells[c].format
  <2>1. LiveCell(o.cells[c])
    BY OriginalIsLive DEF LiveBook
  <2>2. o.cells[c].value # Null => Stored[o.cells[c].value] = o.cells[c].value
    BY WorkbookAssumption
  <2>3. CASE o.cells[c].absent
    <3>1. cell(c) = Absent
      BY <2>3
    <3>2. content(Absent) = content(o.cells[c]) /\ Absent.value = Null /\ LiveCell(Absent)
      BY <2>1, <2>3, AbsentIsLive, SameCells DEF Absent
    <3>. QED BY <2>3, <3>1, <3>2
  <2>4. CASE ~o.cells[c].absent /\ IncludeNumberFormats
    BY <2>1, <2>2, <2>4
  <2>5. CASE ~o.cells[c].absent /\ ~IncludeNumberFormats
    <3>. DEFINE y == o.cells[c]
    <3>1. cell(c) = [y EXCEPT !.format = None]
      BY <2>5
    <3>. HIDE DEF y, cell
    <3>2. y = [absent |-> y.absent, formula |-> y.formula, value |-> y.value, format |-> y.format]
      BY <2>1 DEF y, LiveCell, IsCell
    <3>3. cell(c) = [absent |-> y.absent, formula |-> y.formula, value |-> y.value, format |-> None]
      BY <3>1, <3>2
    <3>4. LiveCell(cell(c)) /\ content(cell(c)) = content(y) /\ cell(c).value = y.value
      BY <2>1, <3>3 DEF LiveCell, IsCell, content, y
    <3>. QED BY <2>2, <2>5, <3>4 DEF y
  <2>. QED BY <2>3, <2>4, <2>5
<1>. HIDE DEF cell
<1>4. x.sheets = o.sheets /\ x.names = o.names /\ x.cells = cells
  BY <1>1, <1>2
<1>. QED BY <1>3, <1>4 DEF x

LEMMA Snapshots ==
  ASSUME ChangeSetInv
  PROVE  /\ touched = Touched(cs.edits) /\ touched \subseteq Cells
         /\ \A c \in touched :
              /\ LiveCell(cs.snapshots[c])
              /\ content(cs.snapshots[c]) = content(OriginalWorkbook.cells[c])
              /\ cs.snapshots[c].value # Null
                   => Stored[cs.snapshots[c].value] = cs.snapshots[c].value
              /\ IncludeNumberFormats /\ ~OriginalWorkbook.cells[c].absent
                   => cs.snapshots[c].format = OriginalWorkbook.cells[c].format
<1>1. cs.snapshots = [c \in Touched(cs.edits) |-> Extracted(OriginalWorkbook).cells[c]]
  BY DEF ChangeSetInv, Snapshot
<1>2. Touched(cs.edits) \subseteq Cells
  BY EmittedLists, TouchedCells DEF ChangeSetInv
<1>. QED BY <1>1, <1>2, ExtractedShape DEF touched

LEMMA CellEdits ==
  ASSUME ChangeSetInv
  PROVE  /\ IsList(cellEdits)
         /\ \A i \in DOMAIN cellEdits : /\ isCellEdit(cellEdits[i]) /\ IsLiveEdit(cellEdits[i])
                                        /\ cellEdits[i].cell \in touched
<1>1. IsList(cs.edits) /\ \A i \in DOMAIN cs.edits : IsLiveEdit(cs.edits[i])
  BY EmittedLists DEF ChangeSetInv, IsEditList
<1>2. cellEdits \in Seq({e \in ToSet(cs.edits) : isCellEdit(e)})
  BY <1>1, FilterIsList DEF cellEdits
<1>3. IsList(cellEdits)
  BY <1>2, SeqIsList
<1>4. \A i \in DOMAIN cellEdits : cellEdits[i] \in ToSet(cs.edits) /\ isCellEdit(cellEdits[i])
  BY <1>2
<1>5. \A e \in ToSet(cs.edits) : IsLiveEdit(e) /\ (isCellEdit(e) => e.cell \in Touched(cs.edits))
  BY <1>1 DEF ToSet, Touched
<1>. QED BY <1>3, <1>4, <1>5, Snapshots

IsOp(op) == /\ op.kind \in {"none", "deleteSheet", "deleteName", "restoreName"}
            /\ op.kind \in {"deleteName", "restoreName"}
                 => op.name \in DOMAIN OriginalWorkbook.names

LEMMA Structure ==
  ASSUME ChangeSetInv
  PROVE  /\ IsList(structuralEdits) /\ IsList(cs.compensation)
         /\ Len(cs.compensation) = Len(structuralEdits)
         /\ \A k \in 1 .. Len(structuralEdits) :
              /\ ~isCellEdit(structuralEdits[k]) /\ IsLiveEdit(structuralEdits[k])
              /\ IsOp(cs.compensation[k])
              /\ Inverts(OriginalWorkbook, structuralEdits[k], cs.compensation[k])
              /\ structuralEdits[k].kind = "defineName"
                   /\ (\A j \in 1 .. (k - 1) : ~IsDefine(structuralEdits[j], structuralEdits[k].name))
                   => RestoresName(OriginalWorkbook, structuralEdits[k].name, cs.compensation[k])
<1>. DEFINE x == Extracted(OriginalWorkbook)
            S == structuralEdits
            ops == cs.compensation
<1>1. IsEditList(cs.edits) /\ \A i \in DOMAIN cs.edits : IsLiveEdit(cs.edits[i])
  BY EmittedLists DEF ChangeSetInv
<1>2. Aligned(x, cs.edits, Len(cs.edits), S, ops)
  BY <1>1, InversesAligned DEF ChangeSetInv, structuralEdits
<1>3. x.sheets = OriginalWorkbook.sheets /\ x.names = OriginalWorkbook.names
  BY ExtractedShape
<1>. HIDE DEF x, S, ops
<1>4. S \in Seq({e \in ToSet(cs.edits) : ~isCellEdit(e)}) /\ IsList(ops) /\ Len(ops) = Len(S)
  BY <1>2 DEF Aligned
<1>5. IsList(S)
  BY <1>4, SeqIsList
<1>6. \A k \in 1 .. Len(S) : S[k] \in ToSet(cs.edits) /\ ~isCellEdit(S[k])
  BY <1>4
<1>7. \A e \in ToSet(cs.edits) : IsLiveEdit(e)
  BY <1>1 DEF ToSet
<1>8. \A k \in 1 .. Len(S) :
        /\ Inverts(x, S[k], ops[k])
        /\ S[k].kind = "defineName" /\ (\A j \in 1 .. (k - 1) : ~IsDefine(S[j], S[k].name))
             => RestoresName(x, S[k].name, ops[k])
  BY <1>2 DEF Aligned
<1>9. \A k \in 1 .. Len(S) : Inverts(OriginalWorkbook, S[k], ops[k])
  BY <1>3, <1>8 DEF Inverts
<1>10. \A k \in 1 .. Len(S) : IsOp(ops[k])
  BY <1>6, <1>7, <1>9 DEF Inverts, IsOp, IsLiveEdit
<1>11. \A k \in 1 .. Len(S) :
         S[k].kind = "defineName" /\ (\A j \in 1 .. (k - 1) : ~IsDefine(S[j], S[k].name))
           => RestoresName(OriginalWorkbook, S[k].name, ops[k])
  BY <1>3, <1>8 DEF RestoresName
<1>. QED BY <1>4, <1>5, <1>6, <1>7, <1>9, <1>10, <1>11 DEF S, ops
-----------------------------------------------------------------------------
(* What one step does to the workbook.                                       *)

LEMMA StructureApplied ==
  ASSUME NEW w, LiveBook(w), NEW e, IsLiveEdit(e), ~isCellEdit(e)
  PROVE  LET n == ApplyEdit(w, e)
         IN  /\ LiveBook(n) /\ n.cells = w.cells
             /\ n.sheets = IF e.kind = "createSheet" THEN w.sheets \cup {e.sheet} ELSE w.sheets
             /\ e.kind = "createSheet" => n.names = w.names
             /\ e.kind = "defineName" =>
                  \A m \in DOMAIN OriginalWorkbook.names :
                    n.names[m] = IF m = e.name THEN e.to ELSE w.names[m]
<1>1. w = [sheets |-> w.sheets, cells |-> w.cells, names |-> w.names]
  BY DEF LiveBook, IsWorkbook
<1>2. w.names = [m \in DOMAIN OriginalWorkbook.names |-> w.names[m]]
  BY DEF LiveBook
<1>3. CASE e.kind = "createSheet"
  <2>1. ApplyEdit(w, e) = [sheets |-> w.sheets \cup {e.sheet}, cells |-> w.cells, names |-> w.names]
    BY <1>1, <1>3 DEF ApplyEdit
  <2>. QED BY <1>3, <2>1 DEF LiveBook, IsWorkbook
<1>4. CASE e.kind = "defineName"
  <2>. DEFINE names == [w.names EXCEPT ![e.name] = e.to]
              n == ApplyEdit(w, e)
  <2>1. n = [sheets |-> w.sheets, cells |-> w.cells, names |-> names]
    BY <1>1, <1>4 DEF ApplyEdit
  <2>2. e.name \in DOMAIN OriginalWorkbook.names
    BY <1>4 DEF IsLiveEdit
  <2>3. /\ names = [m \in DOMAIN OriginalWorkbook.names |-> names[m]]
        /\ \A m \in DOMAIN OriginalWorkbook.names :
             names[m] = IF m = e.name THEN e.to ELSE w.names[m]
    BY <1>2, <2>2
  <2>. HIDE DEF names, n
  <2>4. LiveBook(n)
    BY <2>1, <2>3 DEF LiveBook, IsWorkbook
  <2>. QED BY <1>4, <2>1, <2>3, <2>4 DEF n
<1>. QED BY <1>3, <1>4 DEF IsLiveEdit, IsEdit

LEMMA RemovedIsLive ==
  ASSUME NEW w, LiveBook(w), NEW sheet
  PROVE  LET n == RemoveSheet(w, sheet)
         IN  /\ LiveBook(n) /\ n.sheets = w.sheets \ {sheet} /\ n.names = w.names
             /\ \A c \in Cells : n.cells[c] = IF SheetOf[c] = sheet THEN Absent ELSE w.cells[c]
<1>. DEFINE cells == [c \in Cells |-> IF SheetOf[c] = sheet THEN Absent ELSE w.cells[c]]
            n == RemoveSheet(w, sheet)
<1>1. w = [sheets |-> w.sheets, cells |-> w.cells, names |-> w.names]
  BY DEF LiveBook, IsWorkbook
<1>0. n = [w EXCEPT !.sheets = @ \ {sheet}, !.cells = cells]
  BY DEF RemoveSheet
<1>3. /\ cells = [c \in Cells |-> cells[c]]
      /\ \A c \in Cells : cells[c] = IF SheetOf[c] = sheet THEN Absent ELSE w.cells[c]
  OBVIOUS
<1>. HIDE DEF cells, n
<1>2. n = [sheets |-> w.sheets \ {sheet}, cells |-> cells, names |-> w.names]
  BY <1>0, <1>1
<1>4. \A c \in Cells : LiveCell(n.cells[c]) /\ (SheetOf[c] \notin n.sheets => n.cells[c].absent)
  BY <1>2, <1>3, AbsentIsLive DEF LiveBook
<1>5. IsWorkbook(n)
  BY <1>2, <1>3, <1>4 DEF IsWorkbook, LiveCell
<1>6. n.names = [m \in DOMAIN OriginalWorkbook.names |-> n.names[m]]
  BY <1>2 DEF LiveBook
<1>. QED BY <1>2, <1>3, <1>4, <1>5, <1>6 DEF LiveBook, n

LEMMA Undone ==
  ASSUME NEW w, LiveBook(w), NEW op, IsOp(op), op.kind # "none"
  PROVE  LET n == Undo(w, op)
         IN  /\ LiveBook(n)
             /\ op.kind = "deleteSheet" =>
                  /\ n.sheets = w.sheets \ {op.sheet} /\ n.names = w.names
                  /\ \A c \in Cells : n.cells[c] = IF SheetOf[c] = op.sheet THEN Absent
                                                  ELSE w.cells[c]
             /\ op.kind # "deleteSheet" =>
                  /\ n.sheets = w.sheets /\ n.cells = w.cells
                  /\ \A m \in DOMAIN OriginalWorkbook.names :
                       /\ m # op.name => n.names[m] = w.names[m]
                       /\ m = op.name /\ op.kind = "deleteName" => n.names[m] = None
                       /\ m = op.name /\ op.kind = "restoreName" => n.names[m] = op.to
<1>1. CASE op.kind = "deleteSheet"
  BY <1>1, RemovedIsLive DEF Undo
<1>2. CASE op.kind # "deleteSheet"
  <2>. DEFINE to == IF op.kind = "deleteName" THEN None ELSE op.to
              names == [w.names EXCEPT ![op.name] = to]
              n == Undo(w, op)
  <2>1. /\ w = [sheets |-> w.sheets, cells |-> w.cells, names |-> w.names]
        /\ w.names = [m \in DOMAIN OriginalWorkbook.names |-> w.names[m]]
    BY DEF LiveBook, IsWorkbook
  <2>2. op.kind \in {"deleteName", "restoreName"} /\ op.name \in DOMAIN OriginalWorkbook.names
    BY <1>2 DEF IsOp
  <2>3. n = [sheets |-> w.sheets, cells |-> w.cells, names |-> names]
    BY <2>1, <2>2 DEF Undo
  <2>4. /\ names = [m \in DOMAIN OriginalWorkbook.names |-> names[m]]
        /\ \A m \in DOMAIN OriginalWorkbook.names : names[m] = IF m = op.name THEN to ELSE w.names[m]
    BY <2>1, <2>2
  <2>. HIDE DEF names, n
  <2>5. LiveBook(n)
    BY <2>3, <2>4 DEF LiveBook, IsWorkbook
  <2>. QED BY <1>2, <2>3, <2>4, <2>5 DEF n
<1>. QED BY <1>1, <1>2

LEMMA Restored ==
  ASSUME LiveBook(wb), ChangeSetInv, NEW some \in SUBSET touched, Reachable(some)
  PROVE  LET n == RestoreCells(wb, some)
         IN  /\ LiveBook(n) /\ n.sheets = wb.sheets /\ n.names = wb.names
             /\ \A c \in Cells \ some : n.cells[c] = wb.cells[c]
             /\ \A c \in some :
                  /\ content(n.cells[c]) = content(OriginalWorkbook.cells[c])
                  /\ IncludeNumberFormats /\ ~OriginalWorkbook.cells[c].absent
                       => n.cells[c].format = OriginalWorkbook.cells[c].format
<1>. DEFINE cell(c) == IF c \in some THEN RestoredCell(wb.cells[c], cs.snapshots[c]) ELSE wb.cells[c]
            cells == [c \in Cells |-> cell(c)]
            n == RestoreCells(wb, some)
<1>1. /\ wb = [sheets |-> wb.sheets, cells |-> wb.cells, names |-> wb.names]
      /\ some \subseteq Cells
  BY Snapshots DEF LiveBook, IsWorkbook
<1>2. n = [wb EXCEPT !.cells = cells]
  BY DEF RestoreCells
<1>. HIDE DEF n
<1>3. n = [sheets |-> wb.sheets, cells |-> cells, names |-> wb.names]
  BY <1>1, <1>2
<1>4. \A c \in some : SheetOf[c] \in wb.sheets
  BY DEF Reachable, OnSheets
<1>5. ASSUME NEW c \in some
      PROVE  /\ LiveCell(cell(c)) /\ content(cell(c)) = content(OriginalWorkbook.cells[c])
             /\ IncludeNumberFormats /\ ~OriginalWorkbook.cells[c].absent
                  => cell(c).format = OriginalWorkbook.cells[c].format
  <2>1. LiveCell(wb.cells[c])
    BY <1>1 DEF LiveBook
  <2>2. /\ LiveCell(cs.snapshots[c])
        /\ content(cs.snapshots[c]) = content(OriginalWorkbook.cells[c])
        /\ cs.snapshots[c].value # Null => Stored[cs.snapshots[c].value] = cs.snapshots[c].value
        /\ IncludeNumberFormats /\ ~OriginalWorkbook.cells[c].absent
             => cs.snapshots[c].format = OriginalWorkbook.cells[c].format
    BY Snapshots
  <2>3. OriginalWorkbook.cells[c].format # None
    BY <1>1, WorkbookAssumption
  <2>4. /\ LiveCell(cell(c)) /\ content(cell(c)) = content(cs.snapshots[c])
        /\ cs.snapshots[c].format # None => cell(c).format = cs.snapshots[c].format
    BY <2>1, <2>2, RestoredIsSnapshot
  <2>. QED BY <2>2, <2>3, <2>4
<1>6. \A c \in Cells \ some : cell(c) = wb.cells[c]
  OBVIOUS
<1>. HIDE DEF cell
<1>7. \A c \in Cells : /\ LiveCell(n.cells[c]) /\ n.cells[c] = cell(c)
                       /\ SheetOf[c] \notin n.sheets => n.cells[c].absent
  BY <1>3, <1>4, <1>5, <1>6 DEF LiveBook
<1>8. LiveBook(n)
  BY <1>3, <1>7 DEF LiveBook, IsWorkbook, LiveCell
<1>. QED BY <1>1, <1>3, <1>5, <1>6, <1>7, <1>8 DEF n

LEMMA HumanEdited ==
  ASSUME LiveBook(wb), NEW e \in HumanEdits, Human(e)
  PROVE  LiveBook(wb')
<1>1. /\ isCellEdit(e) => SheetOf[e.cell] \in wb.sheets
      /\ wb' = CASE e.kind = "deleteSheet" -> RemoveSheet(wb, e.sheet)
                 [] isCellEdit(e) -> WriteCells(wb, <<e>>)
                 [] OTHER -> ApplyEdit(wb, e)
  BY DEF Human
<1>2. e.kind = "deleteSheet" \/ IsLiveEdit(e)
  BY EditAssumption
<1>3. CASE e.kind = "deleteSheet"
  <2>1. wb' = RemoveSheet(wb, e.sheet)
    BY <1>1, <1>3 DEF isCellEdit, CellKinds
  <2>. QED BY <2>1, RemovedIsLive
<1>4. CASE isCellEdit(e)
  <2>1. wb' = WriteCells(wb, <<e>>) /\ IsLiveEdit(e)
    BY <1>1, <1>2, <1>4 DEF isCellEdit, CellKinds
  <2>2. IsList(<<e>>)
    <3>1. <<e>> \in Seq({e})
      OBVIOUS
    <3>. QED BY <3>1, SeqIsList
  <2>3. \A i \in DOMAIN <<e>> : <<e>>[i] = e
    OBVIOUS
  <2>4. IsBatch(wb, <<e>>)
    BY <1>1, <1>4, <2>1, <2>2, <2>3 DEF IsBatch
  <2>5. LiveBook(WriteCells(wb, <<e>>))
    BY <2>4, BatchWritten
  <2>. QED BY <2>1, <2>5
<1>5. CASE e.kind # "deleteSheet" /\ ~isCellEdit(e)
  <2>1. wb' = ApplyEdit(wb, e)
    BY <1>1, <1>5
  <2>. QED BY <1>2, <1>5, <2>1, StructureApplied
<1>. QED BY <1>3, <1>4, <1>5
-----------------------------------------------------------------------------
(* Batches.                                                                  *)

LEMMA MinOfTwo ==
  ASSUME NEW a \in Nat, NEW b \in Nat
  PROVE  Min({a, b}) = IF a <= b THEN a ELSE b
<1>1. \A m : m \in {a, b} /\ (\A x \in {a, b} : m <= x) <=> m = IF a <= b THEN a ELSE b
  OBVIOUS
<1>. QED BY <1>1 DEF Min

IsCellEditList(edits) ==
  /\ IsList(edits)
  /\ \A i \in DOMAIN edits : /\ isCellEdit(edits[i]) /\ IsLiveEdit(edits[i])
                             /\ edits[i].cell \in touched

LEMMA SubCellEdits ==
  ASSUME NEW edits, IsCellEditList(edits), NEW m \in Nat, NEW n \in Nat,
         m <= n, n <= Len(edits)
  PROVE  IsCellEditList(SubSeq(edits, m + 1, n)) /\ Len(SubSeq(edits, m + 1, n)) = n - m
<1>. DEFINE sub == SubSeq(edits, m + 1, n)
<1>1. edits \in Seq(ToSet(edits)) /\ Len(edits) \in Nat /\ DOMAIN edits = 1 .. Len(edits)
  BY ListDomain DEF IsCellEditList, IsList
<1>2. /\ sub \in Seq(ToSet(edits)) /\ Len(sub) = n - m
      /\ \A i \in 1 .. (n - m) : sub[i] = edits[m + i]
  BY <1>1
<1>. HIDE DEF sub
<1>3. DOMAIN sub = 1 .. (n - m) /\ IsList(sub)
  BY <1>2, SeqIsList
<1>4. \A i \in 1 .. (n - m) : m + i \in DOMAIN edits
  BY <1>1
<1>5. IsCellEditList(sub)
  BY <1>2, <1>3, <1>4 DEF IsCellEditList
<1>. QED BY <1>2, <1>5 DEF sub

LEMMA Batch ==
  ASSUME ChangeSetInv, written \in 0 .. Len(cellEdits), written < Len(cellEdits)
  PROVE  /\ IsCellEditList(ThisBatch) /\ Len(ThisBatch) \in Nat
         /\ written + Len(ThisBatch) \in 0 .. Len(cellEdits)
<1>. DEFINE n == Len(cellEdits)
            last == Min({written + BatchSize, n})
<1>1. IsCellEditList(cellEdits) /\ n \in Nat
  BY CellEdits, ListDomain DEF IsCellEditList
<1>2. BatchSize \in Nat
  BY WriterOptions
<1>3. last \in Nat /\ written <= last /\ last <= n
  <2>1. last = IF written + BatchSize <= n THEN written + BatchSize ELSE n
    BY <1>1, <1>2, MinOfTwo
  <2>. QED BY <1>1, <1>2, <2>1
<1>4. ThisBatch = SubSeq(cellEdits, written + 1, last)
  BY DEF ThisBatch
<1>. HIDE DEF last
<1>5. IsCellEditList(ThisBatch) /\ Len(ThisBatch) = last - written
  BY <1>1, <1>3, <1>4, SubCellEdits
<1>. QED BY <1>1, <1>3, <1>5

LEMMA BatchLanded ==
  ASSUME LiveBook(wb), ChangeSetInv, NEW edits, IsCellEditList(edits), Reachable(Touched(edits))
  PROVE  LET n == WriteCells(wb, edits)
         IN  /\ LiveBook(n) /\ n.sheets = wb.sheets /\ n.names = wb.names
             /\ Touched(edits) \subseteq touched
             /\ \A c \in Cells \ Touched(edits) : n.cells[c] = wb.cells[c]
<1>1. \A i \in DOMAIN edits : edits[i].cell \in Touched(edits)
  BY DEF IsCellEditList, Touched
<1>2. \A c \in Touched(edits) : SheetOf[c] \in wb.sheets
  BY DEF Reachable, OnSheets
<1>3. IsBatch(wb, edits)
  BY <1>1, <1>2 DEF IsBatch, IsCellEditList
<1>4. Touched(edits) \subseteq touched
  BY DEF IsCellEditList, Touched
<1>. QED BY <1>3, <1>4, BatchWritten

-----------------------------------------------------------------------------
(* The invariant that types the sync-by-sync state: which inverses have been  *)
(* recorded, which are left to run, and what was read.                        *)

LandedInv ==
  /\ IsList(landed)
  /\ Len(landed) <= Len(structuralEdits)
  /\ \A i \in 1 .. Len(landed) : landed[i] = cs.compensation[i]
  /\ pc \in {"captureProbe", "captureRead", "applied", "rollbackRead", "rollbackRestore"}
       => Len(landed) = Len(structuralEdits)
  /\ pc \in {"driftProbe", "driftRead"} => landed = <<>>

AppliedInv ==
  pc \in {"applied", "rollbackRead", "rollbackRestore"}
    => \A c \in touched : LiveCell(cs.applied[c])

\* The inverses left are the recorded ones, the last one first.
LeftToUndo(ops) ==
  /\ IsList(ops) /\ Len(ops) <= Len(cs.compensation)
  /\ \A i \in 1 .. Len(ops) : ops[i] = cs.compensation[Len(ops) + 1 - i]

UndoInv ==
  /\ force \in BOOLEAN
  /\ pc \notin {"undo", "undoAct", "done"} => force = FALSE
  /\ pc \in {"undo", "undoAct"} => LeftToUndo(undo) /\ undo # <<>>
  /\ pc = "undoAct" => Head(undo).kind # "none"

TypeInv ==
  /\ TypeOK
  /\ LiveBook(wb) /\ ChangeSetInv
  /\ LandedInv /\ AppliedInv /\ UndoInv
  /\ changed \subseteq Cells
LEMMA ChangeSetStays ==
  ASSUME ChangeSetInv, [Next]_vars
  PROVE  /\ ChangeSetInv'
         /\ touched' = touched /\ cellEdits' = cellEdits /\ structuralEdits' = structuralEdits
         /\ cs'.edits = cs.edits /\ cs'.compensation = cs.compensation
         /\ cs'.snapshots = cs.snapshots /\ (pc # "captureRead" => cs' = cs)
<1>1. cs' = cs \/ ReadCapture
  BY DEF Next, Writer, Apply, RollBack, UndoStructural, ProbeDrift, ReadDrift, DriftCheckThrows,
         StructuralLands, StructuralFails, BatchLands, BatchFails, Calculate, CalculateFails,
         ProbeCapture, CaptureFails, Restore, RestoreFails, ReadRollback, RestoreRollback,
         RollbackThrows, UndoLooks, UndoRefuses, UndoActs, UndoFails, ProbeRollback, Human, vars
<1>2. /\ cs'.edits = cs.edits /\ cs'.snapshots = cs.snapshots
      /\ cs'.compensation = cs.compensation
      /\ cs' = [edits |-> cs'.edits, snapshots |-> cs'.snapshots, applied |-> cs'.applied,
                compensation |-> cs'.compensation]
  <2>1. CASE cs' = cs
    BY <2>1 DEF ChangeSetInv
  <2>2. CASE ReadCapture
    <3>. DEFINE read == [c \in touched |-> ReadCell(c)]
    <3>1. cs' = [cs EXCEPT !.applied = read]
      BY <2>2 DEF ReadCapture
    <3>. HIDE DEF read
    <3>. QED BY <3>1 DEF ChangeSetInv
  <2>. QED BY <1>1, <2>1, <2>2
<1>3. ChangeSetInv'
  BY <1>2 DEF ChangeSetInv
<1>4. cellEdits' = cellEdits /\ structuralEdits' = structuralEdits
  BY <1>2 DEF cellEdits, structuralEdits
<1>5. pc # "captureRead" => cs' = cs
  BY <1>1 DEF ReadCapture
<1>. QED BY <1>2, <1>3, <1>4, <1>5 DEF touched

LEMMA ReversedLeft ==
  ASSUME IsList(landed), IsList(cs.compensation), Len(landed) <= Len(cs.compensation),
         \A i \in 1 .. Len(landed) : landed[i] = cs.compensation[i]
  PROVE  LeftToUndo(Reverse(landed)) /\ LeftToUndo(Reverse(cs.compensation))
<1>1. ASSUME NEW s, IsList(s), Len(s) <= Len(cs.compensation),
             \A i \in 1 .. Len(s) : s[i] = cs.compensation[i]
      PROVE  LeftToUndo(Reverse(s))
  <2>. DEFINE r == Reverse(s)
  <2>1. s \in Seq(ToSet(s)) /\ Len(s) \in Nat
    BY <1>1 DEF IsList
  <2>2. r = [i \in 1 .. Len(s) |-> s[Len(s) - i + 1]]
    BY DEF Reverse
  <2>3. \A i \in 1 .. Len(s) : Len(s) - i + 1 \in 1 .. Len(s)
    BY <2>1
  <2>. HIDE DEF r
  <2>4. /\ r \in Seq(ToSet(s)) /\ Len(r) = Len(s)
        /\ \A i \in 1 .. Len(s) : r[i] = s[Len(s) - i + 1]
    BY <2>1, <2>2, <2>3
  <2>5. \A i \in 1 .. Len(r) : r[i] = cs.compensation[Len(r) + 1 - i]
    BY <1>1, <2>1, <2>3, <2>4
  <2>6. IsList(r)
    BY <2>4, SeqIsList
  <2>. QED BY <1>1, <2>4, <2>5, <2>6 DEF LeftToUndo, r
<1>2. Len(cs.compensation) \in Nat
  BY ListDomain
<1>. QED BY <1>1, <1>2

LEMMA FirstLeft ==
  ASSUME ChangeSetInv, LeftToUndo(undo), undo # <<>>
  PROVE  /\ Len(undo) \in 1 .. Len(cs.compensation)
         /\ Head(undo) = cs.compensation[Len(undo)] /\ IsOp(Head(undo))
         /\ LeftToUndo(Tail(undo)) /\ Len(Tail(undo)) = Len(undo) - 1
<1>. DEFINE n == Len(undo)
            t == Tail(undo)
<1>1. undo \in Seq(ToSet(undo)) /\ n \in Nat /\ IsList(cs.compensation)
  BY Structure DEF LeftToUndo, IsList
<1>2. n \in 1 .. Len(cs.compensation) /\ Len(cs.compensation) \in Nat
  <2>1. n # 0
    BY <1>1
  <2>. QED BY <1>1, <2>1, ListDomain DEF LeftToUndo
<1>3. Head(undo) = cs.compensation[n]
  BY <1>1, <1>2 DEF LeftToUndo
<1>4. IsOp(Head(undo))
  BY <1>2, <1>3, Structure
<1>5. /\ t \in Seq(ToSet(undo)) /\ Len(t) = n - 1
      /\ \A i \in 1 .. (n - 1) : t[i] = undo[i + 1]
  BY <1>1, <1>2
<1>6. \A i \in 1 .. (n - 1) : t[i] = cs.compensation[(n - 1) + 1 - i]
  BY <1>2, <1>5 DEF LeftToUndo
<1>7. IsList(t)
  BY <1>5, SeqIsList
<1>8. LeftToUndo(t)
  BY <1>2, <1>5, <1>6, <1>7 DEF LeftToUndo
<1>. QED BY <1>2, <1>3, <1>4, <1>5, <1>8

\* How a call goes on after its cells: to the inverses, or to its end.
LEMMA UndoStarts ==
  ASSUME NEW ops, NEW how, UndoNext(ops, how), LeftToUndo(ops)
  PROVE  /\ undo' = ops /\ pc' \in {"undo", "done"}
         /\ pc' = "undo" => outcome' = outcome /\ undo' # <<>>
         /\ pc' = "done" => outcome' = how /\ ops = <<>>
  BY DEF UndoNext, Ends
-----------------------------------------------------------------------------
(* The writer's writes.                                                      *)

Writes(cells) ==
  /\ LiveBook(wb)' /\ wb'.sheets = wb.sheets /\ wb'.names = wb.names
  /\ \A c \in Cells \ cells : wb'.cells[c] = wb.cells[c]
  /\ Overwrote(cells)

Restores(cells) ==
  /\ Writes(cells)
  /\ \A c \in cells : /\ content(wb'.cells[c]) = content(OriginalWorkbook.cells[c])
                      /\ IncludeNumberFormats /\ ~OriginalWorkbook.cells[c].absent
                           => wb'.cells[c].format = OriginalWorkbook.cells[c].format

LEMMA BatchWrites ==
  ASSUME TypeInv, BatchLands \/ \E n \in 0 .. BatchSize : BatchFails(n)
  PROVE  \E cells \in SUBSET touched : Writes(cells)
<1>. USE DEF TypeInv
<1>1. AtCells
  BY DEF BatchLands, BatchFails
<1>2. IsCellEditList(ThisBatch) /\ Len(ThisBatch) \in Nat
  BY <1>1, Batch DEF AtCells, TypeOK
<1>3. CASE BatchLands
  <2>1. /\ Reachable(Touched(ThisBatch)) /\ wb' = WriteCells(wb, ThisBatch)
        /\ Overwrote(Touched(ThisBatch))
    BY <1>3 DEF BatchLands
  <2>2. /\ LiveBook(WriteCells(wb, ThisBatch))
        /\ WriteCells(wb, ThisBatch).sheets = wb.sheets
        /\ WriteCells(wb, ThisBatch).names = wb.names
        /\ Touched(ThisBatch) \subseteq touched
        /\ \A c \in Cells \ Touched(ThisBatch) : WriteCells(wb, ThisBatch).cells[c] = wb.cells[c]
    BY <1>2, <2>1, BatchLanded
  <2>3. LiveBook(wb)'
    BY <2>1, <2>2 DEF LiveBook
  <2>. QED BY <2>1, <2>2, <2>3 DEF Writes
<1>4. ASSUME NEW n \in 0 .. BatchSize, BatchFails(n)
      PROVE  \E cells \in SUBSET touched : Writes(cells)
  <2>. DEFINE before == SubSeq(ThisBatch, 1, n)
  <2>1. /\ Reachable(Touched(before)) /\ wb' = WriteCells(wb, before)
        /\ Overwrote(Touched(before)) /\ n <= Len(ThisBatch)
    BY <1>4 DEF BatchFails
  <2>2. IsCellEditList(before)
    <3>1. n \in Nat /\ 0 \in Nat /\ 0 <= n /\ 0 + 1 = 1
      BY WriterOptions
    <3>2. IsCellEditList(SubSeq(ThisBatch, 0 + 1, n))
      BY <1>2, <2>1, <3>1, SubCellEdits
    <3>. QED BY <3>1, <3>2
  <2>3. /\ LiveBook(WriteCells(wb, before))
        /\ WriteCells(wb, before).sheets = wb.sheets
        /\ WriteCells(wb, before).names = wb.names
        /\ Touched(before) \subseteq touched
        /\ \A c \in Cells \ Touched(before) : WriteCells(wb, before).cells[c] = wb.cells[c]
    BY <2>1, <2>2, BatchLanded
  <2>4. LiveBook(wb)'
    BY <2>1, <2>3 DEF LiveBook
  <2>. QED BY <2>1, <2>3, <2>4 DEF Writes
<1>. QED BY <1>3, <1>4

LEMMA RestoreWrites ==
  ASSUME TypeInv, NEW some \in SUBSET touched, Reachable(some),
         wb' = RestoreCells(wb, some), Overwrote(some)
  PROVE  Restores(some)
<1>1. /\ LiveBook(RestoreCells(wb, some))
      /\ RestoreCells(wb, some).sheets = wb.sheets
      /\ RestoreCells(wb, some).names = wb.names
      /\ \A c \in Cells \ some : RestoreCells(wb, some).cells[c] = wb.cells[c]
      /\ \A c \in some :
           /\ content(RestoreCells(wb, some).cells[c]) = content(OriginalWorkbook.cells[c])
           /\ IncludeNumberFormats /\ ~OriginalWorkbook.cells[c].absent
                => RestoreCells(wb, some).cells[c].format = OriginalWorkbook.cells[c].format
  BY Restored DEF TypeInv
<1>2. LiveBook(wb)'
  BY <1>1 DEF LiveBook
<1>. QED BY <1>1, <1>2 DEF Restores, Writes

\* Every restore is the recovery's or the rollback's; a call may end in the
\* middle of it.
LEMMA RollbackWrites ==
  ASSUME TypeInv, NEW some \in SUBSET touched, RollbackThrows(some)
  PROVE  /\ Restores(some) /\ pc \in {"applied", "rollbackRead", "rollbackRestore"}
         /\ pc # "rollbackRestore" => some = {}
         /\ pc = "rollbackRestore" => some \subseteq restorable
<1>1. Reachable(some)
  BY DEF RollbackThrows, Reachable, OnSheets
<1>2. wb' = RestoreCells(wb, some) /\ Overwrote(some)
  BY DEF RollbackThrows
<1>3. Restores(some)
  BY <1>1, <1>2, RestoreWrites
<1>. QED BY <1>3 DEF RollbackThrows
-----------------------------------------------------------------------------
(* The type invariant.                                                       *)

LEMMA TypeInit ==
  ASSUME Init
  PROVE  TypeInv
<1>1. PICK edits \in EditLists :
        cs = [edits |-> edits, snapshots |-> Snapshot(Extracted(wb), edits), applied |-> <<>>,
              compensation |-> planCompensation(Extracted(wb), edits)]
  BY DEF Init
<1>2. wb = OriginalWorkbook
  BY DEF Init
<1>3. ChangeSetInv
  BY <1>1, <1>2 DEF ChangeSetInv
<1>4. LiveBook(wb)
  BY <1>2, OriginalIsLive
<1>5. Len(cellEdits) \in Nat /\ Len(structuralEdits) \in Nat
  BY <1>3, CellEdits, Structure, ListDomain
<1>6. IsList(<<>>) /\ Len(<<>>) = 0
  <2>1. <<>> \in Seq({}) /\ Len(<<>>) = 0
    OBVIOUS
  <2>. QED BY <2>1, SeqIsList
<1>7. LandedInv
  BY <1>5, <1>6 DEF Init, LandedInv
<1>8. AppliedInv /\ UndoInv
  BY DEF Init, AppliedInv, UndoInv
<1>9. TypeOK
  BY <1>5, <1>6, WriterBounds DEF Init, TypeOK
<1>. QED BY <1>3, <1>4, <1>7, <1>8, <1>9 DEF TypeInv, Init

\* A failed inverse leaves the workbook as it was, but for the name it was to
\* restore, which may be gone.
LEMMA FailedInverse ==
  ASSUME TypeInv, UndoFails
  PROVE  /\ LiveBook(wb') /\ wb'.cells = wb.cells /\ wb'.sheets = wb.sheets
         /\ \A n \in DOMAIN OriginalWorkbook.names :
              \/ wb'.names[n] = wb.names[n]
              \/ Head(undo).kind = "restoreName" /\ Head(undo).name = n
<1>. DEFINE op == Head(undo)
            delete == [kind |-> "deleteName", name |-> op.name]
<1>1. LiveBook(wb) /\ IsOp(op)
  BY FirstLeft DEF UndoFails, TypeInv, UndoInv
<1>2. wb' = wb \/ (op.kind = "restoreName" /\ wb' = [wb EXCEPT !.names[op.name] = None])
  BY DEF UndoFails, OnlyDeleted
<1>3. CASE op.kind = "restoreName" /\ wb' = [wb EXCEPT !.names[op.name] = None]
  <2>1. wb' = Undo(wb, delete)
    BY <1>3 DEF Undo
  <2>2. IsOp(delete) /\ delete.kind = "deleteName" /\ delete.name = op.name
    BY <1>1, <1>3 DEF IsOp
  <2>. HIDE DEF delete
  <2>3. delete.kind # "none" /\ delete.kind # "deleteSheet"
    BY <2>2
  <2>4. /\ LiveBook(wb') /\ wb'.cells = wb.cells /\ wb'.sheets = wb.sheets
        /\ \A n \in DOMAIN OriginalWorkbook.names : n # delete.name => wb'.names[n] = wb.names[n]
    BY <1>1, <2>1, <2>2, <2>3, Undone
  <2>. QED BY <1>3, <2>2, <2>4
<1>. QED BY <1>1, <1>2, <1>3

LEMMA BookStays ==
  ASSUME TypeInv, [Next]_vars
  PROVE  LiveBook(wb)'
<1>1. LiveBook(wb) /\ ChangeSetInv
  BY DEF TypeInv
<1>2. CASE wb' = wb
  BY <1>1, <1>2 DEF LiveBook
<1>3. CASE StructuralLands
  <2>1. Len(landed) + 1 \in 1 .. Len(structuralEdits)
    BY <1>1, <1>3, ListDomain, Structure DEF StructuralLands, TypeInv, LandedInv
  <2>2. ~isCellEdit(NextStructural) /\ IsLiveEdit(NextStructural)
    BY <1>1, <2>1, Structure DEF NextStructural
  <2>3. LiveBook(ApplyEdit(wb, NextStructural))
    BY <1>1, <2>2, StructureApplied
  <2>. QED BY <1>3, <2>3 DEF StructuralLands, LiveBook
<1>4. CASE BatchLands \/ \E n \in 0 .. BatchSize : BatchFails(n)
  BY <1>4, BatchWrites DEF Writes
<1>5. CASE Restore
  BY <1>5, RestoreWrites DEF Restore, Restores, Writes
<1>6. CASE \E some \in SUBSET touched : RestoreFails(some)
  BY <1>6, RestoreWrites DEF RestoreFails, Restores, Writes
<1>7. CASE RestoreRollback
  <2>1. restorable \in SUBSET touched
    BY DEF TypeInv, TypeOK
  <2>. QED BY <1>7, <2>1, RestoreWrites DEF RestoreRollback, Restores, Writes
<1>8. CASE \E some \in SUBSET touched : RollbackThrows(some)
  BY <1>8, RollbackWrites DEF Restores, Writes
<1>9. CASE UndoActs
  <2>1. LeftToUndo(undo) /\ undo # <<>> /\ Head(undo).kind # "none"
    BY <1>9 DEF UndoActs, TypeInv, UndoInv
  <2>2. IsOp(Head(undo))
    BY <1>1, <2>1, FirstLeft
  <2>3. LiveBook(Undo(wb, Head(undo)))
    BY <1>1, <2>1, <2>2, Undone
  <2>. QED BY <1>9, <2>3 DEF UndoActs, LiveBook
<1>10. CASE \E e \in HumanEdits : Human(e)
  BY <1>1, <1>10, HumanEdited
<1>11. CASE ProbeDrift \/ ReadDrift \/ DriftCheckThrows \/ StructuralFails \/ Calculate
            \/ CalculateFails \/ ProbeCapture \/ ReadCapture \/ CaptureFails \/ ProbeRollback
            \/ ReadRollback \/ UndoLooks \/ UndoRefuses
  <2>1. wb' = wb
    BY <1>11 DEF ProbeDrift, ReadDrift, DriftCheckThrows, StructuralFails, Calculate,
       CalculateFails, ProbeCapture, ReadCapture, CaptureFails, ProbeRollback, ReadRollback,
       UndoLooks, UndoRefuses
  <2>. QED BY <1>2, <2>1
<1>12. CASE UNCHANGED vars
  BY <1>2, <1>12 DEF vars
<1>14. CASE UndoFails
  BY <1>14, FailedInverse DEF LiveBook
<1>13. {} \in SUBSET touched
  OBVIOUS
<1>. QED BY <1>3, <1>4, <1>5, <1>6, <1>7, <1>8, <1>9, <1>10, <1>11, <1>12, <1>13, <1>14
         DEF Next, Writer, Apply, RollBack, UndoStructural
LEMMA LandedStays ==
  ASSUME TypeInv, [Next]_vars
  PROVE  LandedInv'
<1>1. /\ ChangeSetInv /\ LandedInv /\ IsList(cs.compensation)
      /\ Len(cs.compensation) = Len(structuralEdits) /\ Len(structuralEdits) \in Nat
  BY Structure, ListDomain DEF TypeInv
<1>2. structuralEdits' = structuralEdits /\ cs'.compensation = cs.compensation
  BY <1>1, ChangeSetStays
<1>3. CASE StructuralLands
  <2>. DEFINE n == Len(landed)
              op == cs.compensation[n + 1]
  <2>1. landed \in Seq(ToSet(landed)) /\ n \in Nat /\ n < Len(structuralEdits)
    BY <1>1, <1>3 DEF StructuralLands, LandedInv, IsList
  <2>2. landed' = Append(landed, op) /\ pc' = "writing"
    BY <1>3 DEF StructuralLands
  <2>. HIDE DEF op
  <2>3. landed \in Seq(ToSet(landed) \cup {op})
    BY <2>1
  <2>4. /\ landed' \in Seq(ToSet(landed) \cup {op}) /\ Len(landed') = n + 1
        /\ landed'[n + 1] = op /\ \A i \in 1 .. n : landed'[i] = landed[i]
    BY <2>1, <2>2, <2>3
  <2>5. IsList(landed')
    BY <2>4, SeqIsList
  <2>6. \A i \in 1 .. (n + 1) : landed'[i] = cs.compensation[i]
    BY <1>1, <2>1, <2>4 DEF LandedInv, op
  <2>7. IsList(landed)'
    BY <2>5 DEF IsList
  <2>. QED BY <1>1, <1>2, <2>1, <2>2, <2>4, <2>6, <2>7 DEF LandedInv
<1>4. CASE landed' = landed /\ (pc' = pc \/ pc' \in {"writing", "restore", "undo", "undoAct",
                                                     "done"})
  BY <1>1, <1>2, <1>4 DEF LandedInv, IsList
<1>5. CASE Calculate
  BY <1>1, <1>2, <1>5 DEF Calculate, LandedInv, IsList
<1>6. CASE \/ ProbeDrift \/ ProbeCapture \/ ReadCapture \/ ProbeRollback
           \/ (ReadRollback /\ pc' = "rollbackRestore")
  BY <1>1, <1>2, <1>6 DEF ProbeDrift, ProbeCapture, ReadCapture, ProbeRollback, Probe, ReadRollback,
     LandedInv, IsList
<1>. QED
  BY <1>3, <1>4, <1>5, <1>6 DEF Next, Writer, Apply, RollBack, UndoStructural, ProbeDrift,
     ReadDrift, DriftCheckThrows, StructuralFails, BatchLands, BatchFails, CalculateFails,
     CaptureFails, Restore, RestoreFails, ReadRollback, RestoreRollback, RollbackThrows,
     UndoLooks, UndoRefuses, UndoActs, UndoFails, Human, UndoNext, Ends, Probe, vars

LEMMA ReadIsLive ==
  ASSUME LiveBook(wb), NEW c \in Cells
  PROVE  /\ LiveCell(ReadCell(c))
         /\ c \in Loaded => content(ReadCell(c)) = content(wb.cells[c])
         /\ c \notin Loaded => ReadCell(c) = Absent
<1>. DEFINE x == wb.cells[c]
<1>1. x = [absent |-> x.absent, formula |-> x.formula, value |-> x.value, format |-> x.format]
      /\ LiveCell(x)
  BY DEF LiveBook, LiveCell, IsCell
<1>. HIDE DEF x
<1>2. CASE c \in Loaded
  <2>1. ReadCell(c) = [x EXCEPT !.format = None]
    BY <1>2 DEF ReadCell, x
  <2>2. ReadCell(c) = [absent |-> x.absent, formula |-> x.formula, value |-> x.value,
                       format |-> None]
    BY <1>1, <2>1
  <2>3. LiveCell(ReadCell(c)) /\ content(ReadCell(c)) = content(x)
    BY <1>1, <2>2 DEF LiveCell, IsCell, content
  <2>. QED BY <1>2, <2>3 DEF x
<1>3. CASE c \notin Loaded
  BY <1>3, AbsentIsLive DEF ReadCell
<1>. QED BY <1>2, <1>3

LEMMA AppliedStays ==
  ASSUME TypeInv, [Next]_vars
  PROVE  AppliedInv'
<1>1. ChangeSetInv /\ LiveBook(wb) /\ AppliedInv /\ touched \subseteq Cells
  BY Snapshots DEF TypeInv
<1>2. touched' = touched /\ (pc # "captureRead" => cs' = cs)
  BY <1>1, ChangeSetStays
<1>3. CASE ReadCapture
  <2>. DEFINE read == [c \in touched |-> ReadCell(c)]
  <2>1. cs' = [cs EXCEPT !.applied = read]
    BY <1>3 DEF ReadCapture
  <2>2. \A c \in touched : LiveCell(read[c])
    BY <1>1, ReadIsLive
  <2>. HIDE DEF read
  <2>3. cs'.applied = read
    BY <1>1, <2>1 DEF ChangeSetInv
  <2>. QED BY <1>2, <2>2, <2>3 DEF AppliedInv
<1>4. CASE pc' = pc /\ ~ReadCapture
  <2>1. pc \in {"applied", "rollbackRead", "rollbackRestore"} => cs' = cs
    BY <1>2
  <2>. QED BY <1>1, <1>2, <1>4, <2>1 DEF AppliedInv
<1>5. CASE pc' \notin {"applied", "rollbackRead", "rollbackRestore"}
  BY <1>5 DEF AppliedInv
<1>6. CASE ProbeRollback \/ ReadRollback
  BY <1>1, <1>2, <1>6 DEF AppliedInv, ProbeRollback, Probe, ReadRollback
<1>. QED
  BY <1>3, <1>4, <1>5, <1>6 DEF Next, Writer, Apply, RollBack, UndoStructural, ProbeDrift,
     ReadDrift, DriftCheckThrows, StructuralLands, StructuralFails, BatchLands, BatchFails,
     Calculate, CalculateFails, ProbeCapture, ReadCapture, CaptureFails, Restore, RestoreFails,
     RestoreRollback, RollbackThrows, UndoLooks, UndoRefuses, UndoActs, UndoFails, Human,
     UndoNext, Ends, Probe, vars

LEMMA UndoStays ==
  ASSUME TypeInv, [Next]_vars
  PROVE  UndoInv'
<1>1. /\ ChangeSetInv /\ LandedInv /\ UndoInv /\ IsList(cs.compensation)
      /\ Len(cs.compensation) = Len(structuralEdits)
  BY Structure DEF TypeInv
<1>2. cs'.compensation = cs.compensation
  BY <1>1, ChangeSetStays
<1>3. LeftToUndo(Reverse(landed)) /\ LeftToUndo(Reverse(cs.compensation))
  BY <1>1, ReversedLeft DEF LandedInv
<1>4. ASSUME NEW ops, NEW how, UndoNext(ops, how), LeftToUndo(ops), force' \in BOOLEAN
      PROVE  UndoInv'
  <2>1. undo' = ops /\ pc' \in {"undo", "done"} /\ (pc' = "undo" => undo' # <<>>)
    BY <1>4, UndoStarts
  <2>2. LeftToUndo(undo)'
    BY <1>2, <1>4, <2>1 DEF LeftToUndo, IsList
  <2>. QED BY <1>4, <2>1, <2>2 DEF UndoInv
<1>5. CASE Restore
  BY <1>3, <1>4, <1>5 DEF Restore
<1>6. CASE ReadRollback /\ ~(undo' = undo /\ force' = force /\ pc' = "rollbackRestore")
  BY <1>1, <1>3, <1>4, <1>6 DEF ReadRollback, UndoInv
<1>7. CASE RestoreRollback
  BY <1>1, <1>3, <1>4, <1>7 DEF RestoreRollback, UndoInv
<1>8. CASE UndoRefuses \/ UndoActs \/ UndoFails
  <2>1. pc \in {"undo", "undoAct"} /\ UndoNext(Tail(undo), UndoEnd) /\ force' = force
    BY <1>8 DEF UndoRefuses, UndoActs, UndoFails
  <2>2. LeftToUndo(Tail(undo))
    BY <1>1, <2>1, FirstLeft DEF UndoInv
  <2>. QED BY <1>1, <1>4, <2>1, <2>2 DEF UndoInv
<1>9. CASE UndoLooks
  <2>1. undo' = undo /\ force' = force /\ pc = "undo" /\ pc' = "undoAct"
    BY <1>9 DEF UndoLooks
  <2>2. Head(undo).kind # "none"
    BY <1>9 DEF UndoLooks, MayUndo
  <2>3. LeftToUndo(undo)'
    BY <1>1, <1>2, <2>1 DEF LeftToUndo, IsList, UndoInv
  <2>. QED BY <1>1, <2>1, <2>2, <2>3 DEF UndoInv
<1>10. CASE /\ undo' = undo /\ force' = force
            /\ \/ pc' = pc
               \/ pc' = "done"
               \/ pc \notin {"undo", "undoAct", "done"} /\ pc' \notin {"undo", "undoAct"}
  <2>1. pc' \in {"undo", "undoAct"} => LeftToUndo(undo)'
    BY <1>1, <1>2, <1>10 DEF LeftToUndo, IsList, UndoInv
  <2>. QED BY <1>1, <1>10, <2>1 DEF UndoInv
<1>11. CASE UNCHANGED vars
  BY <1>10, <1>11 DEF vars, undoing
<1>. QED
  BY <1>5, <1>6, <1>7, <1>8, <1>9, <1>10, <1>11 DEF Next, Writer, Apply, RollBack,
     UndoStructural, ProbeDrift, ReadDrift, DriftCheckThrows, StructuralLands, StructuralFails,
     BatchLands, BatchFails, AtCells, Calculate, CalculateFails, ProbeCapture, ReadCapture,
     CaptureFails, RestoreFails, ReadRollback, RollbackThrows, ProbeRollback, Human,
     UndoNext, Ends, Probe, undoing
LEMMA FailuresBounded ==
  ASSUME failures \in 0 .. MaxFailures, NEW refused, SyncFails(refused)
  PROVE  failures' \in 0 .. MaxFailures
  BY WriterBounds DEF SyncFails, HostFails

LEMMA CountersStay ==
  ASSUME TypeInv, [Next]_vars
  PROVE  /\ written' \in 0 .. Len(cellEdits)
         /\ failures' \in 0 .. MaxFailures /\ humanEdits' \in 0 .. MaxHumanEdits
<1>1. /\ written \in 0 .. Len(cellEdits) /\ failures \in 0 .. MaxFailures
      /\ humanEdits \in 0 .. MaxHumanEdits /\ ChangeSetInv
  BY DEF TypeInv, TypeOK
<1>2. written' = written \/ BatchLands
  BY DEF Next, Writer, Apply, RollBack, UndoStructural, ProbeDrift, ReadDrift, DriftCheckThrows,
     StructuralLands, StructuralFails, BatchFails, Calculate, CalculateFails, ProbeCapture,
     ReadCapture, CaptureFails, Restore, RestoreFails, ReadRollback, RestoreRollback,
     RollbackThrows, UndoLooks, UndoRefuses, UndoActs, UndoFails, ProbeRollback, Human, vars
<1>3. BatchLands => written' \in 0 .. Len(cellEdits)
  BY <1>1, Batch DEF BatchLands, AtCells
<1>4. humanEdits' = humanEdits \/ \E e \in HumanEdits : Human(e)
  BY DEF Next, Writer, Apply, RollBack, UndoStructural, ProbeDrift, ReadDrift, DriftCheckThrows,
     StructuralLands, StructuralFails, BatchLands, BatchFails, Calculate, CalculateFails,
     ProbeCapture, ReadCapture, CaptureFails, Restore, RestoreFails, ReadRollback,
     RestoreRollback, RollbackThrows, UndoLooks, UndoRefuses, UndoActs, UndoFails,
     ProbeRollback, vars
<1>5. (\E e \in HumanEdits : Human(e)) => humanEdits' \in 0 .. MaxHumanEdits
  BY <1>1, WriterBounds DEF Human
<1>6. failures' = failures \/ (\E refused \in BOOLEAN : SyncFails(refused))
  <2>1. CASE \E some \in SUBSET touched : RollbackThrows(some)
    BY <2>1 DEF RollbackThrows, SyncFails
  <2>2. CASE CalculateFails
    BY <2>2 DEF CalculateFails, SyncFails
  <2>3. CASE \/ DriftCheckThrows \/ StructuralFails \/ (\E n \in 0 .. BatchSize : BatchFails(n))
             \/ CaptureFails \/ (\E some \in SUBSET touched : RestoreFails(some))
             \/ UndoRefuses \/ UndoFails
    BY <2>3 DEF DriftCheckThrows, StructuralFails, BatchFails, CaptureFails, RestoreFails,
       UndoRefuses, UndoFails, SyncFails
  <2>4. {} \in SUBSET touched
    OBVIOUS
  <2>. QED BY <2>1, <2>2, <2>3, <2>4 DEF Next, Writer, Apply, RollBack, UndoStructural,
     ProbeDrift, ReadDrift, StructuralLands, BatchLands, Calculate, ProbeCapture, ReadCapture,
     Restore, ReadRollback, RestoreRollback, UndoLooks, UndoActs, ProbeRollback, Human, vars
<1>7. failures' \in 0 .. MaxFailures
  BY <1>1, <1>6, FailuresBounded
<1>. QED BY <1>1, <1>2, <1>3, <1>4, <1>5, <1>7

LEMMA HistoryStays ==
  ASSUME TypeInv, [Next]_vars
  PROVE  noticed' \subseteq changed' /\ changed' \subseteq Cells
<1>1. noticed \subseteq changed /\ changed \subseteq Cells
  BY DEF TypeInv, TypeOK
<1>2. CASE UNCHANGED <<changed, noticed>>
  BY <1>1, <1>2
<1>3. CASE \E cells : Overwrote(cells)
  BY <1>1, <1>3 DEF Overwrote
<1>4. CASE UndoActs
  BY <1>1, <1>4 DEF UndoActs
<1>5. CASE \E e \in HumanEdits : Human(e)
  BY <1>1, <1>5 DEF Human
<1>. QED BY <1>2, <1>3, <1>4, <1>5 DEF Next, Writer, Apply, RollBack, UndoStructural, ProbeDrift,
     ReadDrift, DriftCheckThrows, StructuralLands, StructuralFails, BatchLands, BatchFails,
     Calculate, CalculateFails, ProbeCapture, ReadCapture, CaptureFails, Restore, RestoreFails,
     ReadRollback, RestoreRollback, RollbackThrows, UndoLooks, UndoRefuses, UndoFails,
     ProbeRollback, vars, history

LEMMA ReadsStay ==
  ASSUME TypeInv, [Next]_vars
  PROVE  restorable' \cup conflicts' \subseteq touched
<1>1. restorable \cup conflicts \subseteq touched
  BY DEF TypeInv, TypeOK
<1>2. UNCHANGED <<restorable, conflicts>> \/ ReadRollback
  BY DEF Next, Writer, Apply, RollBack, UndoStructural, ProbeDrift,
     ReadDrift, DriftCheckThrows, StructuralLands, StructuralFails, BatchLands, BatchFails,
     Calculate, CalculateFails, ProbeCapture, ReadCapture, CaptureFails, Restore, RestoreFails,
     RestoreRollback, RollbackThrows, UndoLooks, UndoRefuses, UndoActs, UndoFails, Human,
     ProbeRollback, vars, reading
<1>3. ReadRollback => restorable' \cup conflicts' \subseteq touched
  BY DEF ReadRollback
<1>. QED BY <1>1, <1>2, <1>3

LEMMA PhasesStay ==
  ASSUME TypeInv, [Next]_vars
  PROVE  /\ pc' \in {"driftProbe", "driftRead", "writing", "captureProbe", "captureRead",
                     "restore", "applied", "rollbackRead", "rollbackRestore", "undo",
                     "undoAct", "done"}
         /\ outcome' \in {None, "refused", "threw", "applied", "recovered",
                          "restore-failed", "rolled-back", "rollback-threw"}
  BY DEF TypeInv, TypeOK, Next, Writer, Apply, RollBack, UndoStructural, ProbeDrift,
     ReadDrift, DriftCheckThrows, StructuralLands, StructuralFails, BatchLands, BatchFails,
     Calculate, CalculateFails, ProbeCapture, ReadCapture, CaptureFails, Restore, RestoreFails,
     ReadRollback, RestoreRollback, RollbackThrows, UndoLooks, UndoRefuses, UndoActs, UndoFails,
     Human, ProbeRollback, Probe, UndoNext, UndoEnd, Ends, vars

LEMMA TypeNext ==
  ASSUME TypeInv, [Next]_vars
  PROVE  TypeInv'
<1>1. ChangeSetInv
  BY DEF TypeInv
<1>2. /\ ChangeSetInv' /\ touched' = touched /\ cellEdits' = cellEdits
      /\ structuralEdits' = structuralEdits
  BY <1>1, ChangeSetStays
<1>3. LiveBook(wb)' /\ LandedInv' /\ AppliedInv' /\ UndoInv'
  BY BookStays, LandedStays, AppliedStays, UndoStays
<1>4. Len(landed') <= Len(structuralEdits')
  BY <1>3 DEF LandedInv
<1>5. TypeOK'
  BY <1>2, <1>4, PhasesStay, CountersStay, HistoryStays, ReadsStay DEF TypeOK
<1>. QED BY <1>2, <1>3, <1>5, HistoryStays DEF TypeInv

\* The writer's state has its type: no inverse is recorded that was not
\* planned, no more cell edits are counted than the change set has, nothing is
\* restored or left alone that the change set does not touch, and nothing read
\* can be noticed that did not change (LiveWriter.TypeOK).
THEOREM TypeCorrect == Spec => []TypeOK
<1>1. Spec => []TypeInv
  BY TypeInit, TypeNext, PTL DEF Spec
<1>2. TypeInv => TypeOK
  BY DEF TypeInv
<1>. QED BY <1>1, <1>2, PTL
-----------------------------------------------------------------------------
(* What people changed and a read can still notice is not written over.      *)

SameAs(c, cell) == content(wb.cells[c]) = content(cell)

WritePhases == {"writing", "captureProbe", "captureRead", "restore"}

\* Before the write: a noticed edit differs from what the drift check compares
\* with, unless the probe already missed its sheet, and then the cell is blank.
DriftWillNotice ==
  pc \in {"driftProbe", "driftRead"} =>
    \A c \in noticed : ~SameAs(c, OriginalWorkbook.cells[c])

UnreadIsBlank ==
  pc \in {"driftRead", "rollbackRead"} =>
    \A c \in noticed \cap touched : c \notin Loaded => wb.cells[c].absent

\* While writing and restoring, what is written was not noticed.
WritesAreUnnoticed ==
  /\ pc \in WritePhases => noticed \cap touched = {}
  /\ pc = "rollbackRestore" => noticed \cap restorable = {}

\* Nothing noticed is on a sheet that was added, or is about to be deleted.
BlankOn(sheet) == \A c \in noticed : SheetOf[c] = sheet => wb.cells[c].absent

AddedSheetsAreBlank ==
  /\ pc \in WritePhases =>
       \A i \in 1 .. Len(landed) :
         landed[i].kind = "deleteSheet" => BlankOn(landed[i].sheet)
  /\ pc \in {"undo", "undoAct"} /\ force =>
       \A i \in 1 .. Len(undo) : undo[i].kind = "deleteSheet" => BlankOn(undo[i].sheet)
  /\ pc = "undoAct" /\ Head(undo).kind = "deleteSheet" => BlankOn(Head(undo).sheet)

\* Before the rollback: a noticed edit differs from what the write left.
RollbackWillNotice ==
  pc \in {"applied", "rollbackRead"} =>
    \A c \in noticed \cap touched : ~SameAs(c, cs.applied[c])

SurviveInv ==
  /\ DriftWillNotice /\ UnreadIsBlank /\ WritesAreUnnoticed
  /\ AddedSheetsAreBlank /\ RollbackWillNotice

\* Until the drift check, what nobody changed is as it was proposed; between the
\* write and the rollback's read, it is as the write left it; and what a read
\* is to skip is blank.
DriftPhases == {"driftProbe", "driftRead"}
ReadPhases == {"driftRead", "captureRead", "rollbackRead"}

ConflictInv ==
  /\ pc \in DriftPhases =>
       \A c \in touched \ changed : SameAs(c, OriginalWorkbook.cells[c])
  /\ pc \in {"applied", "rollbackRead"} =>
       \A c \in touched \ changed : SameAs(c, cs.applied[c])
  /\ pc \in ReadPhases =>
       \A c \in touched \ changed : c \notin Loaded => wb.cells[c].absent

\* What is read tells a cell from another state of it just when their contents
\* differ.
LEMMA ReadTells ==
  ASSUME LiveBook(wb), NEW c \in Cells, NEW was, LiveCell(was),
         c \notin Loaded => wb.cells[c].absent
  PROVE  SameAs(c, was) <=> ~Differs(was, ReadCell(c))
<1>1. LiveCell(wb.cells[c])
  BY DEF LiveBook
<1>2. LiveCell(ReadCell(c)) /\ content(ReadCell(c)) = content(wb.cells[c])
  <2>1. CASE c \in Loaded
    BY <2>1, ReadIsLive
  <2>2. CASE c \notin Loaded
    BY <1>1, <2>2, ReadIsLive, AbsentIsLive, SameCells
  <2>. QED BY <2>1, <2>2
<1>3. content(was) = content(ReadCell(c)) <=> ~Differs(was, ReadCell(c))
  BY <1>2, SameCells
<1>. QED BY <1>2, <1>3 DEF SameAs

LEMMA UnprobedIsBlank ==
  ASSUME TypeInv, Probe(pc, pc'), wb' = wb, cs' = cs
  PROVE  \A c \in touched : c \notin Loaded' => wb'.cells[c].absent
<1>1. touched \subseteq Cells /\ LiveBook(wb)
  BY Snapshots DEF TypeInv
<1>2. present' = {SheetOf[c] : c \in touched} \cap wb.sheets /\ touched' = touched
  BY DEF Probe, touched
<1>3. Loaded' = {c \in touched : SheetOf[c] \in present'}
  BY <1>2 DEF Loaded, OnSheets
<1>. QED BY <1>1, <1>2, <1>3 DEF LiveBook

People == \E e \in HumanEdits : Human(e)

LEMMA WriterLeavesNoticed ==
  ASSUME TypeInv, [Next]_vars, ~People
  PROVE  noticed' \subseteq noticed /\ \A c \in noticed' : wb'.cells[c] = wb.cells[c]
<1>1. noticed \subseteq Cells /\ LiveBook(wb) /\ ChangeSetInv
  BY DEF TypeInv, TypeOK
<1>2. CASE UNCHANGED <<wb, noticed>>
  BY <1>2
<1>3. CASE \E cells \in SUBSET touched : Writes(cells)
  BY <1>1, <1>3 DEF Writes, Overwrote
<1>4. CASE StructuralLands
  <2>1. Len(landed) + 1 \in 1 .. Len(structuralEdits)
    BY <1>1, <1>4, ListDomain, Structure DEF StructuralLands, TypeInv, LandedInv
  <2>2. ~isCellEdit(NextStructural) /\ IsLiveEdit(NextStructural)
    BY <1>1, <2>1, Structure DEF NextStructural
  <2>3. ApplyEdit(wb, NextStructural).cells = wb.cells
    BY <1>1, <2>2, StructureApplied
  <2>. QED BY <1>4, <2>3 DEF StructuralLands, history
<1>5. CASE UndoActs
  <2>1. LeftToUndo(undo) /\ undo # <<>> /\ Head(undo).kind # "none"
    BY <1>5 DEF UndoActs, TypeInv, UndoInv
  <2>2. IsOp(Head(undo))
    BY <1>1, <2>1, FirstLeft
  <2>. DEFINE op == Head(undo)
  <2>0. wb' = Undo(wb, op)
    BY <1>5 DEF UndoActs
  <2>. HIDE DEF op
  <2>3. LiveBook(wb) /\ IsOp(op) /\ op.kind # "none"
    BY <1>1, <2>1, <2>2 DEF op
  <2>4. \A c \in Cells : \/ Undo(wb, op).cells[c] = wb.cells[c]
                         \/ SheetOf[c] \notin Undo(wb, op).sheets
    BY <2>3, Undone
  <2>5. \A c \in Cells : wb'.cells[c] = wb.cells[c] \/ SheetOf[c] \notin wb'.sheets
    BY <2>0, <2>4
  <2>. QED BY <1>1, <1>5, <2>5 DEF UndoActs
<1>6. CASE BatchLands \/ \E n \in 0 .. BatchSize : BatchFails(n)
  BY <1>3, <1>6, BatchWrites
<1>7. CASE Restore \/ \E some \in SUBSET touched : RestoreFails(some)
  BY <1>3, <1>7, RestoreWrites DEF Restore, RestoreFails, Restores
<1>8. CASE RestoreRollback
  <2>1. restorable \in SUBSET touched
    BY DEF TypeInv, TypeOK
  <2>. QED BY <1>3, <1>8, <2>1, RestoreWrites DEF RestoreRollback, Restores
<1>9. CASE \E some \in SUBSET touched : RollbackThrows(some)
  BY <1>3, <1>9, RollbackWrites DEF Restores
<1>10. CASE ProbeDrift \/ ReadDrift \/ DriftCheckThrows \/ StructuralFails \/ Calculate
            \/ CalculateFails \/ ProbeCapture \/ ReadCapture \/ CaptureFails \/ ProbeRollback
            \/ ReadRollback \/ UndoLooks \/ UndoRefuses
  <2>1. UNCHANGED <<wb, noticed>>
    BY <1>10 DEF ProbeDrift, ReadDrift, DriftCheckThrows, StructuralFails, Calculate,
       CalculateFails, ProbeCapture, ReadCapture, CaptureFails, ProbeRollback, ReadRollback,
       UndoLooks, UndoRefuses, history
  <2>. QED BY <1>2, <2>1
<1>11. CASE UNCHANGED vars
  BY <1>2, <1>11 DEF vars, history
<1>13. CASE UndoFails
  <2>1. noticed' = noticed
    BY <1>13 DEF UndoFails, history
  <2>. QED BY <1>13, <2>1, FailedInverse
<1>12. {} \in SUBSET touched
  OBVIOUS
<1>. QED BY <1>4, <1>5, <1>6, <1>7, <1>8, <1>9, <1>10, <1>11, <1>12, <1>13
         DEF Next, Writer, Apply, RollBack, UndoStructural, People

\* A person's edit is noticed if a read of it is to come, and one that was
\* stays noticed unless the cell is changed again.
LEMMA PeopleNoticed ==
  ASSUME TypeInv, People, NEW c \in noticed'
  PROVE  /\ ~PutBack(c)
         /\ \/ c \in ToBeRead
            \/ c \in noticed /\ content(wb'.cells[c]) = content(wb.cells[c])
  BY DEF People, Human, TypeInv, TypeOK

LEMMA PeopleLeave ==
  ASSUME People
  PROVE  /\ UNCHANGED <<cs, pc, present, restorable, conflicts, landed, undo, force>>
         /\ \A c \in Cells : content(wb'.cells[c]) # content(wb.cells[c]) => c \in changed'
         /\ changed \subseteq changed' /\ humanEdits' = humanEdits + 1
  BY DEF People, Human, reading, undoing

LEMMA PeopleCount ==
  ASSUME TypeInv, humanEdits' = humanEdits
  PROVE  ~People
<1>1. humanEdits \in Nat
  BY WriterBounds DEF TypeInv, TypeOK
<1>. QED BY <1>1, PeopleLeave

\* Where no read is to come, what is noticed is as it was.
LEMMA NoticedLeft ==
  ASSUME TypeInv, [Next]_vars,
         pc \notin {"driftProbe", "driftRead", "applied", "rollbackRead"} \/ ~People,
         NEW c \in noticed'
  PROVE  c \in noticed /\ c \in Cells /\ content(wb'.cells[c]) = content(wb.cells[c])
<1>1. noticed' \subseteq Cells
  BY HistoryStays
<1>2. CASE ~People
  BY <1>1, <1>2, WriterLeavesNoticed
<1>3. CASE People
  <2>1. ToBeRead = {}
    BY <1>3 DEF ToBeRead
  <2>. QED BY <1>1, <1>3, <2>1, PeopleNoticed
<1>. QED BY <1>2, <1>3

LEMMA BlankLeft ==
  ASSUME TypeInv, [Next]_vars,
         pc \notin {"driftProbe", "driftRead", "applied", "rollbackRead"} \/ ~People,
         NEW sheet, BlankOn(sheet)
  PROVE  \A c \in noticed' : SheetOf[c] = sheet => wb'.cells[c].absent
  BY NoticedLeft DEF BlankOn, content
LEMMA DriftWillNoticeStays ==
  ASSUME TypeInv, DriftWillNotice, [Next]_vars
  PROVE  DriftWillNotice'
<1>1. CASE People
  <2>1. ASSUME pc' \in {"driftProbe", "driftRead"}, NEW c \in noticed'
        PROVE  content(wb'.cells[c]) # content(OriginalWorkbook.cells[c])
    BY <1>1, <2>1, PeopleNoticed, PeopleLeave DEF PutBack
  <2>. QED BY <2>1 DEF DriftWillNotice, SameAs
<1>2. CASE ~People
  <2>1. pc' \in {"driftProbe", "driftRead"} => pc \in {"driftProbe", "driftRead"}
    BY <1>2 DEF Next, Writer, Apply, RollBack, UndoStructural, ProbeDrift, ReadDrift,
       DriftCheckThrows, StructuralLands, StructuralFails, BatchLands, BatchFails, AtCells,
       Calculate, CalculateFails, ProbeCapture, ReadCapture, CaptureFails, Restore, RestoreFails,
       ReadRollback, RestoreRollback, RollbackThrows, UndoLooks, UndoRefuses, UndoActs, UndoFails,
       ProbeRollback, Probe, UndoNext, Ends, vars, People
  <2>2. noticed' \subseteq noticed /\ \A c \in noticed' : wb'.cells[c] = wb.cells[c]
    BY <1>2, WriterLeavesNoticed
  <2>. QED BY <2>1, <2>2 DEF DriftWillNotice, SameAs
<1>. QED BY <1>1, <1>2

LEMMA UnreadIsBlankStays ==
  ASSUME TypeInv, UnreadIsBlank, [Next]_vars
  PROVE  UnreadIsBlank'
<1>1. CASE People
  <2>1. /\ UNCHANGED <<cs, pc, present>>
    BY <1>1, PeopleLeave
  <2>2. touched' = touched /\ Loaded' = Loaded
    BY <2>1 DEF touched, Loaded
  <2>3. ASSUME pc \in {"driftRead", "rollbackRead"}, NEW c \in noticed' \cap touched, c \notin Loaded
        PROVE  wb'.cells[c].absent
    <3>1. c \notin ToBeRead
      BY <2>3 DEF ToBeRead
    <3>2. c \in noticed /\ content(wb'.cells[c]) = content(wb.cells[c])
      BY <1>1, <2>3, <3>1, PeopleNoticed
    <3>3. wb.cells[c].absent
      BY <2>3, <3>2 DEF UnreadIsBlank
    <3>. QED BY <3>2, <3>3 DEF content
  <2>. QED BY <2>1, <2>2, <2>3 DEF UnreadIsBlank
<1>2. CASE ProbeDrift \/ ProbeRollback
  <2>1. wb' = wb /\ cs' = cs /\ Probe(pc, pc')
    BY <1>2 DEF ProbeDrift, ProbeRollback, Probe
  <2>2. touched' = touched /\ \A c \in touched : c \notin Loaded' => wb'.cells[c].absent
    BY <2>1, UnprobedIsBlank DEF touched
  <2>. QED BY <2>2 DEF UnreadIsBlank
<1>3. CASE UNCHANGED vars
  <2>1. UNCHANGED <<wb, cs, pc, present, noticed>>
    BY <1>3 DEF vars, reading, history
  <2>2. touched' = touched /\ Loaded' = Loaded
    BY <2>1 DEF touched, Loaded
  <2>. QED BY <2>1, <2>2 DEF UnreadIsBlank
<1>4. CASE pc' \notin {"driftRead", "rollbackRead"}
  BY <1>4 DEF UnreadIsBlank
<1>. QED
  BY <1>1, <1>2, <1>3, <1>4 DEF Next, Writer, Apply, RollBack, UndoStructural, ReadDrift,
     DriftCheckThrows, StructuralLands, StructuralFails, BatchLands, BatchFails, AtCells,
     Calculate, CalculateFails, ProbeCapture, ReadCapture, CaptureFails, Restore, RestoreFails,
     ReadRollback, RestoreRollback, RollbackThrows, UndoLooks, UndoRefuses, UndoActs, UndoFails,
     Probe, UndoNext, Ends, People

LEMMA RollbackWillNoticeStays ==
  ASSUME TypeInv, RollbackWillNotice, WritesAreUnnoticed, [Next]_vars
  PROVE  RollbackWillNotice'
<1>0. touched' = touched /\ (pc # "captureRead" => cs' = cs)
  BY ChangeSetStays DEF TypeInv
<1>1. CASE People
  <2>1. ASSUME pc' \in {"applied", "rollbackRead"}, NEW c \in noticed' \cap touched
        PROVE  content(wb'.cells[c]) # content(cs'.applied[c])
    BY <1>1, <2>1, PeopleNoticed, PeopleLeave DEF PutBack
  <2>. QED BY <1>0, <2>1 DEF RollbackWillNotice, SameAs
<1>2. CASE ReadCapture
  <2>1. noticed' = noticed /\ noticed \cap touched = {}
    BY <1>2 DEF ReadCapture, history, WritesAreUnnoticed, WritePhases
  <2>. QED BY <1>0, <2>1 DEF RollbackWillNotice
<1>3. CASE ProbeRollback \/ UNCHANGED vars
  <2>1. /\ UNCHANGED <<wb, noticed, cs>>
        /\ pc' \in {"applied", "rollbackRead"} => pc \in {"applied", "rollbackRead"}
    BY <1>3 DEF ProbeRollback, Probe, vars, history
  <2>. QED BY <1>0, <2>1 DEF RollbackWillNotice, SameAs
<1>4. CASE pc' \notin {"applied", "rollbackRead"}
  BY <1>4 DEF RollbackWillNotice
<1>. QED
  BY <1>1, <1>2, <1>3, <1>4 DEF Next, Writer, Apply, RollBack, UndoStructural, ProbeDrift,
     ReadDrift, DriftCheckThrows, StructuralLands, StructuralFails, BatchLands, BatchFails,
     AtCells, Calculate, CalculateFails, ProbeCapture, CaptureFails, Restore, RestoreFails,
     ReadRollback, RestoreRollback, RollbackThrows, UndoLooks, UndoRefuses, UndoActs, UndoFails,
     Probe, UndoNext, Ends, People

\* The drift check: what it does not refuse is, where anybody changed it
\* noticeably, not touched.
LEMMA DriftIsNoticed ==
  ASSUME TypeInv, DriftWillNotice, UnreadIsBlank, pc = "driftRead", LiveDrift = {}
  PROVE  noticed \cap touched = {}
<1>1. ASSUME NEW c \in noticed \cap touched PROVE FALSE
  <2>. DEFINE snap == cs.snapshots[c]
              is == wb.cells[c]
  <2>1. /\ c \in Cells /\ LiveCell(snap) /\ LiveCell(is)
        /\ content(snap) = content(OriginalWorkbook.cells[c])
    BY Snapshots DEF TypeInv, LiveBook
  <2>2. content(is) # content(OriginalWorkbook.cells[c])
    BY DEF DriftWillNotice, SameAs
  <2>3. IF c \in Loaded
        THEN ~(is.formula # snap.formula \/ (snap.formula = None /\ is.value # snap.value))
        ELSE snap.absent
    BY DEF LiveDrift
  <2>. HIDE DEF snap, is
  <2>4. c \in Loaded => content(is) = content(snap)
    BY <2>1, <2>3 DEF LiveCell, content
  <2>5. c \notin Loaded => is.absent
    BY DEF UnreadIsBlank, is
  <2>6. c \notin Loaded => content(is) = content(snap)
    BY <2>1, <2>3, <2>5, SameCells
  <2>. QED BY <2>1, <2>2, <2>4, <2>6
<1>. QED BY <1>1

LEMMA ConflictsAreNoticed ==
  ASSUME TypeInv, RollbackWillNotice, UnreadIsBlank, pc = "rollbackRead"
  PROVE  noticed \cap touched
           \subseteq {c \in touched : changedSinceApply(cs.applied[c], ReadCell(c))}
<1>1. ASSUME NEW c \in noticed \cap touched
      PROVE  changedSinceApply(cs.applied[c], ReadCell(c))
  <2>1. c \in Cells /\ LiveBook(wb) /\ LiveCell(cs.applied[c])
    BY Snapshots DEF TypeInv, AppliedInv
  <2>2. c \notin Loaded => wb.cells[c].absent
    BY DEF UnreadIsBlank
  <2>3. ~SameAs(c, cs.applied[c])
    BY DEF RollbackWillNotice
  <2>. QED BY <2>1, <2>2, <2>3, ReadTells DEF changedSinceApply
<1>. QED BY <1>1
LEMMA WritesAreUnnoticedStays ==
  ASSUME TypeInv, SurviveInv, [Next]_vars
  PROVE  WritesAreUnnoticed'
<1>1. touched' = touched
  BY ChangeSetStays DEF TypeInv
<1>2. WritesAreUnnoticed /\ DriftWillNotice /\ UnreadIsBlank /\ RollbackWillNotice
  BY DEF SurviveInv
<1>3. CASE ReadDrift
  <2>1. noticed' = noticed /\ pc' \in {"writing", "done"}
    BY <1>3 DEF ReadDrift, Ends, history
  <2>2. pc' = "writing" => noticed \cap touched = {}
    BY <1>2, <1>3, DriftIsNoticed DEF ReadDrift, Ends
  <2>. QED BY <1>1, <2>1, <2>2 DEF WritesAreUnnoticed, WritePhases
<1>4. CASE ReadRollback
  <2>1. noticed' = noticed /\ restorable' = touched \ conflicts'
        /\ conflicts' = {c \in touched : changedSinceApply(cs.applied[c], ReadCell(c))}
        /\ pc' \in {"rollbackRestore", "undo", "done"}
    BY <1>4 DEF ReadRollback, history, UndoNext, Ends
  <2>2. noticed \cap touched \subseteq conflicts'
    BY <1>2, <1>4, <2>1, ConflictsAreNoticed DEF ReadRollback
  <2>. QED BY <2>1, <2>2 DEF WritesAreUnnoticed, WritePhases
<1>5. CASE pc' = pc /\ restorable' = restorable
  <2>1. CASE pc \in WritePhases \cup {"rollbackRestore"}
    <3>1. noticed' \subseteq noticed
      BY <2>1, NoticedLeft DEF WritePhases
    <3>. QED BY <1>1, <1>2, <1>5, <3>1 DEF WritesAreUnnoticed
  <2>2. CASE pc \notin WritePhases \cup {"rollbackRestore"}
    BY <1>5, <2>2 DEF WritesAreUnnoticed, WritePhases
  <2>. QED BY <2>1, <2>2
<1>6. CASE pc \in WritePhases /\ pc' # "rollbackRestore" /\ ~People
  <2>1. noticed' \subseteq noticed
    BY <1>6, NoticedLeft
  <2>. QED BY <1>1, <1>2, <1>6, <2>1 DEF WritesAreUnnoticed
<1>7. CASE pc' \notin WritePhases \cup {"rollbackRestore"}
  BY <1>7 DEF WritesAreUnnoticed, WritePhases
<1>. QED
  BY <1>3, <1>4, <1>5, <1>6, <1>7 DEF Next, Writer, Apply, RollBack, UndoStructural, ProbeDrift,
     DriftCheckThrows, StructuralLands, StructuralFails, BatchLands, BatchFails,
     AtCells, Calculate, CalculateFails, ProbeCapture, ReadCapture, CaptureFails, Restore,
     RestoreFails, RestoreRollback, RollbackThrows, UndoLooks, UndoRefuses, UndoActs, UndoFails,
     ProbeRollback, Probe, UndoNext, Ends, People, Human, WritePhases, reading, vars

LEMMA ReversedElements ==
  ASSUME NEW s, IsList(s)
  PROVE  \A i \in 1 .. Len(Reverse(s)) : \E j \in 1 .. Len(s) : Reverse(s)[i] = s[j]
<1>. DEFINE r == Reverse(s)
<1>1. s \in Seq(ToSet(s)) /\ Len(s) \in Nat
  BY DEF IsList
<1>2. r = [i \in 1 .. Len(s) |-> s[Len(s) - i + 1]]
  BY DEF Reverse
<1>3. \A i \in 1 .. Len(s) : Len(s) - i + 1 \in 1 .. Len(s)
  BY <1>1
<1>. HIDE DEF r
<1>4. Len(r) = Len(s)
  BY <1>1, <1>2, <1>3
<1>5. \A i \in 1 .. Len(r) : r[i] = s[Len(s) - i + 1]
  BY <1>2, <1>4
<1>. QED BY <1>3, <1>4, <1>5 DEF r

LEMMA AddedSheetsAreBlankStays ==
  ASSUME TypeInv, AddedSheetsAreBlank, [Next]_vars
  PROVE  AddedSheetsAreBlank'
<1>. DEFINE safe == pc \notin {"driftProbe", "driftRead", "applied", "rollbackRead"} \/ ~People
<1>1. ASSUME safe, NEW sheet, BlankOn(sheet)
      PROVE  \A c \in noticed' : SheetOf[c] = sheet => wb'.cells[c].absent
  BY <1>1, BlankLeft
<1>2. CASE UNCHANGED <<landed, undo, force>> /\ pc' = pc
  <2>1. CASE pc \in WritePhases \cup {"undo", "undoAct"}
    <3>1. safe
      BY <2>1 DEF WritePhases
    <3>2. \A sheet : BlankOn(sheet) => \A c \in noticed' : SheetOf[c] = sheet => wb'.cells[c].absent
      BY <1>1, <3>1
    <3>. QED BY <1>2, <3>2 DEF AddedSheetsAreBlank, BlankOn
  <2>2. CASE pc \notin WritePhases \cup {"undo", "undoAct"}
    BY <1>2, <2>2 DEF AddedSheetsAreBlank, WritePhases
  <2>. QED BY <2>1, <2>2
<1>3. CASE StructuralLands
  <2>. DEFINE n == Len(landed)
              op == cs.compensation[n + 1]
  <2>1. /\ ChangeSetInv /\ LiveBook(wb) /\ landed \in Seq(ToSet(landed))
        /\ n \in Nat /\ n < Len(structuralEdits) /\ noticed \subseteq Cells
    BY <1>3 DEF StructuralLands, TypeInv, TypeOK, LandedInv, IsList
  <2>2. /\ landed' = Append(landed, op) /\ pc = "writing" /\ pc' = "writing"
        /\ CanLand(wb, NextStructural) /\ noticed' = noticed /\ NextStructural = structuralEdits[n + 1]
    BY <1>3 DEF StructuralLands, history, NextStructural
  <2>3. n + 1 \in 1 .. Len(structuralEdits)
    BY <2>1, ListDomain, Structure
  <2>4. Inverts(OriginalWorkbook, NextStructural, op)
    BY <2>1, <2>2, <2>3, Structure
  <2>5. ~People
    BY <1>3, PeopleCount DEF StructuralLands
  <2>6. \A sheet : BlankOn(sheet) => \A c \in noticed' : SheetOf[c] = sheet => wb'.cells[c].absent
    BY <1>1, <2>5
  <2>7. op.kind = "deleteSheet" => BlankOn(op.sheet)
    BY <2>1, <2>2, <2>4 DEF Inverts, CanLand, BlankOn, LiveBook
  <2>. HIDE DEF op
  <2>8. landed \in Seq(ToSet(landed) \cup {op})
    BY <2>1
  <2>9. /\ Len(landed') = n + 1 /\ landed'[n + 1] = op
        /\ \A i \in 1 .. n : landed'[i] = landed[i]
    BY <2>1, <2>2, <2>8
  <2>10. \A i \in 1 .. Len(landed') : landed'[i].kind = "deleteSheet" => BlankOn(landed'[i].sheet)
    BY <2>1, <2>2, <2>7, <2>9 DEF AddedSheetsAreBlank, WritePhases
  <2>. QED BY <2>2, <2>6, <2>10 DEF AddedSheetsAreBlank, BlankOn, WritePhases
<1>4. CASE pc \in WritePhases /\ pc' \in WritePhases /\ landed' = landed /\ ~People
  <2>1. \A sheet : BlankOn(sheet) => \A c \in noticed' : SheetOf[c] = sheet => wb'.cells[c].absent
    BY <1>1, <1>4
  <2>. QED BY <1>4, <2>1 DEF AddedSheetsAreBlank, BlankOn, WritePhases
<1>5. CASE ReadDrift
  <2>1. landed' = landed /\ landed = <<>> /\ pc' \in {"writing", "done"}
    BY <1>5 DEF ReadDrift, Ends, LandedInv, TypeInv
  <2>. QED BY <2>1 DEF AddedSheetsAreBlank, WritePhases
<1>6. CASE Restore
  <2>1. ~People /\ pc = "restore"
    BY <1>6, PeopleCount DEF Restore
  <2>2. \A sheet : BlankOn(sheet) => \A c \in noticed' : SheetOf[c] = sheet => wb'.cells[c].absent
    BY <1>1, <2>1
  <2>3. undo' = Reverse(landed) /\ pc' \in {"undo", "done"}
    BY <1>6 DEF Restore, UndoNext, Ends
  <2>4. \A i \in 1 .. Len(undo') : \E j \in 1 .. Len(landed) : undo'[i] = landed[j]
    BY <2>3, ReversedElements DEF TypeInv, LandedInv
  <2>5. \A i \in 1 .. Len(undo') : undo'[i].kind = "deleteSheet" => BlankOn(undo'[i].sheet)
    BY <2>1, <2>4 DEF AddedSheetsAreBlank, WritePhases
  <2>. QED BY <2>2, <2>3, <2>5 DEF AddedSheetsAreBlank, BlankOn, WritePhases
<1>7. CASE UndoRefuses \/ UndoActs \/ UndoFails
  <2>1. /\ pc \in {"undo", "undoAct"} /\ force' = force /\ undo' = Tail(undo)
        /\ pc' \in {"undo", "done"} /\ ~People
    BY <1>7, PeopleCount DEF UndoRefuses, UndoActs, UndoFails, UndoNext, Ends
  <2>2. \A sheet : BlankOn(sheet) => \A c \in noticed' : SheetOf[c] = sheet => wb'.cells[c].absent
    BY <1>1, <2>1
  <2>3. undo \in Seq(ToSet(undo)) /\ undo # <<>> /\ Len(undo) \in Nat
    BY <2>1 DEF TypeInv, UndoInv, LeftToUndo, IsList
  <2>4. \A i \in 1 .. Len(undo') : i + 1 \in 1 .. Len(undo) /\ undo'[i] = undo[i + 1]
    BY <2>1, <2>3
  <2>5. force => \A i \in 1 .. Len(undo') : undo'[i].kind = "deleteSheet" => BlankOn(undo'[i].sheet)
    BY <2>1, <2>4 DEF AddedSheetsAreBlank
  <2>. QED BY <2>1, <2>2, <2>5 DEF AddedSheetsAreBlank, BlankOn, WritePhases
<1>8. CASE UndoLooks
  <2>1. /\ pc = "undo" /\ pc' = "undoAct" /\ UNCHANGED <<wb, undo, force, noticed>>
        /\ MayUndo(Head(undo)) /\ noticed \subseteq Cells
    BY <1>8 DEF UndoLooks, history, TypeInv, TypeOK
  <2>2. /\ undo \in Seq(ToSet(undo)) /\ undo # <<>> /\ Len(undo) \in Nat
    BY <2>1 DEF TypeInv, UndoInv, LeftToUndo, IsList
  <2>3. 1 \in 1 .. Len(undo) /\ Head(undo) = undo[1]
    BY <2>2
  <2>4. Head(undo).kind = "deleteSheet" => BlankOn(Head(undo).sheet)
    BY <2>1, <2>3 DEF AddedSheetsAreBlank, MayUndo, BlankOn
  <2>. QED BY <2>1, <2>4 DEF AddedSheetsAreBlank, BlankOn, WritePhases
<1>9. CASE pc' \in {"undo", "undoAct"} /\ pc \in {"rollbackRead", "rollbackRestore"} /\ force' = force
  <2>1. force' = FALSE /\ pc' # "undoAct"
    BY <1>9 DEF TypeInv, UndoInv, Next, Writer, Apply, RollBack, UndoStructural, ProbeDrift,
       ReadDrift, DriftCheckThrows, StructuralLands, StructuralFails, BatchLands, BatchFails,
       AtCells, Calculate, CalculateFails, ProbeCapture, ReadCapture, CaptureFails, Restore,
       RestoreFails, ReadRollback, RestoreRollback, RollbackThrows, UndoLooks, UndoRefuses,
       UndoActs, UndoFails, ProbeRollback, Probe, UndoNext, Ends, Human, vars
  <2>. QED BY <1>9, <2>1 DEF AddedSheetsAreBlank, WritePhases
<1>10. CASE pc' \notin WritePhases \cup {"undo", "undoAct"}
  BY <1>10 DEF AddedSheetsAreBlank, WritePhases
<1>. QED
  BY <1>2, <1>3, <1>4, <1>5, <1>6, <1>7, <1>8, <1>9, <1>10 DEF Next, Writer, Apply, RollBack,
     UndoStructural, ProbeDrift, DriftCheckThrows, StructuralFails, BatchLands, BatchFails,
     AtCells, Calculate, CalculateFails, ProbeCapture, ReadCapture, CaptureFails, RestoreFails,
     ReadRollback, RestoreRollback, RollbackThrows, ProbeRollback, Probe, UndoNext, Ends, People,
     Human, undoing, vars, WritePhases
LEMMA SurviveInit ==
  ASSUME Init
  PROVE  SurviveInv
  BY DEF Init, SurviveInv, DriftWillNotice, UnreadIsBlank, WritesAreUnnoticed,
     AddedSheetsAreBlank, RollbackWillNotice, WritePhases

LEMMA SurviveNext ==
  ASSUME TypeInv, SurviveInv, [Next]_vars
  PROVE  SurviveInv'
  BY DriftWillNoticeStays, UnreadIsBlankStays, WritesAreUnnoticedStays, AddedSheetsAreBlankStays,
     RollbackWillNoticeStays DEF SurviveInv

LEMMA SurviveStep ==
  ASSUME TypeInv, SurviveInv, [Next]_vars, WriterStep
  PROVE  Kept(noticed)
<1>1. ~People
  BY PeopleCount DEF WriterStep
<1>2. noticed \subseteq Cells /\ LiveBook(wb) /\ ChangeSetInv
  BY DEF TypeInv, TypeOK
<1>3. CASE wb'.cells = wb.cells
  BY <1>3 DEF Kept
<1>4. ASSUME NEW cells \in SUBSET touched, Writes(cells), noticed \cap cells = {}
      PROVE  Kept(noticed)
  BY <1>2, <1>4 DEF Writes, Kept
<1>5. CASE StructuralLands
  <2>1. Len(landed) + 1 \in 1 .. Len(structuralEdits)
    BY <1>2, <1>5, ListDomain, Structure DEF StructuralLands, TypeInv, LandedInv
  <2>2. ~isCellEdit(NextStructural) /\ IsLiveEdit(NextStructural)
    BY <1>2, <2>1, Structure DEF NextStructural
  <2>3. ApplyEdit(wb, NextStructural).cells = wb.cells
    BY <1>2, <2>2, StructureApplied
  <2>. QED BY <1>3, <1>5, <2>3 DEF StructuralLands
<1>6. CASE \/ BatchLands \/ (\E n \in 0 .. BatchSize : BatchFails(n))
           \/ Restore \/ (\E some \in SUBSET touched : RestoreFails(some))
  <2>1. noticed \cap touched = {}
    BY <1>6 DEF SurviveInv, WritesAreUnnoticed, WritePhases, BatchLands, BatchFails, AtCells,
       Restore, RestoreFails
  <2>2. \E cells \in SUBSET touched : Writes(cells)
    BY <1>6, BatchWrites, RestoreWrites DEF Restore, RestoreFails, Restores
  <2>. QED BY <1>4, <2>1, <2>2
<1>7. CASE RestoreRollback
  <2>1. restorable \in SUBSET touched /\ noticed \cap restorable = {}
    BY <1>7 DEF RestoreRollback, TypeInv, TypeOK, SurviveInv, WritesAreUnnoticed
  <2>2. Writes(restorable)
    BY <1>7, <2>1, RestoreWrites DEF RestoreRollback, Restores
  <2>. QED BY <1>4, <2>1, <2>2
<1>8. CASE \E some \in SUBSET touched : RollbackThrows(some)
  <2>1. PICK some \in SUBSET touched : RollbackThrows(some)
    BY <1>8
  <2>2. /\ Restores(some) /\ (pc # "rollbackRestore" => some = {})
        /\ (pc = "rollbackRestore" => some \subseteq restorable)
    BY <2>1, RollbackWrites
  <2>3. noticed \cap some = {}
    BY <2>2 DEF SurviveInv, WritesAreUnnoticed
  <2>. QED BY <1>4, <2>2, <2>3 DEF Restores
<1>9. CASE UndoActs
  <2>. DEFINE op == Head(undo)
  <2>1. wb' = Undo(wb, op) /\ pc = "undoAct"
    BY <1>9 DEF UndoActs
  <2>2. IsOp(op) /\ op.kind # "none"
    BY <1>2, <2>1, FirstLeft DEF TypeInv, UndoInv
  <2>3. op.kind = "deleteSheet" => BlankOn(op.sheet)
    BY <2>1 DEF SurviveInv, AddedSheetsAreBlank
  <2>. HIDE DEF op
  <2>4. \A c \in Cells :
          \/ wb'.cells[c] = wb.cells[c]
          \/ op.kind = "deleteSheet" /\ SheetOf[c] = op.sheet /\ wb'.cells[c] = Absent
    BY <1>2, <2>1, <2>2, Undone
  <2>5. \A c \in noticed : wb.cells[c].absent => content(Absent) = content(wb.cells[c])
    BY <1>2, AbsentIsLive, SameCells DEF LiveBook
  <2>. QED BY <1>2, <2>3, <2>4, <2>5 DEF BlankOn, Kept
<1>10. CASE ProbeDrift \/ ReadDrift \/ DriftCheckThrows \/ StructuralFails \/ Calculate
            \/ CalculateFails \/ ProbeCapture \/ ReadCapture \/ CaptureFails \/ ProbeRollback
            \/ ReadRollback \/ UndoLooks \/ UndoRefuses
  BY <1>3, <1>10 DEF ProbeDrift, ReadDrift, DriftCheckThrows, StructuralFails, Calculate,
     CalculateFails, ProbeCapture, ReadCapture, CaptureFails, ProbeRollback, ReadRollback,
     UndoLooks, UndoRefuses
<1>11. CASE UNCHANGED vars
  BY <1>3, <1>11 DEF vars
<1>13. CASE UndoFails
  BY <1>3, <1>13, FailedInverse
<1>12. {} \in SUBSET touched
  OBVIOUS
<1>. QED BY <1>1, <1>5, <1>6, <1>7, <1>8, <1>9, <1>10, <1>11, <1>12, <1>13
         DEF Next, Writer, Apply, RollBack, UndoStructural, People

\* What people change before the drift check reads it, or between the apply and
\* the rollback's read, no later sync of the writer overwrites, clears or
\* deletes: not a batch, not the recovery of a failed apply, not the rollback,
\* and not the deletion of a sheet the change set had added
\* (LiveWriter.NoticedEditsSurvive, INV-8 and INV-3).
THEOREM NothingNoticedIsLost == Spec => NoticedEditsSurvive
<1>. DEFINE Inv == TypeInv /\ SurviveInv
<1>1. Init => Inv
  BY TypeInit, SurviveInit
<1>2. Inv /\ [Next]_vars => Inv'
  BY TypeNext, SurviveNext
<1>3. Inv /\ [Next]_vars => [WriterStep => Kept(noticed)]_vars
  BY SurviveStep
<1>. QED BY <1>1, <1>2, <1>3, PTL DEF Spec, NoticedEditsSurvive

-----------------------------------------------------------------------------
(* What the writer reports as a conflict, somebody changed.                  *)

\* A cell nobody is known to have changed since the writer wrote it is as it
\* was.
LEMMA UnchangedLeft ==
  ASSUME TypeInv, [Next]_vars, pc' = pc, pc \in DriftPhases \cup ReadPhases \cup {"applied"},
         NEW c \in touched, c \notin changed'
  PROVE  /\ c \notin changed /\ content(wb'.cells[c]) = content(wb.cells[c])
         /\ UNCHANGED <<cs, present>>
<1>1. c \in Cells
  BY Snapshots DEF TypeInv
<1>2. CASE People
  BY <1>1, <1>2, PeopleLeave
<1>3. CASE UNCHANGED vars
  BY <1>3 DEF vars, history, reading
<1>. QED BY <1>2, <1>3 DEF DriftPhases, ReadPhases, Next, Writer, Apply, RollBack, UndoStructural, ProbeDrift, ReadDrift,
     DriftCheckThrows, StructuralLands, StructuralFails, BatchLands, BatchFails, AtCells,
     Calculate, CalculateFails, ProbeCapture, ReadCapture, CaptureFails, Restore, RestoreFails,
     ReadRollback, RestoreRollback, RollbackThrows, UndoLooks, UndoRefuses, UndoActs, UndoFails,
     ProbeRollback, Probe, UndoNext, Ends, People

LEMMA ConflictInit ==
  ASSUME Init
  PROVE  ConflictInv
<1>1. wb = OriginalWorkbook /\ pc = "driftProbe"
  BY DEF Init
<1>. QED BY <1>1 DEF ConflictInv, ReadPhases, SameAs

LEMMA ConflictNext ==
  ASSUME TypeInv, ConflictInv, [Next]_vars
  PROVE  ConflictInv'
<1>1. ChangeSetInv /\ LiveBook(wb) /\ touched' = touched /\ touched \subseteq Cells
  BY ChangeSetStays, Snapshots DEF TypeInv
<1>. USE DEF DriftPhases, ReadPhases
<1>2. CASE pc' = pc /\ pc \in DriftPhases \cup ReadPhases \cup {"applied"}
  <2>1. ASSUME NEW c \in touched, c \notin changed'
        PROVE  /\ pc \in DriftPhases => content(wb'.cells[c]) = content(OriginalWorkbook.cells[c])
               /\ pc \in {"applied", "rollbackRead"} => content(wb'.cells[c]) = content(cs'.applied[c])
               /\ pc \in ReadPhases => (c \notin Loaded' => wb'.cells[c].absent)
    <3>1. /\ c \notin changed /\ content(wb'.cells[c]) = content(wb.cells[c])
          /\ UNCHANGED <<cs, present>>
      BY <1>2, <2>1, UnchangedLeft
    <3>2. Loaded' = Loaded
      BY <3>1 DEF Loaded, touched
    <3>3. wb'.cells[c].absent = wb.cells[c].absent
      BY <3>1 DEF content
    <3>4. pc \in {"applied", "rollbackRead"} => content(wb.cells[c]) = content(cs.applied[c])
      BY <2>1, <3>1 DEF ConflictInv, SameAs
    <3>5. pc \in ReadPhases => (c \notin Loaded => wb.cells[c].absent)
      BY <2>1, <3>1 DEF ConflictInv
    <3>6. pc \in DriftPhases => content(wb.cells[c]) = content(OriginalWorkbook.cells[c])
      BY <2>1, <3>1 DEF ConflictInv, SameAs
    <3>. QED BY <3>1, <3>2, <3>3, <3>4, <3>5, <3>6
  <2>. QED BY <1>1, <1>2, <2>1 DEF ConflictInv, SameAs
<1>3. CASE ProbeDrift \/ ProbeCapture \/ ProbeRollback
  <2>1. /\ wb' = wb /\ cs' = cs /\ Probe(pc, pc') /\ changed' = changed
        /\ pc' = "rollbackRead" => pc = "applied"
        /\ pc' = "driftRead" => pc = "driftProbe"
        /\ pc' \in ReadPhases
    BY <1>3 DEF ProbeDrift, ProbeCapture, ProbeRollback, Probe, history
  <2>2. \A c \in touched : c \notin Loaded' => wb'.cells[c].absent
    BY <2>1, UnprobedIsBlank
  <2>. QED BY <1>1, <2>1, <2>2 DEF ConflictInv, SameAs
<1>4. CASE ReadCapture
  <2>. DEFINE read == [c \in touched |-> ReadCell(c)]
  <2>1. /\ cs' = [cs EXCEPT !.applied = read] /\ wb' = wb /\ changed' = changed
        /\ pc = "captureRead" /\ pc' = "applied"
    BY <1>4 DEF ReadCapture, history
  <2>2. ASSUME NEW c \in touched, c \notin changed
        PROVE  content(wb.cells[c]) = content(read[c])
    <3>1. CASE c \in Loaded
      BY <1>1, <3>1, ReadIsLive
    <3>2. CASE c \notin Loaded
      <4>1. wb.cells[c].absent /\ LiveCell(wb.cells[c])
        BY <1>1, <2>1, <2>2, <3>2 DEF ConflictInv, LiveBook
      <4>2. read[c] = Absent
        BY <1>1, <3>2, ReadIsLive
      <4>. QED BY <4>1, <4>2, AbsentIsLive, SameCells
    <3>. QED BY <3>1, <3>2
  <2>. HIDE DEF read
  <2>3. cs'.applied = read
    BY <1>1, <2>1 DEF ChangeSetInv
  <2>. QED BY <1>1, <2>1, <2>2, <2>3 DEF ConflictInv, SameAs
<1>5. CASE pc' \notin DriftPhases \cup ReadPhases \cup {"applied"}
  BY <1>5 DEF ConflictInv
<1>. QED BY <1>2, <1>3, <1>4, <1>5 DEF Next, Writer, Apply, RollBack, UndoStructural,
     ReadDrift, DriftCheckThrows, StructuralLands, StructuralFails, BatchLands, BatchFails,
     AtCells, Calculate, CalculateFails, CaptureFails, Restore, RestoreFails, ReadRollback,
     RestoreRollback, RollbackThrows, UndoLooks, UndoRefuses, UndoActs, UndoFails, Probe,
     UndoNext, Ends, Human, vars

LEMMA ConflictsChanged ==
  ASSUME TypeInv, ConflictInv, ReadRollback
  PROVE  conflicts' \subseteq changed
<1>1. ASSUME NEW c \in conflicts', c \notin changed
      PROVE  FALSE
  <2>1. /\ c \in touched /\ changedSinceApply(cs.applied[c], ReadCell(c)) /\ pc = "rollbackRead"
    BY <1>1 DEF ReadRollback
  <2>2. c \in Cells /\ LiveBook(wb) /\ LiveCell(cs.applied[c])
    BY <2>1, Snapshots DEF TypeInv, AppliedInv
  <2>3. SameAs(c, cs.applied[c]) /\ (c \notin Loaded => wb.cells[c].absent)
    BY <1>1, <2>1 DEF ConflictInv, ReadPhases
  <2>. QED BY <2>1, <2>2, <2>3, ReadTells DEF changedSinceApply
<1>. QED BY <1>1

\* What the drift check finds to differ, somebody changed.
LEMMA DriftChanged ==
  ASSUME TypeInv, ConflictInv, pc = "driftRead"
  PROVE  LiveDrift \subseteq changed
<1>1. ASSUME NEW c \in LiveDrift, c \notin changed
      PROVE  FALSE
  <2>. DEFINE snap == cs.snapshots[c]
              is == wb.cells[c]
  <2>1. /\ c \in touched
        /\ IF c \in Loaded
           THEN is.formula # snap.formula \/ (snap.formula = None /\ is.value # snap.value)
           ELSE ~snap.absent
    BY <1>1 DEF LiveDrift
  <2>2. /\ LiveCell(snap) /\ LiveCell(is)
        /\ content(snap) = content(OriginalWorkbook.cells[c])
    BY <2>1, Snapshots DEF TypeInv, LiveBook
  <2>3. /\ content(is) = content(OriginalWorkbook.cells[c])
        /\ c \notin Loaded => is.absent
    BY <1>1, <2>1 DEF ConflictInv, DriftPhases, ReadPhases, SameAs
  <2>. HIDE DEF snap, is
  <2>4. content(is) = content(snap)
    BY <2>2, <2>3
  <2>5. is.formula = snap.formula /\ (snap.formula = None => is.value = snap.value)
    BY <2>2, <2>4, SameCells DEF Differs
  <2>6. is.absent = snap.absent
    BY <2>4 DEF content
  <2>. QED BY <2>1, <2>3, <2>5, <2>6
<1>. QED BY <1>1

LEMMA ConflictStep ==
  ASSUME TypeInv, ConflictInv, [Next]_vars
  PROVE  /\ conflicts' # conflicts => conflicts' \subseteq changed
         /\ outcome = None /\ outcome' = "refused" => LiveDrift \subseteq changed
<1>1. ASSUME conflicts' # conflicts PROVE ReadRollback
  BY <1>1 DEF Next, Writer, Apply, RollBack, UndoStructural, ProbeDrift,
     ReadDrift, DriftCheckThrows, StructuralLands, StructuralFails, BatchLands, BatchFails,
     Calculate, CalculateFails, ProbeCapture, ReadCapture, CaptureFails, Restore, RestoreFails,
     RestoreRollback, RollbackThrows, UndoLooks, UndoRefuses, UndoActs, UndoFails, Human,
     ProbeRollback, vars, reading
<1>2. ASSUME outcome = None, outcome' = "refused" PROVE pc = "driftRead"
  BY <1>2, NoneAssumption DEF Next, Writer, Apply, RollBack, UndoStructural, ProbeDrift,
     ReadDrift, DriftCheckThrows, StructuralLands, StructuralFails, BatchLands, BatchFails,
     Calculate, CalculateFails, ProbeCapture, ReadCapture, CaptureFails, Restore, RestoreFails,
     ReadRollback, RestoreRollback, RollbackThrows, UndoLooks, UndoRefuses, UndoActs, UndoFails,
     UndoNext, UndoEnd, Ends, Human, ProbeRollback, vars
<1>. QED BY <1>1, <1>2, ConflictsChanged, DriftChanged

\* The rollback leaves a cell alone only if somebody changed it since the
\* writer wrote it, and an apply is refused only over cells somebody changed
\* since it was proposed: what Excel made of the writer's own values, sheets
\* that come and go and reads that find nothing never look like somebody's edit
\* (LiveWriter.ConflictsAreEdits, Q-012).
THEOREM NoFalseConflict == Spec => ConflictsAreEdits
<1>. DEFINE Inv == TypeInv /\ ConflictInv
<1>1. Init => Inv
  BY TypeInit, ConflictInit
<1>2. Inv /\ [Next]_vars => Inv'
  BY TypeNext, ConflictNext
<1>3. Inv /\ [Next]_vars =>
        [/\ conflicts' # conflicts => conflicts' \subseteq changed
         /\ outcome = None /\ outcome' = "refused" => LiveDrift \subseteq changed]_vars
  BY ConflictStep
<1>. QED BY <1>1, <1>2, <1>3, PTL DEF Spec, ConflictsAreEdits
-----------------------------------------------------------------------------
(* With nobody else at work, undoing is exact.                               *)

\* Landed and not yet undone: the first so many of the planned inverses.
Pending ==
  IF pc \in {"undo", "undoAct"} THEN Len(undo)
  ELSE IF pc = "done" THEN 0 ELSE Len(landed)

Finished == outcome \in {"recovered", "rolled-back"}

\* The cell as it was, to its content and, if formats were read, its format.
AsBefore(c, was) ==
  /\ content(was) = content(OriginalWorkbook.cells[c])
  /\ ~OriginalWorkbook.cells[c].absent => was = OriginalWorkbook.cells[c]

Back(c, was) ==
  /\ content(was) = content(OriginalWorkbook.cells[c])
  /\ IncludeNumberFormats /\ ~OriginalWorkbook.cells[c].absent => was = OriginalWorkbook.cells[c]

UntouchedAsBefore == \A c \in Cells \ touched : AsBefore(c, wb.cells[c])

AllBack ==
  pc \in {"undo", "undoAct", "done"} => \A c \in Cells : Back(c, wb.cells[c])

Deletes(op, s) == op.kind = "deleteSheet" /\ op.sheet = s

\* The sheets that are new are the ones inverses delete that are pending or were
\* reported.
SheetsExact ==
  /\ OriginalWorkbook.sheets \subseteq wb.sheets
  /\ \A s \in wb.sheets \ OriginalWorkbook.sheets :
       \/ \E i \in 1 .. Pending : Deletes(cs.compensation[i], s)
       \/ \E op \in unreversed : Deletes(op, s)

\* A name refers to what it did, unless a pending or a reported inverse is about
\* it.
NamesExact ==
  \A n \in DOMAIN OriginalWorkbook.names :
    \/ wb.names[n] = OriginalWorkbook.names[n]
    \/ \E i \in 1 .. Pending : Names(cs.compensation[i], n)
    \/ \E op \in unreversed : Names(op, n)

ExactInv ==
  /\ Finished => pc = "done"
  /\ humanEdits = 0 =>
       /\ changed = {}
       /\ pc = "rollbackRestore" => restorable = touched
       /\ pc # "done" \/ Finished =>
            UntouchedAsBefore /\ AllBack /\ SheetsExact /\ NamesExact

LEMMA PendingInverse ==
  ASSUME TypeInv, NEW k \in 1 .. Len(cs.compensation)
  PROVE  /\ IsOp(cs.compensation[k])
         /\ cs.compensation[k].kind = "deleteSheet"
              => cs.compensation[k].sheet \notin OriginalWorkbook.sheets
         /\ \A n : Names(cs.compensation[k], n)
                     /\ (\A i \in 1 .. (k - 1) : ~Names(cs.compensation[i], n))
                     => RestoresName(OriginalWorkbook, n, cs.compensation[k])
<1>. DEFINE S == structuralEdits
            ops == cs.compensation
<1>1. /\ Len(ops) = Len(S) /\ Len(S) \in Nat
      /\ \A i \in 1 .. Len(S) :
           /\ IsOp(ops[i]) /\ Inverts(OriginalWorkbook, S[i], ops[i])
           /\ S[i].kind = "defineName" /\ (\A j \in 1 .. (i - 1) : ~IsDefine(S[j], S[i].name))
                => RestoresName(OriginalWorkbook, S[i].name, ops[i])
  BY Structure, ListDomain DEF TypeInv
<1>. HIDE DEF S, ops
<1>2. ASSUME NEW i \in 1 .. Len(S), NEW n
      PROVE  Names(ops[i], n) <=> IsDefine(S[i], n)
  BY <1>1 DEF Inverts, Names, IsDefine
<1>3. k \in 1 .. Len(S) /\ \A i \in 1 .. (k - 1) : i \in 1 .. Len(S)
  BY <1>1 DEF ops
<1>4. ASSUME NEW n, Names(ops[k], n), \A i \in 1 .. (k - 1) : ~Names(ops[i], n)
      PROVE  RestoresName(OriginalWorkbook, n, ops[k])
  <2>1. S[k].kind = "defineName" /\ S[k].name = n
    BY <1>2, <1>3, <1>4 DEF IsDefine
  <2>2. \A j \in 1 .. (k - 1) : ~IsDefine(S[j], n)
    BY <1>2, <1>3, <1>4
  <2>. QED BY <1>1, <1>3, <2>1, <2>2
<1>5. IsOp(ops[k]) /\ (ops[k].kind = "deleteSheet" => ops[k].sheet \notin OriginalWorkbook.sheets)
  BY <1>1, <1>3 DEF Inverts
<1>. QED BY <1>4, <1>5 DEF ops

\* The inverse the writer is at.
LEMMA UndoneInverse ==
  ASSUME TypeInv, UndoActs
  PROVE  LET k == Len(undo)
             op == cs.compensation[k]
         IN  /\ k \in 1 .. Len(cs.compensation) /\ op = Head(undo) /\ IsOp(op)
             /\ op.kind # "none" /\ wb' = Undo(wb, op) /\ LiveBook(wb)
             /\ Pending = k /\ Pending' = k - 1
<1>1. /\ pc = "undoAct" /\ LeftToUndo(undo) /\ undo # <<>> /\ ChangeSetInv
      /\ Head(undo).kind # "none" /\ wb' = Undo(wb, Head(undo)) /\ LiveBook(wb)
      /\ undo' = Tail(undo) /\ pc' \in {"undo", "done"} /\ (pc' = "done" => Tail(undo) = <<>>)
  BY DEF UndoActs, TypeInv, UndoInv, UndoNext, Ends
<1>2. /\ Len(undo) \in 1 .. Len(cs.compensation)
      /\ Head(undo) = cs.compensation[Len(undo)] /\ IsOp(Head(undo))
      /\ Len(Tail(undo)) = Len(undo) - 1
  BY <1>1, FirstLeft
<1>3. Pending = Len(undo)
  BY <1>1 DEF Pending
<1>4. Pending' = Len(undo) - 1
  <2>1. \A ops : ops = <<>> => Len(ops) = 0
    OBVIOUS
  <2>2. pc' = "done" => Len(Tail(undo)) = 0
    BY <1>1, <2>1, Zenon
  <2>. QED BY <1>1, <1>2, <2>2 DEF Pending
<1>. QED BY <1>1, <1>2, <1>3, <1>4

\* The inverse the writer reports.
LEMMA ReportedInverse ==
  ASSUME TypeInv, UndoRefuses \/ UndoFails
  PROVE  LET k == Len(undo)
         IN  /\ k \in 1 .. Len(cs.compensation)
             /\ wb'.sheets = wb.sheets /\ unreversed' = unreversed \cup {cs.compensation[k]}
             /\ \A n \in DOMAIN OriginalWorkbook.names :
                  wb'.names[n] = wb.names[n] \/ Names(cs.compensation[k], n)
             /\ Pending = k /\ Pending' = k - 1
<1>1. /\ pc \in {"undo", "undoAct"} /\ LeftToUndo(undo) /\ undo # <<>> /\ ChangeSetInv
      /\ unreversed' = unreversed \cup {Head(undo)}
      /\ undo' = Tail(undo) /\ pc' \in {"undo", "done"} /\ (pc' = "done" => Tail(undo) = <<>>)
  BY DEF UndoRefuses, UndoFails, TypeInv, UndoInv, UndoNext, Ends
<1>2. /\ Len(undo) \in 1 .. Len(cs.compensation)
      /\ Head(undo) = cs.compensation[Len(undo)]
      /\ Len(Tail(undo)) = Len(undo) - 1
  BY <1>1, FirstLeft
<1>3. Pending = Len(undo)
  BY <1>1 DEF Pending
<1>4. Pending' = Len(undo) - 1
  <2>1. \A ops : ops = <<>> => Len(ops) = 0
    OBVIOUS
  <2>2. pc' = "done" => Len(Tail(undo)) = 0
    BY <1>1, <2>1, Zenon
  <2>. QED BY <1>1, <1>2, <2>2 DEF Pending
<1>5. /\ wb'.sheets = wb.sheets
      /\ \A n \in DOMAIN OriginalWorkbook.names :
           \/ wb'.names[n] = wb.names[n]
           \/ Head(undo).kind = "restoreName" /\ Head(undo).name = n
  BY FailedInverse DEF UndoRefuses
<1>. QED BY <1>1, <1>2, <1>3, <1>4, <1>5 DEF Names

LEMMA UntouchedLeft ==
  ASSUME TypeInv, [Next]_vars, ~People
  PROVE  \A c \in Cells \ touched :
           \/ wb'.cells[c] = wb.cells[c]
           \/ wb'.cells[c] = Absent /\ OriginalWorkbook.cells[c].absent
<1>1. ChangeSetInv /\ LiveBook(wb)
  BY DEF TypeInv
<1>2. CASE wb'.cells = wb.cells
  BY <1>2
<1>3. CASE \E cells \in SUBSET touched : Writes(cells)
  BY <1>3 DEF Writes
<1>4. CASE StructuralLands
  <2>1. Len(landed) + 1 \in 1 .. Len(structuralEdits)
    BY <1>1, <1>4, ListDomain, Structure DEF StructuralLands, TypeInv, LandedInv
  <2>2. ~isCellEdit(NextStructural) /\ IsLiveEdit(NextStructural)
    BY <1>1, <2>1, Structure DEF NextStructural
  <2>3. ApplyEdit(wb, NextStructural).cells = wb.cells
    BY <1>1, <2>2, StructureApplied
  <2>. QED BY <1>2, <1>4, <2>3 DEF StructuralLands
<1>5. CASE UndoActs
  <2>. DEFINE op == cs.compensation[Len(undo)]
  <2>1. /\ Len(undo) \in 1 .. Len(cs.compensation) /\ IsOp(op) /\ op.kind # "none"
        /\ wb' = Undo(wb, op)
    BY <1>5, UndoneInverse
  <2>2. op.kind = "deleteSheet" => op.sheet \notin OriginalWorkbook.sheets
    BY <2>1, PendingInverse
  <2>. HIDE DEF op
  <2>3. \A c \in Cells :
          \/ wb'.cells[c] = wb.cells[c]
          \/ op.kind = "deleteSheet" /\ SheetOf[c] = op.sheet /\ wb'.cells[c] = Absent
    BY <1>1, <2>1, Undone
  <2>. QED BY <2>2, <2>3, OriginalIsLive DEF LiveBook
<1>6. CASE BatchLands \/ \E n \in 0 .. BatchSize : BatchFails(n)
  BY <1>3, <1>6, BatchWrites
<1>7. CASE Restore \/ \E some \in SUBSET touched : RestoreFails(some)
  BY <1>3, <1>7, RestoreWrites DEF Restore, RestoreFails, Restores
<1>8. CASE RestoreRollback
  <2>1. restorable \in SUBSET touched
    BY DEF TypeInv, TypeOK
  <2>. QED BY <1>3, <1>8, <2>1, RestoreWrites DEF RestoreRollback, Restores
<1>9. CASE \E some \in SUBSET touched : RollbackThrows(some)
  BY <1>3, <1>9, RollbackWrites DEF Restores
<1>10. CASE ProbeDrift \/ ReadDrift \/ DriftCheckThrows \/ StructuralFails \/ Calculate
            \/ CalculateFails \/ ProbeCapture \/ ReadCapture \/ CaptureFails \/ ProbeRollback
            \/ ReadRollback \/ UndoLooks \/ UndoRefuses
  BY <1>2, <1>10 DEF ProbeDrift, ReadDrift, DriftCheckThrows, StructuralFails, Calculate,
     CalculateFails, ProbeCapture, ReadCapture, CaptureFails, ProbeRollback, ReadRollback,
     UndoLooks, UndoRefuses
<1>11. CASE UNCHANGED vars
  BY <1>2, <1>11 DEF vars
<1>13. CASE UndoFails
  BY <1>2, <1>13, FailedInverse
<1>12. {} \in SUBSET touched
  OBVIOUS
<1>. QED BY <1>4, <1>5, <1>6, <1>7, <1>8, <1>9, <1>10, <1>11, <1>12, <1>13
         DEF Next, Writer, Apply, RollBack, UndoStructural, People

LEMMA UntouchedStay ==
  ASSUME TypeInv, [Next]_vars, ~People, UntouchedAsBefore
  PROVE  UntouchedAsBefore'
<1>1. touched' = touched
  BY ChangeSetStays DEF TypeInv
<1>2. ASSUME NEW c \in Cells \ touched
      PROVE  AsBefore(c, wb'.cells[c])
  <2>1. AsBefore(c, wb.cells[c])
    BY DEF UntouchedAsBefore
  <2>2. OriginalWorkbook.cells[c].absent => AsBefore(c, Absent)
    BY OriginalIsLive, AbsentIsLive, SameCells DEF LiveBook, AsBefore
  <2>. QED BY <2>1, <2>2, UntouchedLeft
<1>. QED BY <1>1, <1>2 DEF UntouchedAsBefore, AsBefore
LEMMA RestoredBack ==
  ASSUME TypeInv, Restores(touched), UntouchedAsBefore', touched' = touched
  PROVE  \A c \in Cells : Back(c, wb'.cells[c])
<1>1. \A c \in Cells : LiveCell(wb'.cells[c]) /\ LiveCell(OriginalWorkbook.cells[c])
  BY OriginalIsLive DEF Restores, Writes, LiveBook
<1>2. ASSUME NEW c \in touched, c \in Cells
      PROVE  Back(c, wb'.cells[c])
  <2>. DEFINE x == wb'.cells[c]
              y == OriginalWorkbook.cells[c]
  <2>1. /\ content(x) = content(y)
        /\ IncludeNumberFormats /\ ~y.absent => x.format = y.format
    BY <1>2 DEF Restores
  <2>2. LiveCell(x) /\ LiveCell(y)
    BY <1>1, <1>2
  <2>. HIDE DEF x, y
  <2>3. /\ x = [absent |-> x.absent, formula |-> x.formula, value |-> x.value, format |-> x.format]
        /\ y = [absent |-> y.absent, formula |-> y.formula, value |-> y.value, format |-> y.format]
        /\ x.absent = y.absent /\ x.formula = y.formula /\ x.value = y.value
    BY <2>1, <2>2, SameCells DEF LiveCell, IsCell
  <2>4. x.format = y.format => x = y
    BY <2>3
  <2>. QED BY <2>1, <2>4 DEF Back, x, y
<1>3. \A c \in Cells \ touched : AsBefore(c, wb'.cells[c])
  BY DEF UntouchedAsBefore, AsBefore
<1>. QED BY <1>2, <1>3 DEF AsBefore, Back

LEMMA AllBackStays ==
  ASSUME TypeInv, [Next]_vars, ~People, UntouchedAsBefore, AllBack,
         pc = "rollbackRestore" => restorable = touched,
         ReadRollback => conflicts' = {},
         pc' # "done" \/ Finished', Finished => pc = "done"
  PROVE  AllBack'
<1>1. touched' = touched
  BY ChangeSetStays DEF TypeInv
<1>2. UntouchedAsBefore'
  BY UntouchedStay
<1>3. CASE UNCHANGED <<wb, pc>>
  BY <1>3 DEF AllBack, Back
<1>4. CASE Restore
  <2>1. Restores(touched)
    BY <1>4, RestoreWrites DEF Restore
  <2>. QED BY <1>1, <1>2, <2>1, RestoredBack DEF AllBack, Back
<1>5. CASE RestoreRollback
  <2>1. Restores(touched)
    BY <1>5, RestoreWrites DEF RestoreRollback
  <2>. QED BY <1>1, <1>2, <2>1, RestoredBack DEF AllBack, Back
<1>6. CASE ReadRollback
  <2>1. wb' = wb /\ restorable' = touched /\ (restorable' # {} => pc' = "rollbackRestore")
    BY <1>6 DEF ReadRollback
  <2>2. CASE touched = {}
    BY <2>1, <2>2 DEF UntouchedAsBefore, AsBefore, AllBack, Back
  <2>3. CASE touched # {}
    BY <2>1, <2>3 DEF AllBack
  <2>. QED BY <2>2, <2>3
<1>7. CASE UndoLooks \/ UndoRefuses \/ UndoFails
  <2>1. wb'.cells = wb.cells
    BY <1>7, FailedInverse DEF UndoLooks, UndoRefuses
  <2>. QED BY <1>7, <2>1 DEF UndoLooks, UndoRefuses, UndoFails, AllBack, Back
<1>8. CASE UndoActs
  <2>. DEFINE op == cs.compensation[Len(undo)]
  <2>1. /\ Len(undo) \in 1 .. Len(cs.compensation) /\ IsOp(op) /\ op.kind # "none"
        /\ wb' = Undo(wb, op) /\ LiveBook(wb)
    BY <1>8, UndoneInverse
  <2>2. op.kind = "deleteSheet" => op.sheet \notin OriginalWorkbook.sheets
    BY <2>1, PendingInverse
  <2>. HIDE DEF op
  <2>3. \A c \in Cells :
          \/ wb'.cells[c] = wb.cells[c]
          \/ op.kind = "deleteSheet" /\ SheetOf[c] = op.sheet /\ wb'.cells[c] = Absent
    BY <2>1, Undone
  <2>4. \A c \in Cells : OriginalWorkbook.cells[c].absent => Back(c, Absent)
    BY OriginalIsLive, AbsentIsLive, SameCells DEF LiveBook, Back
  <2>5. \A c \in Cells : Back(c, wb.cells[c])
    BY <1>8 DEF UndoActs, AllBack
  <2>6. \A c \in Cells : SheetOf[c] \notin OriginalWorkbook.sheets => OriginalWorkbook.cells[c].absent
    BY OriginalIsLive DEF LiveBook
  <2>7. \A c \in Cells : Back(c, wb'.cells[c])
    BY <2>2, <2>3, <2>4, <2>5, <2>6
  <2>. QED BY <2>7 DEF AllBack, Back
<1>9. CASE pc' \notin {"undo", "undoAct", "done"}
  BY <1>9 DEF AllBack
<1>10. CASE pc' = "done" /\ outcome' \in {"refused", "threw", "restore-failed", "rollback-threw"}
  BY <1>10 DEF Finished
<1>. QED BY <1>3, <1>4, <1>5, <1>6, <1>7, <1>8, <1>9, <1>10 DEF Next, Writer, Apply, RollBack,
     UndoStructural, ProbeDrift, ReadDrift, DriftCheckThrows, StructuralLands, StructuralFails,
     BatchLands, BatchFails, AtCells, Calculate, CalculateFails, ProbeCapture, ReadCapture,
     CaptureFails, RestoreFails, RollbackThrows, ProbeRollback, Probe, UndoNext, Ends, People, vars

\* The restorable cells, the changed ones and the inverses reported only move
\* where the reads, the people and the refusals are.
LEMMA OthersStay ==
  ASSUME [Next]_vars, ~People
  PROVE  /\ changed' \subseteq changed
         /\ UndoRefuses \/ UndoFails \/ unreversed' = unreversed
         /\ pc' = "rollbackRestore" =>
              \/ pc = "rollbackRestore" /\ restorable' = restorable
              \/ ReadRollback /\ restorable' = touched \ conflicts'
         /\ pc = "done" => UNCHANGED vars
         /\ humanEdits' = humanEdits
<1>1. CASE UNCHANGED vars
  BY <1>1 DEF vars, reading, undoing, history
<1>2. CASE ReadRollback
  BY <1>2 DEF ReadRollback, undoing, history
<1>3. CASE UndoLooks \/ UndoRefuses \/ UndoActs \/ UndoFails
  BY <1>3 DEF UndoLooks, UndoRefuses, UndoActs, UndoFails, UndoNext, Ends, history
<1>4. CASE Restore \/ RestoreRollback \/ \E some \in SUBSET touched :
             RestoreFails(some) \/ RollbackThrows(some)
  BY <1>4 DEF Restore, RestoreRollback, RestoreFails, RollbackThrows, Overwrote, UndoNext, Ends,
     undoing
<1>5. CASE \/ ProbeDrift \/ ReadDrift \/ DriftCheckThrows \/ StructuralLands \/ StructuralFails
           \/ BatchLands \/ (\E n \in 0 .. BatchSize : BatchFails(n)) \/ Calculate
           \/ CalculateFails \/ ProbeCapture \/ ReadCapture \/ CaptureFails \/ ProbeRollback
  BY <1>5 DEF ProbeDrift, ReadDrift, DriftCheckThrows, StructuralLands, StructuralFails,
     BatchLands, BatchFails, AtCells, Calculate, CalculateFails, ProbeCapture, ReadCapture,
     CaptureFails, ProbeRollback, Probe, Overwrote, Ends, undoing, history
<1>6. {} \in SUBSET touched
  OBVIOUS
<1>. QED BY <1>1, <1>2, <1>3, <1>4, <1>5, <1>6
         DEF Next, Writer, Apply, RollBack, UndoStructural, People

\* What the number of pending inverses does.
LEMMA PendingStays ==
  ASSUME TypeInv, [Next]_vars, ~People, ~StructuralLands, ~UndoActs, ~UndoRefuses, ~UndoFails,
         pc' # "done" \/ Finished'
  PROVE  Pending' = Pending
<1>2. CASE UndoLooks
  BY <1>2 DEF UndoLooks, Pending
<1>3. ASSUME NEW ops, Len(ops) = Len(landed), NEW how, UndoNext(ops, how),
             pc \notin {"undo", "undoAct", "done"}
      PROVE  Pending' = Pending
  <2>1. undo' = ops /\ (pc' = "undo" \/ (pc' = "done" /\ ops = <<>>))
    BY <1>3 DEF UndoNext, Ends
  <2>2. \A s : s = <<>> => Len(s) = 0
    OBVIOUS
  <2>3. pc' = "done" => Len(ops) = 0
    BY <2>1, <2>2, Zenon
  <2>. QED BY <1>3, <2>1, <2>3 DEF Pending
<1>4. ASSUME NEW s, IsList(s) PROVE Len(Reverse(s)) = Len(s)
  <2>1. Len(s) \in Nat
    BY <1>4 DEF IsList
  <2>. DEFINE r == [i \in 1 .. Len(s) |-> s[Len(s) - i + 1]]
  <2>2. Len(r) = Len(s)
    BY <2>1
  <2>. QED BY <2>2 DEF Reverse
<1>5. /\ IsList(landed) /\ IsList(cs.compensation)
      /\ pc \in {"rollbackRead", "rollbackRestore"} => Len(cs.compensation) = Len(landed)
  BY Structure DEF TypeInv, LandedInv
<1>6. CASE Restore
  BY <1>3, <1>4, <1>5, <1>6 DEF Restore
<1>7. CASE RestoreRollback
  BY <1>3, <1>4, <1>5, <1>7 DEF RestoreRollback
<1>8. CASE ReadRollback
  <2>1. CASE restorable' # {}
    BY <1>8, <2>1 DEF ReadRollback, Pending
  <2>2. CASE restorable' = {}
    BY <1>3, <1>4, <1>5, <1>8, <2>2 DEF ReadRollback
  <2>. QED BY <2>1, <2>2
<1>9. CASE UNCHANGED vars
  BY <1>9 DEF vars, undoing, Pending
<1>10. CASE landed' = landed /\ pc \notin {"undo", "undoAct", "done"}
            /\ pc' \notin {"undo", "undoAct", "done"}
  BY <1>10 DEF Pending
<1>11. CASE pc' = "done" /\ outcome' \in {"refused", "threw", "restore-failed", "rollback-threw"}
  BY <1>11 DEF Finished
<1>. QED BY <1>2, <1>6, <1>7, <1>8, <1>9, <1>10, <1>11 DEF Next, Writer, Apply, RollBack,
     UndoStructural, ProbeDrift, ReadDrift, DriftCheckThrows, StructuralFails, BatchLands,
     BatchFails, AtCells, Calculate, CalculateFails, ProbeCapture, ReadCapture, CaptureFails,
     RestoreFails, RollbackThrows, ProbeRollback, Probe, Ends, People, vars
LEMMA StructureLeft ==
  ASSUME TypeInv, [Next]_vars, ~People, ~StructuralLands, ~UndoActs, ~UndoFails
  PROVE  wb'.sheets = wb.sheets /\ wb'.names = wb.names
<1>1. CASE wb' = wb
  BY <1>1
<1>2. CASE \E cells \in SUBSET touched : Writes(cells)
  BY <1>2 DEF Writes
<1>3. CASE BatchLands \/ \E n \in 0 .. BatchSize : BatchFails(n)
  BY <1>2, <1>3, BatchWrites
<1>4. CASE Restore \/ \E some \in SUBSET touched : RestoreFails(some)
  BY <1>2, <1>4, RestoreWrites DEF Restore, RestoreFails, Restores
<1>5. CASE RestoreRollback
  <2>1. restorable \in SUBSET touched
    BY DEF TypeInv, TypeOK
  <2>. QED BY <1>2, <1>5, <2>1, RestoreWrites DEF RestoreRollback, Restores
<1>6. CASE \E some \in SUBSET touched : RollbackThrows(some)
  BY <1>2, <1>6, RollbackWrites DEF Restores
<1>7. CASE ProbeDrift \/ ReadDrift \/ DriftCheckThrows \/ StructuralFails \/ Calculate
            \/ CalculateFails \/ ProbeCapture \/ ReadCapture \/ CaptureFails \/ ProbeRollback
            \/ ReadRollback \/ UndoLooks \/ UndoRefuses
  BY <1>1, <1>7 DEF ProbeDrift, ReadDrift, DriftCheckThrows, StructuralFails, Calculate,
     CalculateFails, ProbeCapture, ReadCapture, CaptureFails, ProbeRollback, ReadRollback,
     UndoLooks, UndoRefuses
<1>8. CASE UNCHANGED vars
  BY <1>1, <1>8 DEF vars
<1>9. {} \in SUBSET touched
  OBVIOUS
<1>. QED BY <1>3, <1>4, <1>5, <1>6, <1>7, <1>8, <1>9
         DEF Next, Writer, Apply, RollBack, UndoStructural, People

LEMMA StructureStays ==
  ASSUME TypeInv, [Next]_vars, ~People, SheetsExact, NamesExact, pc' # "done" \/ Finished'
  PROVE  SheetsExact' /\ NamesExact'
<1>1. /\ ChangeSetInv /\ LiveBook(wb) /\ IsList(cs.compensation)
      /\ Len(cs.compensation) = Len(structuralEdits) /\ Len(structuralEdits) \in Nat
      /\ cs'.compensation = cs.compensation
  BY Structure, ListDomain, ChangeSetStays DEF TypeInv
<1>2. UndoRefuses \/ UndoFails \/ unreversed' = unreversed
  BY OthersStay
<1>3. CASE ~StructuralLands /\ ~UndoActs /\ ~UndoRefuses /\ ~UndoFails
  <2>1. wb'.sheets = wb.sheets /\ wb'.names = wb.names /\ Pending' = Pending
    BY <1>3, StructureLeft, PendingStays
  <2>. QED BY <1>1, <1>2, <1>3, <2>1 DEF SheetsExact, NamesExact
<1>4. CASE UndoRefuses \/ UndoFails
  <2>. DEFINE k == Len(undo)
              op == cs.compensation[k]
  <2>1. /\ k \in 1 .. Len(cs.compensation) /\ wb'.sheets = wb.sheets
        /\ \A n \in DOMAIN OriginalWorkbook.names : wb'.names[n] = wb.names[n] \/ Names(op, n)
        /\ unreversed' = unreversed \cup {op} /\ Pending = k /\ Pending' = k - 1
    BY <1>4, ReportedInverse
  <2>2. op \in unreversed' /\ \A i \in 1 .. k : i \in 1 .. (k - 1) \/ cs.compensation[i] = op
    BY <1>1, <2>1
  <2>. HIDE DEF k, op
  <2>3. SheetsExact'
    BY <1>1, <2>1, <2>2 DEF SheetsExact
  <2>4. NamesExact'
    BY <1>1, <2>1, <2>2 DEF NamesExact
  <2>. QED BY <2>3, <2>4
<1>5. CASE StructuralLands
  <2>. DEFINE n == Len(landed)
              e == NextStructural
              op == cs.compensation[n + 1]
  <2>1. landed \in Seq(ToSet(landed)) /\ n \in Nat /\ n < Len(structuralEdits)
    BY <1>5 DEF StructuralLands, TypeInv, LandedInv, IsList
  <2>2. n + 1 \in 1 .. Len(structuralEdits) /\ e = structuralEdits[n + 1]
    BY <1>1, <2>1 DEF NextStructural
  <2>3. ~isCellEdit(e) /\ IsLiveEdit(e) /\ Inverts(OriginalWorkbook, e, op)
    BY <1>1, <2>2, Structure
  <2>4. /\ wb' = ApplyEdit(wb, e) /\ pc = "writing" /\ pc' = "writing" /\ CanLand(wb, e)
        /\ landed' = Append(landed, op) /\ unreversed' = unreversed
    BY <1>5 DEF StructuralLands, undoing
  <2>5. Pending = n
    BY <2>4 DEF Pending
  <2>. HIDE DEF e, op
  <2>6. Pending' = n + 1
    <3>1. landed \in Seq(ToSet(landed) \cup {op})
      BY <2>1
    <3>2. Len(landed') = n + 1
      BY <2>4, <3>1
    <3>. QED BY <2>4, <3>2 DEF Pending
  <2>7. /\ \A i \in 1 .. n : i \in 1 .. (n + 1)
        /\ n + 1 \in 1 .. (n + 1) /\ cs'.compensation[n + 1] = op
    BY <1>1, <2>1 DEF op
  <2>. HIDE DEF n
  <2>8. CASE e.kind = "createSheet"
    <3>1. wb'.sheets = wb.sheets \cup {e.sheet} /\ wb'.names = wb.names
      BY <1>1, <2>3, <2>4, <2>8, StructureApplied
    <3>2. Deletes(op, e.sheet) \/ e.sheet \in OriginalWorkbook.sheets
      BY <2>3, <2>8 DEF Inverts, Deletes
    <3>3. SheetsExact'
      BY <1>1, <2>4, <2>5, <2>6, <2>7, <3>1, <3>2 DEF SheetsExact
    <3>4. NamesExact'
      BY <1>1, <2>4, <2>5, <2>6, <2>7, <3>1 DEF NamesExact
    <3>. QED BY <3>3, <3>4
  <2>9. CASE e.kind = "defineName"
    <3>1. /\ wb'.sheets = wb.sheets
          /\ \A m \in DOMAIN OriginalWorkbook.names : m # e.name => wb'.names[m] = wb.names[m]
      BY <1>1, <2>3, <2>4, <2>9, StructureApplied
    <3>2. Names(op, e.name)
      BY <2>3, <2>9 DEF Inverts, Names
    <3>3. SheetsExact'
      BY <1>1, <2>4, <2>5, <2>6, <2>7, <3>1 DEF SheetsExact
    <3>4. NamesExact'
      BY <1>1, <2>4, <2>5, <2>6, <2>7, <3>1, <3>2 DEF NamesExact
    <3>. QED BY <3>3, <3>4
  <2>. QED BY <2>3, <2>8, <2>9 DEF IsLiveEdit, IsEdit
<1>6. CASE UndoActs
  <2>. DEFINE k == Len(undo)
              op == cs.compensation[k]
  <2>1. /\ k \in 1 .. Len(cs.compensation) /\ IsOp(op) /\ op.kind # "none"
        /\ wb' = Undo(wb, op) /\ Pending = k /\ Pending' = k - 1
    BY <1>6, UndoneInverse
  <2>2. /\ op.kind = "deleteSheet" => op.sheet \notin OriginalWorkbook.sheets
        /\ \A n : Names(op, n) /\ (\A i \in 1 .. (k - 1) : ~Names(cs.compensation[i], n))
                    => RestoresName(OriginalWorkbook, n, op)
    BY <2>1, PendingInverse
  <2>3. \A i \in 1 .. k : i \in 1 .. (k - 1) \/ cs.compensation[i] = op
    BY <1>1, <2>1
  <2>4. unreversed' = unreversed
    BY <1>6 DEF UndoActs
  <2>. HIDE DEF k, op
  <2>5. CASE op.kind = "deleteSheet"
    <3>1. wb'.sheets = wb.sheets \ {op.sheet} /\ wb'.names = wb.names
      BY <1>1, <2>1, <2>5, Undone
    <3>2. \A s : Deletes(op, s) => s = op.sheet
      BY DEF Deletes
    <3>3. SheetsExact'
      BY <1>1, <2>1, <2>2, <2>3, <2>4, <2>5, <3>1, <3>2 DEF SheetsExact
    <3>4. \A n : ~Names(op, n)
      BY <2>5 DEF Names
    <3>5. NamesExact'
      BY <1>1, <2>1, <2>3, <2>4, <3>1, <3>4 DEF NamesExact
    <3>. QED BY <3>3, <3>5
  <2>6. CASE op.kind # "deleteSheet"
    <3>1. /\ wb'.sheets = wb.sheets
          /\ \A m \in DOMAIN OriginalWorkbook.names :
               /\ m # op.name => wb'.names[m] = wb.names[m]
               /\ m = op.name /\ op.kind = "deleteName" => wb'.names[m] = None
               /\ m = op.name /\ op.kind = "restoreName" => wb'.names[m] = op.to
      BY <1>1, <2>1, <2>6, Undone
    <3>2. \A s : ~Deletes(op, s)
      BY <2>6 DEF Deletes
    <3>3. SheetsExact'
      BY <1>1, <2>1, <2>3, <2>4, <3>1, <3>2 DEF SheetsExact
    <3>4. ASSUME NEW n \in DOMAIN OriginalWorkbook.names,
                 \A i \in 1 .. (k - 1) : ~Names(cs.compensation[i], n),
                 \A o \in unreversed : ~Names(o, n)
          PROVE  wb'.names[n] = OriginalWorkbook.names[n]
      <4>1. CASE Names(op, n)
        <5>1. RestoresName(OriginalWorkbook, n, op)
          BY <2>2, <3>4, <4>1
        <5>. QED BY <3>1, <4>1, <5>1 DEF RestoresName, Names
      <4>2. CASE ~Names(op, n)
        <5>1. \A i \in 1 .. k : ~Names(cs.compensation[i], n)
          BY <2>3, <3>4, <4>2
        <5>2. n # op.name
          BY <2>1, <2>6, <4>2 DEF Names, IsOp
        <5>. QED BY <2>1, <3>1, <3>4, <5>1, <5>2 DEF NamesExact
      <4>. QED BY <4>1, <4>2
    <3>5. NamesExact'
      BY <1>1, <2>1, <2>4, <3>4 DEF NamesExact
    <3>. QED BY <3>3, <3>5
  <2>. QED BY <2>5, <2>6
<1>. QED BY <1>3, <1>4, <1>5, <1>6

LEMMA ExactInit ==
  ASSUME Init
  PROVE  ExactInv
<1>1. /\ wb = OriginalWorkbook /\ pc = "driftProbe" /\ landed = <<>> /\ changed = {}
      /\ outcome = None
  BY DEF Init
<1>2. ~Finished
  BY <1>1, NoneAssumption DEF Finished
<1>3. UntouchedAsBefore /\ AllBack
  BY <1>1 DEF UntouchedAsBefore, AsBefore, AllBack
<1>4. SheetsExact /\ NamesExact
  BY <1>1 DEF SheetsExact, NamesExact
<1>. QED BY <1>1, <1>2, <1>3, <1>4 DEF ExactInv

LEMMA FinishedIsDone ==
  ASSUME Finished => pc = "done", [Next]_vars
  PROVE  Finished' => pc' = "done"
  BY DEF Finished, Next, Writer, Apply, RollBack, UndoStructural, ProbeDrift,
     ReadDrift, DriftCheckThrows, StructuralLands, StructuralFails, BatchLands, BatchFails,
     AtCells, Calculate, CalculateFails, ProbeCapture, ReadCapture, CaptureFails, Restore,
     RestoreFails, ReadRollback, RestoreRollback, RollbackThrows, UndoLooks, UndoRefuses, UndoActs,
     UndoFails, Human, ProbeRollback, Probe, UndoNext, Ends, vars

LEMMA ExactNext ==
  ASSUME TypeInv, ConflictInv, ExactInv, [Next]_vars
  PROVE  ExactInv'
<1>1. Finished' => pc' = "done"
  BY FinishedIsDone DEF ExactInv
<1>2. CASE humanEdits' # 0
  BY <1>1, <1>2 DEF ExactInv
<1>3. CASE humanEdits' = 0
  <2>1. ~People /\ humanEdits = 0
    <3>1. humanEdits \in Nat
      BY WriterBounds DEF TypeInv, TypeOK
    <3>2. ~People
      BY <1>3, <3>1, PeopleLeave
    <3>. QED BY <1>3, <3>2, OthersStay
  <2>2. /\ changed = {} /\ (pc = "rollbackRestore" => restorable = touched)
        /\ Finished => pc = "done"
        /\ pc # "done" \/ Finished =>
             UntouchedAsBefore /\ AllBack /\ SheetsExact /\ NamesExact
    BY <2>1 DEF ExactInv
  <2>3. changed' = {} /\ touched' = touched
    BY <2>1, <2>2, OthersStay, ChangeSetStays DEF TypeInv
  <2>4. ReadRollback => conflicts' = {}
    BY <2>2, ConflictsChanged
  <2>5. pc' = "rollbackRestore" => restorable' = touched'
    BY <2>1, <2>2, <2>3, <2>4, OthersStay
  <2>6. ASSUME pc' # "done" \/ Finished'
        PROVE  UntouchedAsBefore' /\ AllBack' /\ SheetsExact' /\ NamesExact'
    <3>1. pc # "done" \/ Finished
      <4>1. pc = "done" => UNCHANGED vars
        BY <2>1, OthersStay
      <4>. QED BY <2>6, <4>1 DEF vars, Finished
    <3>2. UntouchedAsBefore'
      BY <2>1, <2>2, <3>1, UntouchedStay
    <3>3. AllBack'
      BY <2>1, <2>2, <2>4, <2>6, <3>1, AllBackStays
    <3>4. SheetsExact' /\ NamesExact'
      BY <2>1, <2>2, <2>6, <3>1, StructureStays
    <3>. QED BY <3>2, <3>3, <3>4
  <2>. QED BY <1>1, <2>3, <2>5, <2>6 DEF ExactInv
<1>. QED BY <1>2, <1>3

LEMMA ExactEnd ==
  ASSUME TypeInv, ExactInv, Finished, humanEdits = 0
  PROVE  (\A c \in Cells : Back(c, wb.cells[c])) /\ StructureBack
<1>1. pc = "done" /\ AllBack /\ SheetsExact /\ NamesExact
  BY DEF ExactInv
<1>2. 1 .. Pending = {}
  BY <1>1 DEF Pending
<1>3. StructureBack
  BY <1>1, <1>2 DEF SheetsExact, NamesExact, Deletes, Names, StructureBack
<1>. QED BY <1>1, <1>3 DEF AllBack

LEMMA ExactAlways == Spec => [](TypeInv /\ ExactInv)
<1>. DEFINE Inv == TypeInv /\ ConflictInv /\ ExactInv
<1>1. Init => Inv
  BY TypeInit, ConflictInit, ExactInit
<1>2. Inv /\ [Next]_vars => Inv'
  BY TypeNext, ConflictNext, ExactNext
<1>3. Inv => TypeInv /\ ExactInv
  OBVIOUS
<1>. QED BY <1>1, <1>2, <1>3, PTL DEF Spec

\* A failed apply that says it was undone left every cell, and with the
\* inverses it does not report every sheet and name, as it found them: whichever
\* sync failed, in the middle of a batch or between the edits, as long as nobody
\* else was at work (LiveWriter.RecoveryIsExact).
THEOREM FailedApplyIsUndone == Spec => []RecoveryIsExact
<1>1. TypeInv /\ ExactInv => RecoveryIsExact
  BY ExactEnd DEF RecoveryIsExact, SameContent, Back, Finished
<1>. QED BY <1>1, ExactAlways, PTL

\* A rollback nobody interfered with puts every cell back, with its number
\* format if the extraction read formats, and the sheets and names whose
\* inverses it does not report (LiveWriter.RollbackIsExact).
THEOREM RollbackRestores == Spec => []RollbackIsExact
<1>1. TypeInv /\ ExactInv => RollbackIsExact
  BY ExactEnd DEF RollbackIsExact, SameContent, Back, Finished
<1>. QED BY <1>1, ExactAlways, PTL

-----------------------------------------------------------------------------
(* With nobody else at work, an apply that succeeds is the simulator's.      *)

LEMMA Prefix ==
  ASSUME NEW s, IsList(s), NEW n \in 0 .. Len(s)
  PROVE  /\ IsList(SubSeq(s, 1, n)) /\ Len(SubSeq(s, 1, n)) = n
         /\ \A i \in 1 .. n : SubSeq(s, 1, n)[i] = s[i]
         /\ n = Len(s) => SubSeq(s, 1, n) = s
         /\ n = 0 => SubSeq(s, 1, n) = <<>>
<1>. DEFINE p == SubSeq(s, 1, n)
<1>1. s \in Seq(ToSet(s)) /\ Len(s) \in Nat
  BY DEF IsList
<1>2. p \in Seq(ToSet(s)) /\ Len(p) = n /\ \A i \in 1 .. n : p[i] = s[i]
  BY <1>1
<1>3. (n = Len(s) => p = s) /\ (n = 0 => p = <<>>)
  BY <1>1, <1>2
<1>4. IsList(p)
  BY <1>2, SeqIsList
<1>. QED BY <1>2, <1>3, <1>4

LEMMA EditsNone ==
  ASSUME NEW w
  PROVE  ApplyEdits(w, <<>>) = w
<1>1. Editing!Folded(w, <<>>) = w
  BY Editing!FoldEmpty
<1>. QED BY <1>1 DEF Editing!Folded, ApplyEdits, FoldLeft, Editing!FoldLeft, MapThenFoldSet,
     Editing!MapThenFoldSet, Max, Editing!Max

LEMMA WritesNone ==
  ASSUME NEW w
  PROVE  WriteCells(w, <<>>) = w
<1>1. Writing!Folded(w, <<>>) = w
  BY Writing!FoldEmpty
<1>. QED BY <1>1 DEF Writing!Folded, WriteCells, FoldLeft, Writing!FoldLeft, MapThenFoldSet,
     Writing!MapThenFoldSet, Max, Writing!Max

LEMMA EditsOneMore ==
  ASSUME NEW w, NEW s, NEW t, IsList(s), IsList(t), Len(t) = Len(s) + 1,
         \A i \in 1 .. Len(s) : s[i] = t[i]
  PROVE  ApplyEdits(w, t) = ApplyEdit(ApplyEdits(w, s), t[Len(t)])
<1>. DEFINE n == Len(s)
<1>1. n \in Nat /\ DOMAIN s = 1 .. n /\ DOMAIN t = 1 .. (n + 1)
  BY ListDomain
<1>2. \A v : Editing!Folded(w, v) = ApplyEdits(w, v)
  BY DEF Editing!Folded, ApplyEdits, FoldLeft, Editing!FoldLeft, MapThenFoldSet,
         Editing!MapThenFoldSet, Max, Editing!Max
<1>3. Editing!Folded(w, t) = ApplyEdit(Editing!Folded(w, s), t[n + 1])
  <2>. HIDE DEF n
  <2>. QED BY <1>1, Editing!FoldLast DEF n
<1>. QED BY <1>2, <1>3

LEMMA WritesOneMore ==
  ASSUME NEW w, NEW s, NEW t, IsList(s), IsList(t), Len(t) = Len(s) + 1,
         \A i \in 1 .. Len(s) : s[i] = t[i]
  PROVE  WriteCells(w, t) = WriteCell(WriteCells(w, s), t[Len(t)])
<1>. DEFINE n == Len(s)
<1>1. n \in Nat /\ DOMAIN s = 1 .. n /\ DOMAIN t = 1 .. (n + 1)
  BY ListDomain
<1>2. \A v : Writing!Folded(w, v) = WriteCells(w, v)
  BY DEF Writing!Folded, WriteCells, FoldLeft, Writing!FoldLeft, MapThenFoldSet,
         Writing!MapThenFoldSet, Max, Writing!Max
<1>3. Writing!Folded(w, t) = WriteCell(Writing!Folded(w, s), t[n + 1])
  <2>. HIDE DEF n
  <2>. QED BY <1>1, Writing!FoldLast DEF n
<1>. QED BY <1>2, <1>3

\* A batch goes on where the cells written before it end.
LEMMA WritesGoOn ==
  ASSUME NEW w, NEW s, IsList(s), NEW m \in Nat, NEW k \in Nat, m <= k, k <= Len(s)
  PROVE  WriteCells(w, SubSeq(s, 1, k))
           = WriteCells(WriteCells(w, SubSeq(s, 1, m)), SubSeq(s, m + 1, k))
<1>. DEFINE n == k - m
<1>0. n \in Nat /\ k = m + n
  OBVIOUS
<1>. HIDE DEF n
<1>. DEFINE all == SubSeq(s, 1, k)
            first == SubSeq(s, 1, m)
            rest == SubSeq(s, m + 1, k)
<1>1. s \in Seq(ToSet(s)) /\ Len(s) \in Nat
  BY DEF IsList
<1>2. /\ all \in Seq(ToSet(s)) /\ Len(all) = k /\ \A i \in 1 .. k : all[i] = s[i]
      /\ first \in Seq(ToSet(s)) /\ Len(first) = m /\ \A i \in 1 .. m : first[i] = s[i]
      /\ rest \in Seq(ToSet(s)) /\ Len(rest) = n /\ \A i \in 1 .. n : rest[i] = s[m + i]
  BY <1>0, <1>1
<1>3. ASSUME NEW u, NEW v PROVE Writing!Folded(u, v) = WriteCells(u, v)
  BY DEF Writing!Folded, WriteCells, FoldLeft, Writing!FoldLeft, MapThenFoldSet,
         Writing!MapThenFoldSet, Max, Writing!Max
<1>. HIDE DEF all, first, rest
<1>4. \A i \in 1 .. n : m + i \in 1 .. k
  BY <1>0
<1>5. /\ DOMAIN all = 1 .. (m + n) /\ DOMAIN first = 1 .. m /\ DOMAIN rest = 1 .. n
      /\ \A i \in 1 .. m : first[i] = all[i]
  BY <1>0, <1>2
<1>6. \A i \in 1 .. n : rest[i] = all[m + i]
  BY <1>2, <1>4
<1>7. Writing!Folded(w, all) = Writing!Folded(Writing!Folded(w, first), rest)
  <2>1. Writing!IsCut(all, m, n, first, rest)
    BY <1>0, <1>5, <1>6 DEF Writing!IsCut
  <2>. QED BY <2>1, Writing!FoldSplit
<1>8. WriteCells(w, all) = WriteCells(WriteCells(w, first), rest)
  <2>1. Writing!Folded(w, all) = WriteCells(w, all)
    BY <1>3
  <2>2. Writing!Folded(w, first) = WriteCells(w, first)
    BY <1>3
  <2>3. Writing!Folded(Writing!Folded(w, first), rest) = WriteCells(Writing!Folded(w, first), rest)
    BY <1>3
  <2>. QED BY <1>7, <2>1, <2>2, <2>3
<1>. QED BY <1>8 DEF all, first, rest

\* Writing one cell, whatever sheet it is on.
LEMMA CellShape ==
  ASSUME NEW w, IsWorkbook(w), NEW e, isCellEdit(e), e.cell \in Cells
  PROVE  LET n == WriteCell(w, e)
         IN  /\ IsWorkbook(n) /\ n.sheets = w.sheets /\ n.names = w.names
             /\ n.cells[e.cell] = WrittenCell(w.cells[e.cell], e)
             /\ \A c \in Cells \ {e.cell} : n.cells[c] = w.cells[c]
<1>. DEFINE x == WrittenCell(w.cells[e.cell], e)
            cells == [w.cells EXCEPT ![e.cell] = x]
            n == WriteCell(w, e)
<1>1. /\ w = [sheets |-> w.sheets, cells |-> w.cells, names |-> w.names]
      /\ w.cells = [c \in Cells |-> w.cells[c]] /\ \A c \in Cells : IsCell(w.cells[c])
  BY DEF IsWorkbook
<1>2. IsCell(x)
  <2>. DEFINE y == w.cells[e.cell]
  <2>1. y = [absent |-> y.absent, formula |-> y.formula, value |-> y.value, format |-> y.format]
    BY <1>1 DEF IsCell
  <2>. HIDE DEF y
  <2>. QED BY <2>1 DEF WrittenCell, WithFormula, WithValue, Blank, IsCell, isCellEdit, CellKinds, y
<1>3. n = [w EXCEPT !.cells[e.cell] = x]
  BY DEF WriteCell
<1>4. WrittenCell(w.cells[e.cell], e) = x
  OBVIOUS
<1>. HIDE DEF x, n
<1>5. n = [sheets |-> w.sheets, cells |-> cells, names |-> w.names]
  BY <1>1, <1>3
<1>6. /\ cells = [c \in Cells |-> cells[c]]
      /\ \A c \in Cells : cells[c] = IF c = e.cell THEN x ELSE w.cells[c]
  BY <1>1
<1>. HIDE DEF cells
<1>7. IsWorkbook(n)
  BY <1>1, <1>2, <1>5, <1>6 DEF IsWorkbook
<1>8. n.sheets = w.sheets /\ n.names = w.names /\ n.cells = cells
  BY <1>5
<1>9. n.cells[e.cell] = x /\ \A c \in Cells \ {e.cell} : n.cells[c] = w.cells[c]
  BY <1>6, <1>8
<1>. QED BY <1>4, <1>7, <1>8, <1>9 DEF n

\* The simulator's edit of a cell shows what Excel's does, and formats it alike
\* unless it clears it.
LEMMA CellsAgree ==
  ASSUME NEW e, isCellEdit(e), IsLiveEdit(e), NEW live, NEW sim, IsCell(live), IsCell(sim),
         Shows(live) = Shows(sim)
  PROVE  /\ Shows(WrittenCell(live, e)) = Shows(EditedCell(sim, AsStored(e)))
         /\ live.format = sim.format /\ e.kind # "clear"
              => WrittenCell(live, e).format = EditedCell(sim, AsStored(e)).format
<1>1. /\ live = [absent |-> live.absent, formula |-> live.formula, value |-> live.value,
                 format |-> live.format]
      /\ sim = [absent |-> sim.absent, formula |-> sim.formula, value |-> sim.value,
                format |-> sim.format]
  BY DEF IsCell
<1>2. CASE e.kind = "setFormula"
  <2>1. AsStored(e) = e /\ e.to # None
    BY <1>2 DEF AsStored, IsLiveEdit
  <2>2. /\ WrittenCell(live, e).formula = e.to /\ WrittenCell(live, e).format = live.format
        /\ EditedCell(sim, e).formula = e.to /\ EditedCell(sim, e).format = sim.format
    BY <1>1, <1>2 DEF WrittenCell, WithFormula, EditedCell
  <2>. QED BY <2>1, <2>2 DEF Shows
<1>3. CASE e.kind = "setValue"
  <2>1. /\ AsStored(e).kind = "setValue" /\ AsStored(e).to = Stored[e.to]
    BY <1>3 DEF AsStored
  <2>2. /\ WrittenCell(live, e).formula = None /\ WrittenCell(live, e).value = Stored[e.to]
        /\ WrittenCell(live, e).format = live.format
    BY <1>1, <1>3 DEF WrittenCell, WithValue
  <2>3. /\ EditedCell(sim, AsStored(e)).formula = None
        /\ EditedCell(sim, AsStored(e)).value = Stored[e.to]
        /\ EditedCell(sim, AsStored(e)).format = sim.format
    BY <1>1, <2>1 DEF EditedCell
  <2>. QED BY <2>2, <2>3 DEF Shows
<1>4. CASE e.kind = "setNumberFormat"
  <2>1. AsStored(e) = e
    BY <1>4 DEF AsStored
  <2>2. /\ WrittenCell(live, e).formula = live.formula /\ WrittenCell(live, e).value = live.value
        /\ WrittenCell(live, e).format = e.to
    BY <1>1, <1>4 DEF WrittenCell
  <2>3. /\ EditedCell(sim, e).formula = sim.formula /\ EditedCell(sim, e).value = sim.value
        /\ EditedCell(sim, e).format = e.to
    BY <1>1, <1>4 DEF EditedCell
  <2>. QED BY <2>1, <2>2, <2>3 DEF Shows
<1>5. CASE e.kind = "clear"
  <2>1. AsStored(e) = e
    BY <1>5 DEF AsStored
  <2>2. WrittenCell(live, e).formula = None /\ WrittenCell(live, e).value = Null
    BY <1>1, <1>5 DEF WrittenCell, Blank
  <2>3. EditedCell(sim, e).formula = None /\ EditedCell(sim, e).value = Null
    BY <1>5 DEF EditedCell, Absent
  <2>. QED BY <1>5, <2>1, <2>2, <2>3 DEF Shows
<1>. QED BY <1>2, <1>3, <1>4, <1>5 DEF isCellEdit, CellKinds

\* The same edit in the simulator.
LEMMA SimulatedCell ==
  ASSUME NEW w, IsWorkbook(w), NEW e, isCellEdit(e), e.cell \in Cells
  PROVE  LET n == ApplyEdit(w, e)
         IN  /\ IsWorkbook(n) /\ n.names = w.names /\ n.sheets = w.sheets \cup {SheetOf[e.cell]}
             /\ n.cells[e.cell] = EditedCell(w.cells[e.cell], e)
             /\ \A c \in Cells \ {e.cell} : n.cells[c] = w.cells[c]
<1>. DEFINE x == EditedCell(w.cells[e.cell], e)
            n == ApplyEdit(w, e)
<1>1. IsWorkbook(n) /\ \A c \in Cells \ {e.cell} : n.cells[c] = w.cells[c]
  BY OneEdit DEF IsEdit
<1>2. w = [sheets |-> w.sheets, cells |-> w.cells, names |-> w.names]
      /\ w.cells = [c \in Cells |-> w.cells[c]]
  BY DEF IsWorkbook
<1>3. n = [w EXCEPT !.sheets = @ \cup {SheetOf[e.cell]}, !.cells[e.cell] = x]
  BY DEF ApplyEdit, isCellEdit, CellKinds
<1>4. x = EditedCell(w.cells[e.cell], e)
  OBVIOUS
<1>. HIDE DEF x, n
<1>5. n.names = w.names /\ n.sheets = w.sheets \cup {SheetOf[e.cell]} /\ n.cells[e.cell] = x
  BY <1>2, <1>3
<1>. QED BY <1>1, <1>4, <1>5 DEF n

LEMMA AsStoredKeeps ==
  ASSUME NEW e
  PROVE  /\ AsStored(e).kind = e.kind /\ AsStored(e).cell = e.cell
         /\ e.kind # "setValue" => AsStored(e) = e
  BY DEF AsStored

LEMMA ListAppend ==
  ASSUME NEW s, IsList(s), NEW e
  PROVE  /\ IsList(Append(s, e)) /\ Len(Append(s, e)) = Len(s) + 1
         /\ Append(s, e)[Len(s) + 1] = e /\ \A i \in 1 .. Len(s) : Append(s, e)[i] = s[i]
<1>1. s \in Seq(ToSet(s) \cup {e})
  BY DEF IsList
<1>2. Append(s, e) \in Seq(ToSet(s) \cup {e})
  BY <1>1
<1>3. /\ Len(Append(s, e)) = Len(s) + 1 /\ Append(s, e)[Len(s) + 1] = e
      /\ \A i \in 1 .. Len(s) : Append(s, e)[i] = s[i]
  BY <1>1
<1>4. IsList(Append(s, e))
  <2>. DEFINE t == Append(s, e)
  <2>1. t \in Seq(ToSet(s) \cup {e})
    BY <1>2
  <2>. HIDE DEF t
  <2>2. IsList(t)
    BY <2>1, SeqIsList
  <2>. QED BY <2>2 DEF t
<1>. QED BY <1>3, <1>4

\* base: with the structural edits; s, c: the structural and the cell edits of a
\* beginning of the change set; p: what the simulator makes of that beginning.
PlanAgrees(base, cleared, s, c, p) ==
  LET done == ApplyEdits(OriginalWorkbook, s)
      live == WriteCells(base, c)
  IN  /\ IsList(s) /\ IsList(c) /\ IsWorkbook(p) /\ IsWorkbook(live) /\ IsWorkbook(done)
      /\ live.sheets = base.sheets /\ live.names = base.names
      /\ p.names = done.names
      /\ \A sheet : sheet \in p.sheets <=>
           sheet \in done.sheets \/ \E j \in 1 .. Len(c) : sheet = SheetOf[c[j].cell]
      /\ \A k \in Cells :
           /\ Shows(live.cells[k]) = Shows(p.cells[k])
           /\ k \notin cleared => live.cells[k].format = p.cells[k].format

LEMMA PlanGoesOn ==
  ASSUME NEW base, NEW cleared, NEW s, NEW c, NEW p, PlanAgrees(base, cleared, s, c, p),
         NEW e, IsLiveEdit(e), isCellEdit(e) /\ e.kind = "clear" => e.cell \in cleared
  PROVE  PlanAgrees(base, cleared, AddStructural(s, e), AddCellEdit(c, e), ApplyEdit(p, AsStored(e)))
<1>. DEFINE done == ApplyEdits(OriginalWorkbook, s)
            live == WriteCells(base, c)
            a == AsStored(e)
            q == ApplyEdit(p, a)
<1>1. /\ IsList(s) /\ IsList(c) /\ IsWorkbook(p) /\ IsWorkbook(live) /\ IsWorkbook(done)
      /\ live.sheets = base.sheets /\ live.names = base.names
      /\ p.names = done.names
  BY DEF PlanAgrees
<1>2. \A sheet : sheet \in p.sheets <=>
        sheet \in done.sheets \/ \E j \in 1 .. Len(c) : sheet = SheetOf[c[j].cell]
  BY DEF PlanAgrees
<1>3. \A k \in Cells : /\ Shows(live.cells[k]) = Shows(p.cells[k])
                       /\ k \notin cleared => live.cells[k].format = p.cells[k].format
  BY DEF PlanAgrees
<1>4. a.kind = e.kind /\ a.cell = e.cell /\ (e.kind # "setValue" => a = e)
  BY AsStoredKeeps
<1>. HIDE DEF a
<1>5. CASE isCellEdit(e)
  <2>. DEFINE c2 == Append(c, e)
              n == WriteCell(live, e)
              m == Len(c)
  <2>1. AddStructural(s, e) = s /\ AddCellEdit(c, e) = c2
    BY <1>5 DEF AddStructural, AddCellEdit
  <2>2. IsList(c2) /\ Len(c2) = m + 1 /\ c2[m + 1] = e /\ \A i \in 1 .. m : c2[i] = c[i]
    BY <1>1, ListAppend
  <2>3. m \in Nat
    BY <1>1, ListDomain
  <2>4. WriteCells(base, c2) = n
    <3>. HIDE DEF c2
    <3>1. c2[Len(c2)] = e /\ \A i \in 1 .. Len(c) : c[i] = c2[i]
      BY <2>2
    <3>. QED BY <1>1, <2>2, <3>1, WritesOneMore
  <2>. HIDE DEF c2
  <2>5. e.cell \in Cells /\ isCellEdit(a)
    BY <1>4, <1>5 DEF IsLiveEdit, IsEdit, isCellEdit
  <2>6. /\ IsWorkbook(n) /\ n.sheets = live.sheets /\ n.names = live.names
        /\ n.cells[e.cell] = WrittenCell(live.cells[e.cell], e)
        /\ \A k \in Cells \ {e.cell} : n.cells[k] = live.cells[k]
    <3>. HIDE DEF live
    <3>. QED BY <1>1, <1>5, <2>5, CellShape
  <2>7. /\ IsWorkbook(q) /\ q.names = p.names /\ q.sheets = p.sheets \cup {SheetOf[e.cell]}
        /\ q.cells[e.cell] = EditedCell(p.cells[e.cell], a)
        /\ \A k \in Cells \ {e.cell} : q.cells[k] = p.cells[k]
    BY <1>1, <1>4, <2>5, SimulatedCell
  <2>8. /\ Shows(WrittenCell(live.cells[e.cell], e)) = Shows(EditedCell(p.cells[e.cell], a))
        /\ live.cells[e.cell].format = p.cells[e.cell].format /\ e.kind # "clear"
             => WrittenCell(live.cells[e.cell], e).format = EditedCell(p.cells[e.cell], a).format
    <3>. DEFINE x == live.cells[e.cell]
                y == p.cells[e.cell]
    <3>1. IsCell(x) /\ IsCell(y) /\ Shows(x) = Shows(y)
      BY <1>1, <1>3, <2>5 DEF IsWorkbook
    <3>. HIDE DEF x, y
    <3>2. /\ Shows(WrittenCell(x, e)) = Shows(EditedCell(y, a))
          /\ x.format = y.format /\ e.kind # "clear"
               => WrittenCell(x, e).format = EditedCell(y, a).format
      BY <1>5, <3>1, CellsAgree DEF a
    <3>. QED BY <3>2 DEF x, y
  <2>. HIDE DEF n, q, live, done
  <2>9. ASSUME NEW k \in Cells
        PROVE  /\ Shows(n.cells[k]) = Shows(q.cells[k])
               /\ k \notin cleared => n.cells[k].format = q.cells[k].format
    <3>1. CASE k = e.cell
      BY <1>3, <1>5, <2>5, <2>6, <2>7, <2>8, <3>1
    <3>2. CASE k # e.cell
      BY <1>3, <2>6, <2>7, <3>2
    <3>. QED BY <3>1, <3>2
  <2>10. ASSUME NEW sheet
         PROVE  sheet \in q.sheets <=>
                  sheet \in done.sheets \/ \E j \in 1 .. Len(c2) : sheet = SheetOf[c2[j].cell]
    <3>. HIDE DEF m
    <3>1. 1 .. Len(c2) = 1 .. m \cup {m + 1}
      BY <2>2, <2>3
    <3>2. (\E j \in 1 .. Len(c2) : sheet = SheetOf[c2[j].cell]) <=>
            (\E j \in 1 .. m : sheet = SheetOf[c[j].cell]) \/ sheet = SheetOf[e.cell]
      BY <2>2, <3>1
    <3>3. sheet \in p.sheets <=>
            sheet \in done.sheets \/ \E j \in 1 .. m : sheet = SheetOf[c[j].cell]
      BY <1>2 DEF m
    <3>. QED BY <2>7, <3>2, <3>3
  <2>11. q.names = done.names /\ n.sheets = base.sheets /\ n.names = base.names
    BY <1>1, <2>6, <2>7
  <2>12. PlanAgrees(base, cleared, s, c2, q)
    BY <1>1, <2>2, <2>4, <2>6, <2>7, <2>9, <2>10, <2>11 DEF PlanAgrees, done
  <2>. QED BY <2>1, <2>12 DEF q, a
<1>6. CASE ~isCellEdit(e)
  <2>. DEFINE s2 == Append(s, e)
              n == ApplyEdit(done, e)
  <2>1. AddStructural(s, e) = s2 /\ AddCellEdit(c, e) = c /\ a = e
    BY <1>4, <1>6 DEF AddStructural, AddCellEdit, isCellEdit, CellKinds
  <2>2. IsList(s2) /\ Len(s2) = Len(s) + 1 /\ s2[Len(s) + 1] = e /\ \A i \in 1 .. Len(s) : s2[i] = s[i]
    BY <1>1, ListAppend
  <2>3. ApplyEdits(OriginalWorkbook, s2) = n
    <3>. HIDE DEF s2
    <3>1. s2[Len(s2)] = e /\ \A i \in 1 .. Len(s) : s[i] = s2[i]
      BY <2>2
    <3>. QED BY <1>1, <2>2, <3>1, EditsOneMore
  <2>. HIDE DEF s2, done, live
  <2>4. IsEdit(e) /\ (e.kind = "createSheet" \/ e.kind = "defineName")
    BY <1>6 DEF IsLiveEdit, IsEdit
  <2>5. IsWorkbook(n) /\ IsWorkbook(q) /\ \A k \in Cells : q.cells[k] = p.cells[k]
    BY <1>1, <1>6, <2>1, <2>4, OneEdit
  <2>6. /\ p = [sheets |-> p.sheets, cells |-> p.cells, names |-> p.names]
        /\ done = [sheets |-> done.sheets, cells |-> done.cells, names |-> done.names]
    BY <1>1 DEF IsWorkbook
  <2>7. /\ q.names = n.names
        /\ \E some : q.sheets = p.sheets \cup some /\ n.sheets = done.sheets \cup some
    <3>1. CASE e.kind = "createSheet"
      <4>1. q = [p EXCEPT !.sheets = @ \cup {e.sheet}] /\ n = [done EXCEPT !.sheets = @ \cup {e.sheet}]
        BY <1>6, <2>1, <3>1 DEF ApplyEdit
      <4>2. /\ q.names = p.names /\ n.names = done.names
            /\ q.sheets = p.sheets \cup {e.sheet} /\ n.sheets = done.sheets \cup {e.sheet}
        BY <2>6, <4>1
      <4>. QED BY <1>1, <4>2
    <3>2. CASE e.kind = "defineName"
      <4>1. q = [p EXCEPT !.names[e.name] = e.to] /\ n = [done EXCEPT !.names[e.name] = e.to]
        BY <1>6, <2>1, <3>2 DEF ApplyEdit
      <4>2. /\ q.names = [p.names EXCEPT ![e.name] = e.to]
            /\ n.names = [done.names EXCEPT ![e.name] = e.to]
            /\ q.sheets = p.sheets \cup {} /\ n.sheets = done.sheets \cup {}
        BY <2>6, <4>1
      <4>. QED BY <1>1, <4>2
    <3>. QED BY <2>4, <3>1, <3>2
  <2>. HIDE DEF n, q
  <2>8. \A sheet : sheet \in q.sheets <=>
          sheet \in n.sheets \/ \E j \in 1 .. Len(c) : sheet = SheetOf[c[j].cell]
    BY <1>2, <2>7
  <2>9. PlanAgrees(base, cleared, s2, c, q)
    BY <1>1, <1>3, <2>2, <2>3, <2>5, <2>7, <2>8 DEF PlanAgrees, live
  <2>. QED BY <2>1, <2>9 DEF q, a
<1>. QED BY <1>5, <1>6

PlanAgreesSoFar(x, i, p) == PlanAgrees(x.base, x.cleared, x.s[i], x.c[i], p)

Foreseeing == INSTANCE LeftFolds WITH Op <- ApplyEdit, Holds <- PlanAgreesSoFar

WithStructure == ApplyEdits(OriginalWorkbook, structuralEdits)

\* The structural edits leave the cells alone.
LEMMA StructureFirst ==
  ASSUME ChangeSetInv
  PROVE  LET w == WithStructure
         IN  IsWorkbook(w) /\ \A c \in Cells : w.cells[c] = OriginalWorkbook.cells[c]
<1>1. /\ IsList(structuralEdits)
      /\ \A k \in 1 .. Len(structuralEdits) : ~isCellEdit(structuralEdits[k]) /\ IsLiveEdit(structuralEdits[k])
  BY Structure
<1>2. DOMAIN structuralEdits = 1 .. Len(structuralEdits)
  BY <1>1, ListDomain
<1>3. IsEditList(structuralEdits) /\ Touched(structuralEdits) = {}
  BY <1>1, <1>2 DEF IsEditList, IsLiveEdit, Touched
<1>. QED BY <1>3, EditsApplied, WorkbookAssumption DEF WithStructure

LEMMA PlanStarts ==
  ASSUME ChangeSetInv
  PROVE  PlanAgrees(WithStructure, Cleared, <<>>, <<>>, OriginalWorkbook)
<1>. DEFINE w == WithStructure
<1>1. IsWorkbook(w) /\ \A c \in Cells : w.cells[c] = OriginalWorkbook.cells[c]
  BY StructureFirst
<1>2. ApplyEdits(OriginalWorkbook, <<>>) = OriginalWorkbook
  BY EditsNone
<1>3. WriteCells(w, <<>>) = w
  BY WritesNone
<1>. HIDE DEF w
<1>4. IsList(<<>>) /\ 1 .. Len(<<>>) = {}
  <2>1. Len(<<>>) = 0
    OBVIOUS
  <2>2. <<>> \in Seq({})
    OBVIOUS
  <2>3. IsList(<<>>)
    BY <2>2, SeqIsList
  <2>. QED BY <2>1, <2>3
<1>5. IsWorkbook(OriginalWorkbook)
  BY WorkbookAssumption
<1>. QED BY <1>1, <1>2, <1>3, <1>4, <1>5 DEF PlanAgrees, w

LEMMA PlansAgree ==
  ASSUME NEW edits, IsList(edits), NEW base, NEW cleared,
         PlanAgrees(base, cleared, <<>>, <<>>, OriginalWorkbook),
         \A i \in DOMAIN edits :
           IsLiveEdit(edits[i]) /\ (edits[i].kind = "clear" => edits[i].cell \in cleared)
  PROVE  PlanAgrees(base, cleared, FoldLeft(AddStructural, <<>>, edits),
                    FoldLeft(AddCellEdit, <<>>, edits),
                    ApplyEdits(OriginalWorkbook, [i \in DOMAIN edits |-> AsStored(edits[i])]))
<1>. DEFINE stored == [i \in DOMAIN edits |-> AsStored(edits[i])]
            n == Len(edits)
<1>1. n \in Nat /\ DOMAIN edits = 1 .. n /\ DOMAIN stored = 1 .. n
  BY ListDomain
<1>2. \A i \in 1 .. n : stored[i] = AsStored(edits[i])
  BY <1>1
<1>. HIDE DEF n, stored
<1>3. PICK s : Splitting!IsTrace(s, <<>>, edits, n) /\ Splitting!Folded(<<>>, edits) = s[n]
  BY <1>1, Splitting!FoldHasTrace
<1>4. PICK c : Filtering!IsTrace(c, <<>>, edits, n) /\ Filtering!Folded(<<>>, edits) = c[n]
  BY <1>1, Filtering!FoldHasTrace
<1>5. s[0] = <<>> /\ \A i \in 1 .. n : s[i] = AddStructural(s[i - 1], edits[i])
  BY <1>3 DEF Splitting!IsTrace
<1>6. c[0] = <<>> /\ \A i \in 1 .. n : c[i] = AddCellEdit(c[i - 1], edits[i])
  BY <1>4 DEF Filtering!IsTrace
<1>7. Splitting!Folded(<<>>, edits) = FoldLeft(AddStructural, <<>>, edits)
  BY DEF Splitting!Folded, FoldLeft, Splitting!FoldLeft, MapThenFoldSet,
     Splitting!MapThenFoldSet, Max, Splitting!Max
<1>8. Filtering!Folded(<<>>, edits) = FoldLeft(AddCellEdit, <<>>, edits)
  BY DEF Filtering!Folded, FoldLeft, Filtering!FoldLeft, MapThenFoldSet,
     Filtering!MapThenFoldSet, Max, Filtering!Max
<1>. DEFINE x == [base |-> base, cleared |-> cleared, s |-> s, c |-> c]
<1>9. x.base = base /\ x.cleared = cleared /\ x.s = s /\ x.c = c
  OBVIOUS
<1>. HIDE DEF x
<1>10. PlanAgreesSoFar(x, 0, OriginalWorkbook)
  BY <1>5, <1>6, <1>9 DEF PlanAgreesSoFar
<1>11. ASSUME NEW i \in 1 .. n, NEW p, PlanAgreesSoFar(x, i - 1, p)
       PROVE  PlanAgreesSoFar(x, i, ApplyEdit(p, stored[i]))
  <2>1. PlanAgrees(base, cleared, s[i - 1], c[i - 1], p)
    BY <1>9, <1>11 DEF PlanAgreesSoFar
  <2>2. IsLiveEdit(edits[i]) /\ (edits[i].kind = "clear" => edits[i].cell \in cleared)
    BY <1>1
  <2>3. PlanAgrees(base, cleared, AddStructural(s[i - 1], edits[i]),
                   AddCellEdit(c[i - 1], edits[i]), ApplyEdit(p, AsStored(edits[i])))
    BY <2>1, <2>2, PlanGoesOn
  <2>. QED BY <1>2, <1>5, <1>6, <1>9, <2>3 DEF PlanAgreesSoFar
<1>12. PlanAgreesSoFar(x, n, Foreseeing!Folded(OriginalWorkbook, stored))
  BY <1>1, <1>10, <1>11, Foreseeing!FoldInvariant
<1>13. Foreseeing!Folded(OriginalWorkbook, stored) = ApplyEdits(OriginalWorkbook, stored)
  BY DEF Foreseeing!Folded, ApplyEdits, FoldLeft, Foreseeing!FoldLeft, MapThenFoldSet,
     Foreseeing!MapThenFoldSet, Max, Foreseeing!Max
<1>. QED BY <1>3, <1>4, <1>7, <1>8, <1>9, <1>12, <1>13 DEF PlanAgreesSoFar, stored

\* What the live writer means to write is what the simulator makes of the edits.
LEMMA PlannedShows ==
  ASSUME ChangeSetInv
  PROVE  PlanAgrees(WithStructure, Cleared, structuralEdits, cellEdits, Planned)
<1>1. IsList(cs.edits) /\ \A i \in DOMAIN cs.edits : IsLiveEdit(cs.edits[i])
  BY EmittedLists DEF ChangeSetInv, IsEditList
<1>2. \A i \in DOMAIN cs.edits : cs.edits[i].kind = "clear" => cs.edits[i].cell \in Cleared
  BY DEF Cleared
<1>3. PlanAgrees(WithStructure, Cleared, <<>>, <<>>, OriginalWorkbook)
  BY PlanStarts
<1>. HIDE DEF Cleared, WithStructure
<1>4. \A i \in DOMAIN cs.edits :
        IsLiveEdit(cs.edits[i]) /\ (cs.edits[i].kind = "clear" => cs.edits[i].cell \in Cleared)
  BY <1>1, <1>2
<1>. QED BY <1>1, <1>3, <1>4, PlansAgree DEF Planned, structuralEdits, cellEdits

\* How far the change set has been applied.
Done(s, i, c, j) == WriteCells(ApplyEdits(OriginalWorkbook, SubSeq(s, 1, i)), SubSeq(c, 1, j))

AheadPhases == {"writing", "captureProbe", "captureRead", "applied", "rollbackRead"}

AsFarAs ==
  /\ wb = Done(structuralEdits, Len(landed), cellEdits, written)
  /\ Len(landed) < Len(structuralEdits) => written = 0
  /\ \A i \in 1 .. written : SheetOf[cellEdits[i].cell] \in wb.sheets

ProgressInv ==
  humanEdits = 0 =>
    /\ pc \in {"driftProbe", "driftRead"} => wb = OriginalWorkbook /\ landed = <<>> /\ written = 0
    /\ pc \in AheadPhases => AsFarAs
    /\ pc \in AheadPhases \ {"writing"} =>
         Len(landed) = Len(structuralEdits) /\ written = Len(cellEdits)

\* Which call a sync belongs to, and what it reported so far.
CallInv ==
  /\ pc \in {"driftProbe", "driftRead"} \cup WritePhases => outcome = None
  /\ pc \in {"applied", "rollbackRead", "rollbackRestore"} => outcome = "applied"
  /\ pc \in {"undo", "undoAct"} => outcome = IF force THEN None ELSE "applied"
  /\ pc \notin {"undo", "undoAct", "done"} => unreversed = {}
  /\ pc = "done" => outcome \notin {None, "applied"}

LEMMA CallInit ==
  ASSUME Init
  PROVE  CallInv
  BY NoneAssumption DEF Init, CallInv, WritePhases

LEMMA CallNext ==
  ASSUME UndoInv, CallInv, [Next]_vars
  PROVE  CallInv'
<1>. USE DEF CallInv, WritePhases
<1>1. CASE UNCHANGED vars
  BY <1>1 DEF vars, undoing
<1>2. CASE People
  BY <1>2 DEF People, Human, undoing
<1>3. CASE ProbeDrift \/ ReadDrift \/ DriftCheckThrows
  BY <1>3, NoneAssumption DEF ProbeDrift, ReadDrift, DriftCheckThrows, Probe, Ends, undoing
<1>4. CASE StructuralLands \/ StructuralFails \/ Calculate \/ CalculateFails
  BY <1>4 DEF StructuralLands, StructuralFails, Calculate, CalculateFails, undoing
<1>5. CASE BatchLands \/ \E n \in 0 .. BatchSize : BatchFails(n)
  BY <1>5 DEF BatchLands, BatchFails, AtCells, undoing
<1>6. CASE ProbeCapture \/ ReadCapture \/ CaptureFails \/ ProbeRollback
  BY <1>6 DEF ProbeCapture, ReadCapture, CaptureFails, ProbeRollback, Probe, undoing
<1>7. CASE Restore
  <2>1. pc = "restore" /\ force' = TRUE /\ unreversed' = unreversed
        /\ UndoNext(Reverse(landed), "recovered")
    BY <1>7 DEF Restore
  <2>. QED BY <2>1, NoneAssumption DEF UndoNext, Ends
<1>8. CASE \E some \in SUBSET touched : RestoreFails(some) \/ RollbackThrows(some)
  BY <1>8, NoneAssumption DEF RestoreFails, RollbackThrows, Ends, undoing
<1>9. CASE ReadRollback
  <2>1. pc = "rollbackRead" /\ UNCHANGED <<force, unreversed>> /\ force = FALSE
    BY <1>9 DEF ReadRollback, UndoInv
  <2>2. \/ pc' = "rollbackRestore" /\ outcome' = outcome
        \/ UndoNext(Reverse(cs.compensation), "rolled-back")
    BY <1>9 DEF ReadRollback
  <2>. QED BY <2>1, <2>2, NoneAssumption DEF UndoNext, Ends
<1>10. CASE RestoreRollback
  <2>1. pc = "rollbackRestore" /\ UNCHANGED <<force, unreversed>> /\ force = FALSE
        /\ UndoNext(Reverse(cs.compensation), "rolled-back")
    BY <1>10 DEF RestoreRollback, UndoInv
  <2>. QED BY <2>1, NoneAssumption DEF UndoNext, Ends
<1>11. CASE UndoLooks
  BY <1>11 DEF UndoLooks
<1>12. CASE UndoRefuses \/ UndoActs \/ UndoFails
  <2>1. pc \in {"undo", "undoAct"} /\ force' = force /\ UndoNext(Tail(undo), UndoEnd)
    BY <1>12 DEF UndoRefuses, UndoActs, UndoFails
  <2>. QED BY <2>1, NoneAssumption DEF UndoNext, Ends, UndoEnd
<1>13. {} \in SUBSET touched
  OBVIOUS
<1>. QED BY <1>1, <1>2, <1>3, <1>4, <1>5, <1>6, <1>7, <1>8, <1>9, <1>10, <1>11, <1>12, <1>13
         DEF Next, Writer, Apply, RollBack, UndoStructural, People

LEMMA NothingDone ==
  ASSUME NEW s, IsList(s), NEW c, IsList(c)
  PROVE  Done(s, 0, c, 0) = OriginalWorkbook
<1>1. SubSeq(s, 1, 0) = <<>> /\ SubSeq(c, 1, 0) = <<>>
  <2>1. ASSUME NEW t, IsList(t) PROVE SubSeq(t, 1, 0) = <<>>
    <3>1. Len(t) \in Nat /\ 0 \in 0 .. Len(t)
      BY <2>1 DEF IsList
    <3>. QED BY <2>1, <3>1, Prefix
  <2>. QED BY <2>1
<1>. QED BY <1>1, EditsNone, WritesNone DEF Done

LEMMA ProgressInit ==
  ASSUME Init
  PROVE  ProgressInv
  BY DEF Init, ProgressInv, AheadPhases

\* One structural edit more, before the first cell.
LEMMA StructureProgress ==
  ASSUME TypeInv, AsFarAs, StructuralLands
  PROVE  AsFarAs'
<1>. DEFINE S == structuralEdits
            C == cellEdits
            n == Len(landed)
            e == NextStructural
<1>1. /\ ChangeSetInv /\ LiveBook(wb) /\ IsList(landed) /\ IsList(S) /\ IsList(C)
      /\ n \in Nat /\ Len(S) \in Nat
  BY Structure, CellEdits, ListDomain DEF TypeInv, LandedInv
<1>2. /\ n < Len(S) /\ e = S[n + 1] /\ wb' = ApplyEdit(wb, e)
      /\ landed' = Append(landed, cs.compensation[n + 1]) /\ written' = written /\ cs' = cs
  BY DEF StructuralLands, NextStructural
<1>3. S' = S /\ C' = C
  BY <1>2 DEF structuralEdits, cellEdits
<1>4. Len(landed') = n + 1
  BY <1>1, <1>2, ListAppend
<1>5. written = 0 /\ wb = Done(S, n, C, 0)
  BY <1>2 DEF AsFarAs
<1>. HIDE DEF S, C, n, e
<1>6. \A w : WriteCells(w, SubSeq(C, 1, 0)) = w
  <2>. TAKE w
  <2>1. SubSeq(C, 1, 0) = <<>>
    BY <1>1, Prefix, ListDomain
  <2>. QED BY <2>1, WritesNone
<1>7. ApplyEdits(OriginalWorkbook, SubSeq(S, 1, n + 1))
        = ApplyEdit(ApplyEdits(OriginalWorkbook, SubSeq(S, 1, n)), e)
  <2>. DEFINE s == SubSeq(S, 1, n)
              t == SubSeq(S, 1, n + 1)
  <2>1. n \in 0 .. Len(S) /\ n + 1 \in 0 .. Len(S) /\ n + 1 \in 1 .. (n + 1)
        /\ \A i \in 1 .. n : i \in 1 .. (n + 1)
    BY <1>1, <1>2
  <2>2. IsList(s) /\ Len(s) = n /\ \A i \in 1 .. n : s[i] = S[i]
    BY <1>1, <2>1, Prefix
  <2>3. IsList(t) /\ Len(t) = n + 1 /\ \A i \in 1 .. (n + 1) : t[i] = S[i]
    BY <1>1, <2>1, Prefix
  <2>. HIDE DEF s, t
  <2>4. \A i \in 1 .. Len(s) : s[i] = t[i]
    BY <2>1, <2>2, <2>3
  <2>5. t[Len(t)] = e
    BY <1>2, <2>1, <2>3
  <2>6. Len(t) = Len(s) + 1
    BY <2>2, <2>3
  <2>7. ApplyEdits(OriginalWorkbook, t) = ApplyEdit(ApplyEdits(OriginalWorkbook, s), t[Len(t)])
    BY <2>2, <2>3, <2>4, <2>6, EditsOneMore
  <2>. QED BY <2>5, <2>7 DEF s, t
<1>8. wb' = Done(S, n + 1, C, 0)
  BY <1>2, <1>5, <1>6, <1>7 DEF Done
<1>9. 1 .. 0 = {}
  OBVIOUS
<1>. QED BY <1>2, <1>3, <1>4, <1>5, <1>8, <1>9 DEF AsFarAs, S, C

\* One batch more.
LEMMA BatchProgress ==
  ASSUME TypeInv, AsFarAs, BatchLands
  PROVE  AsFarAs'
<1>. DEFINE S == structuralEdits
            C == cellEdits
            batch == ThisBatch
            base == ApplyEdits(OriginalWorkbook, SubSeq(S, 1, Len(landed)))
            last == Min({written + BatchSize, Len(C)})
            k == written + Len(batch)
<1>1. ChangeSetInv /\ LiveBook(wb) /\ IsList(C) /\ Len(C) \in Nat /\ written \in 0 .. Len(C)
  BY CellEdits, ListDomain DEF TypeInv, TypeOK
<1>2. /\ wb' = WriteCells(wb, batch) /\ written' = k /\ Reachable(Touched(batch))
      /\ cs' = cs /\ landed' = landed /\ Len(landed) = Len(S) /\ written < Len(C)
  BY DEF BatchLands, AtCells
<1>3. S' = S /\ C' = C
  BY <1>2 DEF structuralEdits, cellEdits
<1>4. IsCellEditList(batch) /\ Len(batch) \in Nat /\ k \in 0 .. Len(C)
  BY <1>1, <1>2, Batch
<1>5. batch = SubSeq(C, written + 1, k)
  <2>1. last \in Nat /\ written <= last /\ last <= Len(C)
    <3>1. BatchSize \in Nat
      BY WriterOptions
    <3>2. last = IF written + BatchSize <= Len(C) THEN written + BatchSize ELSE Len(C)
      BY <1>1, <3>1, MinOfTwo
    <3>. HIDE DEF last
    <3>. QED BY <1>1, <3>1, <3>2
  <2>2. batch = SubSeq(C, written + 1, last)
    BY DEF ThisBatch
  <2>. HIDE DEF last, C
  <2>3. Len(SubSeq(C, written + 1, last)) = last - written
    BY <1>1, <2>1 DEF IsList
  <2>4. last = k
    BY <1>1, <2>1, <2>2, <2>3
  <2>. QED BY <2>2, <2>4
<1>6. wb = WriteCells(base, SubSeq(C, 1, written))
      /\ \A i \in 1 .. written : SheetOf[C[i].cell] \in wb.sheets
  BY DEF AsFarAs, Done
<1>7. wb'.sheets = wb.sheets
  BY <1>1, <1>2, <1>4, BatchLanded
<1>. HIDE DEF S, C, batch, base
<1>8. written \in Nat /\ k <= Len(C)
  BY <1>1, <1>4
<1>9. WriteCells(base, SubSeq(C, 1, k)) = WriteCells(WriteCells(base, SubSeq(C, 1, written)), batch)
  <2>1. k \in Nat /\ written <= k
    BY <1>4, <1>8
  <2>. HIDE DEF k
  <2>. QED BY <1>1, <1>5, <1>8, <2>1, WritesGoOn
<1>10. ASSUME NEW i \in 1 .. k PROVE SheetOf[C[i].cell] \in wb'.sheets
  <2>1. CASE i <= written
    <3>1. i \in 1 .. written
      BY <1>8, <2>1
    <3>. QED BY <1>6, <1>7, <3>1
  <2>2. CASE i > written
    <3>. DEFINE j == i - written
    <3>1. j \in 1 .. Len(batch) /\ written + j = i
      BY <1>4, <1>8, <2>2
    <3>2. batch[j] = C[i]
      <4>1. C \in Seq(ToSet(C)) /\ Len(C) \in Nat
        BY <1>1 DEF IsList
      <4>. HIDE DEF j, k
      <4>2. \A q \in 1 .. (k - written) : SubSeq(C, written + 1, k)[q] = C[written + q]
        BY <1>8, <4>1, <1>4
      <4>3. Len(batch) = k - written
        BY <1>4, <1>8 DEF k
      <4>. QED BY <1>5, <3>1, <4>2, <4>3
    <3>. HIDE DEF j
    <3>3. j \in DOMAIN batch
      BY <1>4, <3>1, ListDomain DEF IsCellEditList
    <3>4. batch[j].cell \in Touched(batch)
      BY <1>4, <3>3 DEF Touched, IsCellEditList
    <3>5. SheetOf[batch[j].cell] \in wb.sheets
      BY <1>2, <3>4 DEF Reachable, OnSheets
    <3>. QED BY <1>7, <3>2, <3>5
  <2>. QED BY <1>8, <2>1, <2>2
<1>11. wb' = Done(S, Len(landed), C, k)
  BY <1>2, <1>6, <1>9 DEF Done, base
<1>. HIDE DEF k
<1>. QED BY <1>2, <1>3, <1>10, <1>11 DEF AsFarAs, S, C

LEMMA ProgressNext ==
  ASSUME TypeInv, ProgressInv, [Next]_vars
  PROVE  ProgressInv'
<1>1. /\ ChangeSetInv /\ IsList(structuralEdits) /\ IsList(cellEdits)
      /\ structuralEdits' = structuralEdits /\ cellEdits' = cellEdits
  BY ChangeSetStays, Structure, CellEdits DEF TypeInv
<1>2. Len(<<>>) = 0 /\ 1 .. 0 = {} /\ Len(structuralEdits) \in Nat /\ Len(cellEdits) \in Nat
  BY <1>1, ListDomain
<1>3. humanEdits \in Nat
  BY WriterBounds DEF TypeInv, TypeOK
<1>4. CASE People
  BY <1>3, <1>4, PeopleLeave DEF ProgressInv
<1>5. CASE UNCHANGED vars
  BY <1>1, <1>5 DEF vars, ProgressInv, AsFarAs
<1>6. CASE ProbeDrift
  BY <1>6 DEF ProbeDrift, Probe, ProgressInv, AheadPhases
<1>7. CASE ReadDrift
  <2>1. pc = "driftRead" /\ pc' \in {"writing", "done"} /\ UNCHANGED <<wb, landed, written, humanEdits>>
    BY <1>7 DEF ReadDrift, Ends
  <2>2. humanEdits = 0 => wb = OriginalWorkbook /\ landed = <<>> /\ written = 0
    BY <2>1 DEF ProgressInv
  <2>3. Done(structuralEdits, 0, cellEdits, 0) = OriginalWorkbook
    BY <1>1, NothingDone
  <2>4. humanEdits = 0 => AsFarAs'
    BY <1>1, <1>2, <2>1, <2>2, <2>3 DEF AsFarAs
  <2>. QED BY <2>1, <2>4 DEF ProgressInv, AheadPhases
<1>8. CASE StructuralLands
  <2>1. pc = "writing" /\ pc' = "writing" /\ humanEdits' = humanEdits
    BY <1>8 DEF StructuralLands
  <2>2. humanEdits = 0 => AsFarAs
    BY <2>1 DEF ProgressInv, AheadPhases
  <2>3. humanEdits = 0 => AsFarAs'
    BY <1>8, <2>2, StructureProgress
  <2>. QED BY <2>1, <2>3 DEF ProgressInv, AheadPhases
<1>9. CASE BatchLands
  <2>1. pc = "writing" /\ pc' = "writing" /\ humanEdits' = humanEdits
    BY <1>9 DEF BatchLands, AtCells
  <2>2. humanEdits = 0 => AsFarAs
    BY <2>1 DEF ProgressInv, AheadPhases
  <2>3. humanEdits = 0 => AsFarAs'
    BY <1>9, <2>2, BatchProgress
  <2>. QED BY <2>1, <2>3 DEF ProgressInv, AheadPhases
<1>10. CASE Calculate \/ ProbeCapture \/ ReadCapture \/ ProbeRollback
  <2>1. /\ pc \in {"writing", "captureProbe", "captureRead", "applied"}
        /\ pc' \in {"captureProbe", "captureRead", "applied", "rollbackRead"}
        /\ pc = "writing" => Len(landed) = Len(structuralEdits) /\ written = Len(cellEdits)
        /\ UNCHANGED <<wb, landed, written, humanEdits>>
    BY <1>10 DEF Calculate, ProbeCapture, ReadCapture, ProbeRollback, Probe
  <2>2. humanEdits = 0 => AsFarAs /\ Len(landed) = Len(structuralEdits) /\ written = Len(cellEdits)
    BY <2>1 DEF ProgressInv, AheadPhases
  <2>3. humanEdits = 0 => AsFarAs'
    BY <1>1, <2>1, <2>2 DEF AsFarAs
  <2>. QED BY <1>1, <2>1, <2>2, <2>3 DEF ProgressInv, AheadPhases
<1>11. CASE pc' \notin AheadPhases \cup {"driftProbe", "driftRead"}
  BY <1>11 DEF ProgressInv, AheadPhases
<1>. QED BY <1>4, <1>5, <1>6, <1>7, <1>8, <1>9, <1>10, <1>11 DEF Next, Writer, Apply, RollBack,
     UndoStructural, DriftCheckThrows, StructuralFails, BatchFails, CalculateFails, CaptureFails,
     Restore, RestoreFails, ReadRollback, RestoreRollback, RollbackThrows, UndoLooks, UndoRefuses,
     UndoActs, UndoFails, UndoNext, Ends, People, AheadPhases

\* When all of it is written, the workbook shows what the simulator makes of it.
LEMMA AllWritten ==
  ASSUME ChangeSetInv, AsFarAs, Len(landed) = Len(structuralEdits), written = Len(cellEdits)
  PROVE  /\ View(wb) = View(Planned)
         /\ \A c \in Cells \ Cleared : wb.cells[c].format = Planned.cells[c].format
<1>. DEFINE S == structuralEdits
            C == cellEdits
            base == WithStructure
<1>1. IsList(S) /\ IsList(C) /\ Len(S) \in Nat /\ Len(C) \in Nat
  BY Structure, CellEdits, ListDomain
<1>2. /\ wb = Done(S, Len(S), C, Len(C))
      /\ \A i \in 1 .. Len(C) : SheetOf[C[i].cell] \in wb.sheets
  BY DEF AsFarAs
<1>3. PlanAgrees(base, Cleared, S, C, Planned) /\ base = ApplyEdits(OriginalWorkbook, S)
  BY PlannedShows DEF WithStructure
<1>. HIDE DEF S, C, base
<1>4. SubSeq(S, 1, Len(S)) = S /\ SubSeq(C, 1, Len(C)) = C
  <2>1. Len(S) \in 0 .. Len(S) /\ Len(C) \in 0 .. Len(C)
    BY <1>1
  <2>2. SubSeq(S, 1, Len(S)) = S
    BY <1>1, <2>1, Prefix
  <2>3. SubSeq(C, 1, Len(C)) = C
    BY <1>1, <2>1, Prefix
  <2>. QED BY <2>2, <2>3
<1>5. wb = WriteCells(base, C)
  BY <1>2, <1>3, <1>4 DEF Done
<1>6. wb.sheets = base.sheets /\ wb.names = base.names /\ Planned.names = base.names
  BY <1>3, <1>5 DEF PlanAgrees
<1>7. \A sheet : sheet \in Planned.sheets <=>
        sheet \in base.sheets \/ \E j \in 1 .. Len(C) : sheet = SheetOf[C[j].cell]
  BY <1>3 DEF PlanAgrees
<1>8. Planned.sheets = wb.sheets
  <2>1. \A sheet : sheet \in Planned.sheets <=> sheet \in wb.sheets
    BY <1>2, <1>6, <1>7
  <2>2. IsWorkbook(Planned) /\ IsWorkbook(wb)
    BY <1>3, <1>5 DEF PlanAgrees
  <2>. QED BY <2>1
<1>9. \A c \in Cells : /\ Shows(wb.cells[c]) = Shows(Planned.cells[c])
                       /\ c \notin Cleared => wb.cells[c].format = Planned.cells[c].format
  BY <1>3, <1>5 DEF PlanAgrees
<1>. HIDE DEF Planned
<1>10. [c \in Cells |-> Shows(wb.cells[c])] = [c \in Cells |-> Shows(Planned.cells[c])]
  BY <1>9
<1>. QED BY <1>6, <1>8, <1>9, <1>10 DEF View

LEMMA ProgressAlways == Spec => [](TypeInv /\ ProgressInv)
<1>. DEFINE Inv == TypeInv /\ ProgressInv
<1>1. Init => Inv
  BY TypeInit, ProgressInit
<1>2. Inv /\ [Next]_vars => Inv'
  BY TypeNext, ProgressNext
<1>. QED BY <1>1, <1>2, PTL DEF Spec

\* An apply that says it succeeded, with nobody else at work, left what the
\* simulator makes of the same edits in the order they were given: every formula,
\* value, sheet and name, and the number formats of all cells it did not clear;
\* though the live writer does the structural edits first and writes the cells
\* batch by batch, as Excel stores them (LiveWriter.AppliedAsPlanned).
THEOREM LiveApplyIsTheSimulators == Spec => []AppliedAsPlanned
<1>1. ASSUME TypeInv, ProgressInv PROVE AppliedAsPlanned
  <2>. SUFFICES ASSUME outcome = "applied", pc \in {"applied", "rollbackRead"}, humanEdits = 0
                PROVE  /\ View(wb) = View(Planned)
                       /\ \A c \in Cells \ Cleared : wb.cells[c].format = Planned.cells[c].format
    BY DEF AppliedAsPlanned
  <2>1. AsFarAs /\ Len(landed) = Len(structuralEdits) /\ written = Len(cellEdits)
    BY <1>1 DEF ProgressInv, AheadPhases
  <2>. QED BY <1>1, <2>1, AllWritten DEF TypeInv
<1>. QED BY <1>1, ProgressAlways, PTL

-----------------------------------------------------------------------------
(* The live host keeps what the interface promises.                          *)

\* What the workbook shows at rest, and what a finished call left.
HostInv ==
  humanEdits = 0 =>
    /\ pc # "done" => outcome \in {None, "applied"}
    /\ pc # "done" /\ outcome = None => AtRest = View(OriginalWorkbook)
    /\ pc # "done" /\ outcome = "applied" => AtRest = View(Planned)
    /\ Finished => View(wb).cells = View(OriginalWorkbook).cells /\ StructureBack

LEMMA HostHolds ==
  ASSUME TypeInv, CallInv, ExactInv, ProgressInv
  PROVE  HostInv
<1>. SUFFICES ASSUME humanEdits = 0
              PROVE  /\ pc # "done" => outcome \in {None, "applied"}
                     /\ pc # "done" /\ outcome = None => AtRest = View(OriginalWorkbook)
                     /\ pc # "done" /\ outcome = "applied" => AtRest = View(Planned)
                     /\ Finished => View(wb).cells = View(OriginalWorkbook).cells /\ StructureBack
  BY DEF HostInv
<1>1. pc # "done" => outcome \in {None, "applied"}
  BY DEF CallInv, TypeInv, TypeOK, WritePhases
<1>2. ASSUME pc # "done", outcome = None
      PROVE  AtRest = View(OriginalWorkbook)
  <2>1. pc # "applied"
    BY <1>2, NoneAssumption DEF CallInv
  <2>2. pc = "driftProbe" => wb = OriginalWorkbook
    BY DEF ProgressInv
  <2>. QED BY <1>2, <2>1, <2>2, NoneAssumption DEF AtRest
<1>3. ASSUME pc # "done", outcome = "applied"
      PROVE  AtRest = View(Planned)
  <2>1. pc # "driftProbe"
    BY <1>3, NoneAssumption DEF CallInv
  <2>2. CASE pc = "applied"
    <3>1. AsFarAs /\ Len(landed) = Len(structuralEdits) /\ written = Len(cellEdits)
      BY <2>2 DEF ProgressInv, AheadPhases
    <3>2. View(wb) = View(Planned)
      BY <3>1, AllWritten DEF TypeInv
    <3>. QED BY <2>2, <3>2 DEF AtRest
  <2>3. CASE pc # "applied"
    BY <1>3, <2>1, <2>3 DEF AtRest
  <2>. QED BY <2>2, <2>3
<1>4. ASSUME Finished
      PROVE  View(wb).cells = View(OriginalWorkbook).cells /\ StructureBack
  <2>1. (\A c \in Cells : Back(c, wb.cells[c])) /\ StructureBack
    BY <1>4, ExactEnd
  <2>2. \A c \in Cells : Shows(wb.cells[c]) = Shows(OriginalWorkbook.cells[c])
    BY <2>1 DEF Back, content, Shows
  <2>3. [c \in Cells |-> Shows(wb.cells[c])] = [c \in Cells |-> Shows(OriginalWorkbook.cells[c])]
    BY <2>2
  <2>. QED BY <2>1, <2>3 DEF View
<1>. QED BY <1>1, <1>2, <1>3, <1>4

\* How a call goes on, and how it ends.
LEMMA CallGoesOn ==
  ASSUME UndoInv, CallInv, [Next]_vars, ~People, pc # "done", pc' # "done"
  PROVE  outcome' = outcome \/ (outcome = None /\ outcome' = "applied")
  BY DEF CallInv, WritePhases, Next, Writer, Apply, RollBack, UndoStructural, ProbeDrift, ReadDrift,
     DriftCheckThrows, StructuralLands, StructuralFails, BatchLands, BatchFails,
     Calculate, CalculateFails, ProbeCapture, ReadCapture, CaptureFails, Restore, RestoreFails,
     ReadRollback, RestoreRollback, RollbackThrows, UndoLooks, UndoRefuses, UndoActs, UndoFails,
     ProbeRollback, Probe, UndoNext, Ends, People, vars

CallEnds ==
  \/ /\ outcome = None /\ outcome' \in {"refused", "threw"}
     /\ pc \in {"driftProbe", "driftRead"} /\ UNCHANGED <<wb, unreversed>>
  \/ outcome = None /\ outcome' \in {"recovered", "restore-failed"}
  \/ outcome = "applied" /\ outcome' \in {"rolled-back", "rollback-threw"}

LEMMA CallFinishes ==
  ASSUME UndoInv, CallInv, [Next]_vars, ~People, pc # "done", pc' = "done"
  PROVE  CallEnds
<1>. USE DEF CallInv, WritePhases, CallEnds
<1>1. CASE ReadDrift \/ DriftCheckThrows
  BY <1>1 DEF ReadDrift, DriftCheckThrows, Ends, undoing
<1>2. CASE Restore
  BY <1>2 DEF Restore, UndoNext, Ends
<1>3. CASE \E some \in SUBSET touched : RestoreFails(some) \/ RollbackThrows(some)
  BY <1>3 DEF RestoreFails, RollbackThrows, Ends
<1>4. CASE ReadRollback \/ RestoreRollback
  BY <1>4 DEF ReadRollback, RestoreRollback, UndoNext, Ends
<1>5. CASE UndoRefuses \/ UndoActs \/ UndoFails
  <2>1. pc \in {"undo", "undoAct"} /\ outcome' = UndoEnd
    BY <1>5 DEF UndoRefuses, UndoActs, UndoFails, UndoNext, Ends
  <2>. QED BY <2>1 DEF UndoEnd, UndoInv
<1>6. {} \in SUBSET touched
  OBVIOUS
<1>. QED BY <1>1, <1>2, <1>3, <1>4, <1>5, <1>6 DEF Next, Writer, Apply, RollBack, UndoStructural,
     ProbeDrift, StructuralLands, StructuralFails, BatchLands, BatchFails, AtCells, Calculate,
     CalculateFails, ProbeCapture, ReadCapture, CaptureFails, UndoLooks, ProbeRollback, Probe,
     People, vars

LEMMA HumanEditsCount ==
  ASSUME [Next]_vars
  PROVE  humanEdits' = humanEdits \/ People
  BY DEF Next, Writer, Apply, RollBack, UndoStructural, ProbeDrift, ReadDrift, DriftCheckThrows,
     StructuralLands, StructuralFails, BatchLands, BatchFails, Calculate, CalculateFails,
     ProbeCapture, ReadCapture, CaptureFails, Restore, RestoreFails, ReadRollback, RestoreRollback,
     RollbackThrows, UndoLooks, UndoRefuses, UndoActs, UndoFails, ProbeRollback, People, vars

LEMMA HostStarts ==
  ASSUME Init
  PROVE  Host!Init
  BY DEF Init, Host!Init, AtRest

LEMMA HostStep ==
  ASSUME TypeInv, CallInv, ProgressInv, HostInv, HostInv', [Next]_vars
  PROVE  [Host!Next]_Host!vars
<1>. DEFINE plan == View(Planned)
            before == View(OriginalWorkbook)
            reported == IF pc = "done" THEN unreversed ELSE {}
<1>1. plan' = plan
  <2>1. cs'.edits = cs.edits
    BY ChangeSetStays DEF TypeInv
  <2>. QED BY <2>1 DEF Planned
<1>2. before' = before
  OBVIOUS
<1>3. humanEdits \in Nat /\ humanEdits' \in Nat
  <2>1. humanEdits \in Nat
    BY WriterBounds DEF TypeInv, TypeOK
  <2>2. humanEdits' = humanEdits \/ People
    BY HumanEditsCount
  <2>. QED BY <2>1, <2>2, PeopleLeave
<1>. HIDE DEF plan, before
<1>4. CASE humanEdits' # 0
  <2>1. (humanEdits > 0)' = TRUE
    BY <1>3, <1>4
  <2>. QED BY <1>1, <2>1 DEF plan, Host!Next, Host!Disturb
<1>5. CASE humanEdits' = 0
  <2>1. ~People /\ humanEdits = 0
    <3>1. ~People
      BY <1>3, <1>5, PeopleLeave
    <3>. QED BY <1>5, <3>1, HumanEditsCount
  <2>2. (humanEdits > 0)' = (humanEdits > 0)
    BY <1>5, <2>1
  <2>3. UndoInv
    BY DEF TypeInv
  <2>4. CASE pc = "done"
    <3>1. UNCHANGED vars
      BY <2>1, <2>4, OthersStay
    <3>2. AtRest' = AtRest /\ reported' = reported /\ outcome' = outcome
      BY <3>1 DEF vars, undoing, AtRest, Planned
    <3>. QED BY <1>1, <2>2, <3>2 DEF Host!vars, plan
  <2>5. CASE pc # "done" /\ pc' # "done"
    <3>1. reported' = reported
      BY <2>5
    <3>2. outcome' = outcome \/ (outcome = None /\ outcome' = "applied")
      BY <2>1, <2>3, <2>5, CallGoesOn
    <3>3. /\ outcome \in {None, "applied"}
          /\ outcome = None => AtRest = before
          /\ outcome = "applied" => AtRest = plan
      BY <2>1, <2>5 DEF HostInv, before, plan
    <3>4. /\ outcome' = None => AtRest' = before
          /\ outcome' = "applied" => AtRest' = plan
      BY <1>1, <1>2, <1>5, <2>5 DEF HostInv, before, plan
    <3>. HIDE DEF reported
    <3>5. CASE outcome' = outcome
      <4>1. AtRest' = AtRest
        BY <3>3, <3>4, <3>5
      <4>. QED BY <1>1, <2>2, <3>1, <3>5, <4>1 DEF Host!vars, plan, reported
    <3>6. CASE outcome = None /\ outcome' = "applied"
      <4>1. AtRest' = plan
        BY <3>4, <3>6
      <4>2. Host!apply
        BY <3>1, <3>6, <4>1 DEF Host!apply, Host!Ends, plan, reported
      <4>. QED BY <1>1, <2>2, <4>2 DEF Host!Next, Host!Call, plan
    <3>. QED BY <3>2, <3>5, <3>6
  <2>6. CASE pc # "done" /\ pc' = "done"
    <3>1. CallEnds
      BY <2>1, <2>3, <2>6, CallFinishes
    <3>2. reported = {} \/ pc \in {"undo", "undoAct"}
      BY <2>6 DEF CallInv
    <3>3. reported' = unreversed' /\ AtRest' = View(wb)'
      BY <2>6 DEF AtRest
    <3>4. outcome = None => AtRest = before
      BY <2>1, <2>6 DEF HostInv, before
    <3>5. Finished' => View(wb)'.cells = before.cells /\ StructureBack'
      BY <1>2, <1>5 DEF HostInv, before
    <3>6. ASSUME outcome = None, outcome' \in {"refused", "threw"}, pc \in {"driftProbe", "driftRead"},
                 UNCHANGED <<wb, unreversed>>
          PROVE  Host!Refuse \/ Host!Throw
      <4>1. unreversed = {} /\ wb = OriginalWorkbook
        BY <2>1, <3>6 DEF CallInv, ProgressInv
      <4>2. AtRest' = before
        BY <3>3, <3>6, <4>1 DEF before, View
      <4>3. reported' = reported
        BY <2>6, <3>3, <3>6, <4>1
      <4>. QED BY <3>4, <3>6, <4>2, <4>3 DEF Host!Refuse, Host!Throw, Host!Ends, reported
    <3>7. ASSUME Finished' PROVE Host!PutBack
      <4>1. AtRest'.cells = before.cells /\ StructureBack'
        BY <3>3, <3>5, <3>7
      <4>2. AtRest'.sheets = wb'.sheets /\ AtRest'.names = wb'.names
        BY <3>3 DEF View
      <4>3. before.sheets = OriginalWorkbook.sheets /\ before.names = OriginalWorkbook.names
        BY DEF before, View
      <4>4. /\ before.sheets \subseteq AtRest'.sheets
            /\ \A s \in AtRest'.sheets \ before.sheets :
                 \E op \in reported' : op.kind = "deleteSheet" /\ op.sheet = s
        BY <3>3, <4>1, <4>2, <4>3 DEF StructureBack
      <4>5. \A n \in DOMAIN before.names :
              \/ AtRest'.names[n] = before.names[n]
              \/ \E op \in reported' : op.kind \in {"deleteName", "restoreName"} /\ op.name = n
        BY <3>3, <4>1, <4>2, <4>3 DEF StructureBack
      <4>. QED BY <4>1, <4>4, <4>5 DEF Host!PutBack, before, reported
    <3>8. Host!Call
      BY <3>1, <3>6, <3>7 DEF CallEnds, Finished, Host!Call, Host!Recover, Host!rollback, Host!Break,
         Host!Ends
    <3>. QED BY <1>1, <2>2, <3>8 DEF Host!Next, plan
  <2>. QED BY <2>4, <2>5, <2>6
<1>. QED BY <1>4, <1>5

\* The many syncs of the live host keep the promise of the interface it shares
\* with the simulator host: seen between its calls, with nobody else at work, an
\* apply does all of it, or nothing, or takes back what it did but for the inverses
\* it reports, and so does a rollback; or the call throws, which is the only way it
\* may leave the workbook half-changed (LiveWriter.ImplementsHost).
THEOREM LiveHostImplementsHost == Spec => ImplementsHost
<1>. DEFINE Inv == TypeInv /\ ConflictInv /\ CallInv /\ ExactInv /\ ProgressInv
<1>1. Init => Inv
  BY TypeInit, ConflictInit, CallInit, ExactInit, ProgressInit
<1>2. Inv /\ [Next]_vars => Inv'
  <2>. SUFFICES ASSUME Inv, [Next]_vars PROVE Inv'
    OBVIOUS
  <2>1. TypeInv' /\ ConflictInv' /\ ExactInv' /\ ProgressInv'
    BY TypeNext, ConflictNext, ExactNext, ProgressNext
  <2>2. CallInv'
    BY CallNext DEF TypeInv
  <2>. QED BY <2>1, <2>2
<1>3. Inv => HostInv
  BY HostHolds
<1>4. Inv /\ HostInv /\ HostInv' /\ [Next]_vars => [Host!Next]_Host!vars
  BY HostStep
<1>5. Init => Host!Init
  BY HostStarts
<1>. QED BY <1>1, <1>2, <1>3, <1>4, <1>5, PTL DEF Spec, ImplementsHost, Host!Spec
=============================================================================
