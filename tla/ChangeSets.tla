------------------------------ MODULE ChangeSets ------------------------------
(***************************************************************************)
(* The change-set engine as operators on a workbook: what a change set      *)
(* records when it is proposed, how its edits are applied, what counts as   *)
(* drift and as a later human edit, what rollback restores, how a structural*)
(* edit is planned to be undone, and how risk is judged                     *)
(* (engine/src/changeset/{engine,structural,hazards}.ts and                 *)
(* engine/src/agent/repairScope.ts).                                        *)
(*                                                                         *)
(* A workbook is a record: the sheets that exist, the content of every      *)
(* cell, and what every workbook-scoped defined name refers to.  Formulas   *)
(* are tokens; RefOf says which cell a formula reads and Broken which ones  *)
(* evaluate to an error.  Edits are the ones the agent's executor emits.    *)
(***************************************************************************)
EXTENDS Integers, Sequences, FiniteSets, SequencesExt

CONSTANTS
  Cells,       \* cell references
  SheetOf,     \* [Cells -> sheet names]
  RefOf,       \* [formulas -> Cells]: the cell a formula reads
  Broken,      \* formulas that evaluate to an error
  None         \* undefined, in any field

Null == ""
Error == "#ERR!"
Absent == [absent |-> TRUE, formula |-> None, value |-> Null, format |-> None]

CellKinds == {"setFormula", "setValue", "setNumberFormat", "clear"}
isCellEdit(e) == e.kind \in CellKinds

\* What an edit list may hold, and what a workbook consists of.
IsEdit(e) == IF isCellEdit(e) THEN e.cell \in Cells ELSE e.kind \in {"createSheet", "defineName"}
IsCell(x) == x = [absent |-> x.absent, formula |-> x.formula, value |-> x.value, format |-> x.format]
IsWorkbook(w) == /\ w = [sheets |-> w.sheets, cells |-> w.cells, names |-> w.names]
                 /\ w.cells = [c \in Cells |-> w.cells[c]]
                 /\ \A c \in Cells : IsCell(w.cells[c])

\* The cells an edit list writes, in the engine's terms its "touched" cells.
Touched(edits) == {edits[i].cell : i \in {j \in DOMAIN edits : isCellEdit(edits[j])}}

-----------------------------------------------------------------------------
(* Applying edits (simulator path).                                          *)

\* sim/simulator.ts recalculate, one level deep: a formula's value follows the
\* cell it reads.  Only values of formula cells move.
Recalculate(w) ==
  LET input(c) == w.cells[RefOf[w.cells[c].formula]]
      result(c) == IF w.cells[c].formula \in Broken THEN Error
                   ELSE IF input(c).absent THEN "0"
                   ELSE IF input(c).formula # None THEN "computed"
                   ELSE input(c).value
  IN  [w EXCEPT !.cells = [c \in Cells |->
         IF w.cells[c].formula = None THEN w.cells[c]
         ELSE [w.cells[c] EXCEPT !.value = result(c)]]]

\* applyCellEdit: writing a formula or a value keeps the number format, a
\* format keeps the content, a clear deletes the cell, format included.
EditedCell(old, e) ==
  CASE e.kind = "clear" -> Absent
    [] e.kind = "setFormula" -> [old EXCEPT !.absent = FALSE, !.formula = e.to]
    [] e.kind = "setValue" ->
         [old EXCEPT !.absent = FALSE, !.formula = None, !.value = e.to]
    [] e.kind = "setNumberFormat" -> [old EXCEPT !.absent = FALSE, !.format = e.to]

\* One edit; a cell edit creates its sheet if need be (workbook.addSheet).
ApplyEdit(w, e) ==
  CASE isCellEdit(e) ->
         [w EXCEPT !.sheets = @ \cup {SheetOf[e.cell]},
                   !.cells[e.cell] = EditedCell(@, e)]
    [] e.kind = "createSheet" -> [w EXCEPT !.sheets = @ \cup {e.sheet}]
    [] e.kind = "defineName" -> [w EXCEPT !.names[e.name] = e.to]

ApplyEdits(w, edits) == FoldLeft(ApplyEdit, w, edits)

\* workbook.removeSheet takes the sheet's cells with it.
RemoveSheet(w, s) ==
  [w EXCEPT !.sheets = @ \ {s},
            !.cells = [c \in Cells |-> IF SheetOf[c] = s THEN Absent ELSE @[c]]]

-----------------------------------------------------------------------------
(* Snapshots, drift and later edits.                                         *)

\* snapshot (INV-3), and captureAppliedState over the same cells.
Snapshot(w, edits) == [c \in Touched(edits) |-> w.cells[c]]
AppliedState(w, snaps) == [c \in DOMAIN snaps |-> w.cells[c]]

\* Mutant: a formula cell's value counts too.
DiffersByValue(was, is) ==
  \/ was.absent # is.absent
  \/ was.formula # is.formula
  \/ was.value # is.value

\* Does a cell hold something else than was recorded?  A formula cell's value
\* moves on every recalculation, so only its formula counts; number formats
\* are not looked at.
Differs(was, is) ==
  \/ was.absent # is.absent
  \/ was.formula # is.formula
  \/ was.formula = None /\ was.value # is.value

checkDrift(w, snaps) == {c \in DOMAIN snaps : Differs(snaps[c], w.cells[c])}

changedSinceApply(applied, is) == Differs(applied, is)

-----------------------------------------------------------------------------
(* Risk.                                                                     *)

Low == 0
Medium == 1
High == 2

\* riskOf: `prior` holds the state the user was shown, when it is given.
riskOf(e, w, prior) ==
  IF ~isCellEdit(e) THEN Medium
  ELSE IF e.kind = "setNumberFormat" THEN Low
  ELSE IF e.kind = "clear" THEN High
  ELSE LET existing == IF e.cell \in DOMAIN prior THEN prior[e.cell]
                       ELSE w.cells[e.cell]
       IN  IF existing.formula # None \/ existing.value # Null THEN High ELSE Medium

overallRisk(edits, w, prior) ==
  Max({Low} \cup {riskOf(edits[i], w, prior) : i \in DOMAIN edits})

-----------------------------------------------------------------------------
(* Structural edits and their inverses.                                      *)

\* planOne, for the i-th edit, against the workbook before the change set.  (A
\* cell edit needs no inverse: its snapshot is one.)
planOne(w, edits, i) ==
  LET e == edits[i]
      definedBefore == \E j \in 1 .. (i - 1) :
                         edits[j].kind = "defineName" /\ edits[j].name = e.name
  IN  CASE isCellEdit(e) -> [kind |-> "cell"]
        [] e.kind = "createSheet" /\ e.sheet \in w.sheets ->
             [kind |-> "none"]
        [] e.kind = "createSheet" /\ e.sheet \notin w.sheets ->
             [kind |-> "deleteSheet", sheet |-> e.sheet,
              ourCells |-> {c \in Touched(edits) : SheetOf[c] = e.sheet}]
        [] e.kind = "defineName" /\ (definedBefore \/ w.names[e.name] = None) ->
             [kind |-> "deleteName", name |-> e.name, expect |-> e.to]
        [] e.kind = "defineName" /\ ~definedBefore /\ w.names[e.name] # None ->
             [kind |-> "restoreName", name |-> e.name, expect |-> e.to,
              to |-> w.names[e.name]]

AddInverse(ops, op) == IF op.kind = "cell" THEN ops ELSE Append(ops, op)

planCompensation(w, edits) ==
  FoldLeft(AddInverse, <<>>, [i \in DOMAIN edits |-> planOne(w, edits, i)])

\* Is what op would undo still there, and still ours?
CanUndo(w, op) ==
  \/ /\ op.kind = "deleteSheet"
     /\ op.sheet \in w.sheets
     /\ \A c \in Cells : SheetOf[c] = op.sheet /\ ~w.cells[c].absent
                           => c \in op.ourCells
  \/ op.kind = "deleteName" /\ w.names[op.name] = op.expect
  \/ op.kind = "restoreName" /\ w.names[op.name] \in {None, op.expect}

Undo(w, op) ==
  CASE op.kind = "deleteSheet" -> RemoveSheet(w, op.sheet)
    [] op.kind = "deleteName" -> [w EXCEPT !.names[op.name] = None]
    [] op.kind = "restoreName" -> [w EXCEPT !.names[op.name] = op.to]

\* The inverses run in reverse order; one that is no longer ours is reported.
UndoOrReport(acc, op) ==
  IF CanUndo(acc.wb, op) THEN [acc EXCEPT !.wb = Undo(acc.wb, op)]
  ELSE [acc EXCEPT !.unreversed = @ \cup {op}]

applyCompensation(w, ops) ==
  FoldLeft(UndoOrReport, [wb |-> w, unreversed |-> {}], Reverse(ops))

-----------------------------------------------------------------------------
(* Change sets.                                                              *)

\* proposeChangeSet: everything is computed against the workbook as read.
proposeChangeSet(w, edits) ==
  [edits |-> edits,
   risk |-> overallRisk(edits, w, <<>>),
   snapshots |-> Snapshot(w, edits),
   applied |-> <<>>,
   compensation |-> planCompensation(w, edits)]

\* checkHazards, the blocking ones this model can meet: a cell edit on a sheet
\* the workbook does not have.
checkHazards(w, edits) == {c \in Touched(edits) : SheetOf[c] \notin w.sheets}

\* Mutant: the original's post-apply state wins, like its snapshots.
mergeChangeSetsKeepsApplied(original, repair) ==
  LET both(f, g) == [c \in DOMAIN f \cup DOMAIN g |->
                       IF c \in DOMAIN f THEN f[c] ELSE g[c]]
  IN  [original EXCEPT !.edits = @ \o repair.edits,
                       !.snapshots = both(@, repair.snapshots),
                       !.applied = both(@, repair.applied),
                       !.compensation = @ \o repair.compensation]

\* Mutant: the repair's snapshots win.
mergeChangeSetsRebased(original, repair) ==
  LET both(f, g) == [c \in DOMAIN f \cup DOMAIN g |->
                       IF c \in DOMAIN f THEN f[c] ELSE g[c]]
  IN  [original EXCEPT !.edits = @ \o repair.edits,
                       !.snapshots = both(repair.snapshots, @),
                       !.applied = both(repair.applied, @),
                       !.compensation = @ \o repair.compensation]

\* mergeChangeSets (runtime.ts): the earlier snapshot is the true "before", the
\* later post-apply state is the one to compare with, the risk stays.
mergeChangeSets(original, repair) ==
  LET both(f, g) == [c \in DOMAIN f \cup DOMAIN g |->
                       IF c \in DOMAIN f THEN f[c] ELSE g[c]]
  IN  [original EXCEPT !.edits = @ \o repair.edits,
                       !.snapshots = both(@, repair.snapshots),
                       !.applied = both(repair.applied, @),
                       !.compensation = @ \o repair.compensation]

\* Mutant: a repair is in scope whatever cells it writes.
classifyRepairByRisk(w, approved, edits) ==
  /\ \A i \in DOMAIN edits : isCellEdit(edits[i])
  /\ overallRisk(edits, w, approved.snapshots) <= approved.risk

\* classifyRepair: may these edits ride on the approval already given?
classifyRepair(w, approved, edits) ==
  /\ \A i \in DOMAIN edits : isCellEdit(edits[i])
  /\ Touched(edits) \subseteq DOMAIN approved.snapshots
  /\ overallRisk(edits, w, approved.snapshots) <= approved.risk

\* rollback: restores what is provably still ours, then undoes the structure.
rollback(w, cs) ==
  LET gone == {c \in DOMAIN cs.snapshots : SheetOf[c] \notin w.sheets}
      conflicts == {c \in DOMAIN cs.snapshots \ gone :
                      \/ c \notin DOMAIN cs.applied
                      \/ changedSinceApply(cs.applied[c], w.cells[c])}
      ours == DOMAIN cs.snapshots \ (gone \cup conflicts)
      restored == [w EXCEPT !.cells = [c \in Cells |->
                     IF c \in ours THEN cs.snapshots[c] ELSE @[c]]]
      undone == applyCompensation(restored, cs.compensation)
  IN  [wb |-> undone.wb,
       report |-> [conflicts |-> conflicts, unrestorable |-> gone,
                   unreversed |-> undone.unreversed]]
=============================================================================
