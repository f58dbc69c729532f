------------------------------ MODULE LiveWriter ------------------------------
(***************************************************************************)
(* Applying one change set to a live Excel workbook, and rolling it back:   *)
(* addin/src/excel/writer.ts.  Where the simulator host applies and rolls   *)
(* back in one step, the live writer is a sequence of Office.js syncs:      *)
(*                                                                         *)
(*   applyChangeSet    probe, read (drift) | structural* | cell batch* |    *)
(*                     calculate | probe, read (post-apply state)           *)
(*   on an error       restore all snapshots | undo structural, forced      *)
(*   rollbackChangeSet probe, read | restore what is ours | undo structural *)
(*                                                                         *)
(* Every sync is an action.  Between two of them people edit, and any sync  *)
(* may fail.  A sync runs its queued operations in order, and stops at the  *)
(* first that fails: what came before it has landed.                        *)
(*                                                                         *)
(* A cell is "absent" when blank.  The value of a formula cell is not       *)
(* modelled: nothing here compares it.                                      *)
(***************************************************************************)
EXTENDS ChangeSets

CONSTANTS
  OriginalWorkbook,     \* the workbook when it was extracted
  EditLists,            \* the edits of a change set
  HumanEdits,           \* what people do meanwhile
  Stored,               \* [values -> values]: what Excel makes of a value
  IncludeNumberFormats, \* the extraction option
  BatchSize,            \* options.batchSize
  MaxFailures,          \* bound: syncs the host fails in a behaviour
  MaxHumanEdits         \* bound: human edits in a behaviour

ASSUME WriterOptions == BatchSize \in Nat \ {0} /\ IncludeNumberFormats \in BOOLEAN
ASSUME WriterBounds == MaxFailures \in Nat /\ MaxHumanEdits \in Nat

\* Blank cells, and only they, hold nothing; there is nothing on a sheet that
\* does not exist; and Excel stores what it already holds as it is.
ASSUME WorkbookAssumption ==
  /\ IsWorkbook(OriginalWorkbook)
  /\ OriginalWorkbook.names = [n \in DOMAIN OriginalWorkbook.names |-> OriginalWorkbook.names[n]]
  /\ \A c \in Cells :
       LET x == OriginalWorkbook.cells[c]
       IN  /\ x.absent \in BOOLEAN /\ (x.absent <=> x.formula = None /\ x.value = Null)
           /\ x.formula # None => x.value = Null
           /\ SheetOf[c] \notin OriginalWorkbook.sheets => x.absent
           /\ x.value # Null => Stored[x.value] = x.value
           /\ x.format # None

IsLiveEdit(e) ==
  /\ IsEdit(e)
  /\ e.kind = "setFormula" => e.to # None
  /\ e.kind = "defineName" => e.name \in DOMAIN OriginalWorkbook.names

\* The edits the executor emits; a person may also delete a sheet.
Emitted == UNION {ToSet(edits) : edits \in EditLists}
ASSUME EditAssumption ==
  /\ EditLists \subseteq Seq(Emitted)
  /\ \A e \in Emitted : IsLiveEdit(e)
  /\ \A e \in HumanEdits : e.kind = "deleteSheet" \/ IsLiveEdit(e)

\* No call ends the way None stands for.
ASSUME NoneAssumption ==
  None \notin {"refused", "threw", "applied", "recovered", "restore-failed",
               "rolled-back", "rollback-threw"}

VARIABLES
  wb,          \* the live workbook
  cs,          \* the change set
  pc,          \* the sync that comes next
  present,     \* the sheets the last probe found
  landed,      \* the inverses of the structural edits that landed
  written,     \* cell edits written
  restorable,  \* cells the rollback restores
  conflicts,   \* cells it leaves alone
  undo,        \* inverses still to run
  force,       \* undoStructural's option
  nameSeen,    \* did the inverse's first sync find the name?
  unreversed,  \* inverses reported as not run
  outcome,     \* how the last call ended
  failures,    \* bound: how many syncs the host failed
  humanEdits,  \* bound: how many edits people made
  changed,     \* history: cells people changed since the writer last wrote them
  noticed      \* history: those last changed while a read of them was still to come

reading == <<present, restorable, conflicts>>
undoing == <<undo, force, nameSeen, unreversed>>
history == <<changed, noticed>>
vars == <<wb, cs, pc, reading, landed, written, undoing, outcome, failures,
          humanEdits, history>>

-----------------------------------------------------------------------------
(* What Excel does with one queued operation.                                *)

Blank(old) == [old EXCEPT !.absent = TRUE, !.formula = None, !.value = Null]
WithFormula(old, f) == [old EXCEPT !.absent = FALSE, !.formula = f, !.value = Null]
WithValue(old, v) ==
  [old EXCEPT !.absent = (Stored[v] = Null), !.formula = None, !.value = Stored[v]]

WrittenCell(old, e) ==
  CASE e.kind = "setFormula" -> WithFormula(old, e.to)
    [] e.kind = "setValue" -> WithValue(old, e.to)
    [] e.kind = "setNumberFormat" -> [old EXCEPT !.format = e.to]
    [] e.kind = "clear" -> Blank(old)

\* A restored cell gets its number format back if the snapshot has one.
RestoredCell(old, snap) ==
  LET filled == IF snap.absent THEN Blank(old)
                ELSE IF snap.formula # None THEN WithFormula(old, snap.formula)
                ELSE WithValue(old, snap.value)
  IN  IF snap.format = None THEN filled ELSE [filled EXCEPT !.format = snap.format]

WriteCell(w, e) == [w EXCEPT !.cells[e.cell] = WrittenCell(@, e)]
WriteCells(w, edits) == FoldLeft(WriteCell, w, edits)

RestoreCells(w, cells) ==
  [w EXCEPT !.cells = [c \in Cells |-> IF c \in cells
                                       THEN RestoredCell(@[c], cs.snapshots[c])
                                       ELSE @[c]]]

\* worksheets.add refuses a name that is taken; names.add replaces.
CanLand(w, e) == e.kind = "createSheet" => e.sheet \notin w.sheets

content(cell) == <<cell.absent, cell.formula, cell.value>>
SameContent(w1, w2) == \A c \in Cells : content(w1.cells[c]) = content(w2.cells[c])

-----------------------------------------------------------------------------
\* The extracted workbook has no formats of blank cells, and none at all
\* unless they were asked for.
Extracted(w) ==
  [w EXCEPT !.cells = [c \in Cells |->
     IF @[c].absent THEN Absent
     ELSE IF IncludeNumberFormats THEN @[c] ELSE [@[c] EXCEPT !.format = None]]]

Init ==
  /\ wb = OriginalWorkbook
  /\ \E edits \in EditLists :
       cs = [edits |-> edits,
             snapshots |-> Snapshot(Extracted(wb), edits),
             applied |-> <<>>,
             compensation |-> planCompensation(Extracted(wb), edits)]
  /\ pc = "driftProbe"
  /\ present = {} /\ restorable = {} /\ conflicts = {}
  /\ landed = <<>>
  /\ written = 0
  /\ undo = <<>> /\ force = FALSE /\ nameSeen = FALSE /\ unreversed = {}
  /\ outcome = None
  /\ failures = 0
  /\ humanEdits = 0
  /\ changed = {} /\ noticed = {}

AddCellEdit(edits, e) == IF isCellEdit(e) THEN Append(edits, e) ELSE edits
AddStructural(edits, e) == IF isCellEdit(e) THEN edits ELSE Append(edits, e)

cellEdits == FoldLeft(AddCellEdit, <<>>, cs.edits)
structuralEdits == FoldLeft(AddStructural, <<>>, cs.edits)
touched == DOMAIN cs.snapshots

OnSheets(cells, sheets) == {c \in cells : SheetOf[c] \in sheets}

\* getItem on a sheet that is gone makes the sync fail.
Reachable(cells) == OnSheets(cells, wb.sheets) = cells

HostFails == failures < MaxFailures /\ failures' = failures + 1

\* A sync fails if the host fails it, or if it asks for what is not there.
SyncFails(refused) == HostFails \/ (refused /\ UNCHANGED failures)

\* The writer wrote these cells.
Overwrote(cells) == changed' = changed \ cells /\ noticed' = noticed \ cells

Ends(how) == pc' = "done" /\ outcome' = how

-----------------------------------------------------------------------------
(* Reading: existingSheets, then the touched cells of the sheets found.      *)

Probe(from, to) ==
  /\ pc = from
  /\ present' = {SheetOf[c] : c \in touched} \cap wb.sheets
  /\ pc' = to

Loaded == OnSheets(touched, present)

\* readTouchedCells: a cell of a missing sheet reads as absent.
ReadCell(c) ==
  IF c \in Loaded THEN [wb.cells[c] EXCEPT !.format = None] ELSE Absent

\* Mutant: only formulas are compared.
LiveDriftOfFormulas ==
  {c \in touched : IF c \in Loaded THEN wb.cells[c].formula # cs.snapshots[c].formula
                   ELSE ~cs.snapshots[c].absent}

\* checkLiveDrift's comparison; a planned cell of a sheet to be made is clean.
LiveDrift ==
  {c \in touched :
     LET snap == cs.snapshots[c]
         is == wb.cells[c]
     IN  IF c \in Loaded
         THEN is.formula # snap.formula \/ (snap.formula = None /\ is.value # snap.value)
         ELSE ~snap.absent}

ProbeDrift ==
  /\ Probe("driftProbe", "driftRead")
  /\ UNCHANGED <<wb, cs, restorable, conflicts, landed, written, undoing, outcome,
                 failures, humanEdits, history>>

ReadDrift ==
  /\ pc = "driftRead"
  /\ Reachable(Loaded)
  /\ IF LiveDrift # {} THEN Ends("refused")
     ELSE pc' = "writing" /\ UNCHANGED outcome
  /\ UNCHANGED <<wb, cs, reading, landed, written, undoing, failures, humanEdits,
                 history>>

\* Outside the try: the caller gets the exception, nothing was written.
DriftCheckThrows ==
  /\ pc \in {"driftProbe", "driftRead"}
  /\ Ends("threw")
  /\ SyncFails(pc = "driftRead" /\ ~Reachable(Loaded))
  /\ UNCHANGED <<wb, cs, reading, landed, written, undoing, humanEdits, history>>

-----------------------------------------------------------------------------
(* Writing.                                                                  *)

NextStructural == structuralEdits[Len(landed) + 1]

StructuralLands ==
  /\ pc = "writing"
  /\ Len(landed) < Len(structuralEdits)
  /\ CanLand(wb, NextStructural)
  /\ wb' = ApplyEdit(wb, NextStructural)
  /\ landed' = Append(landed, cs.compensation[Len(landed) + 1])
  /\ UNCHANGED <<cs, pc, reading, written, undoing, outcome, failures, humanEdits,
                 history>>

\* A structural edit is refused; as far as we can tell, it did not land.
StructuralFails ==
  /\ pc = "writing"
  /\ Len(landed) < Len(structuralEdits)
  /\ pc' = "restore"
  /\ SyncFails(~CanLand(wb, NextStructural))
  /\ UNCHANGED <<wb, cs, reading, landed, written, undoing, outcome, humanEdits,
                 history>>

ThisBatch == SubSeq(cellEdits, written + 1, Min({written + BatchSize, Len(cellEdits)}))

AtCells == /\ pc = "writing"
           /\ Len(landed) = Len(structuralEdits)
           /\ written < Len(cellEdits)

\* Mutant: the loop counts a whole batch whatever the batch held.
BatchLandsUncounted ==
  /\ AtCells
  /\ Reachable(Touched(ThisBatch))
  /\ wb' = WriteCells(wb, ThisBatch)
  /\ written' = written + BatchSize
  /\ Overwrote(Touched(ThisBatch))
  /\ UNCHANGED <<cs, pc, reading, landed, undoing, outcome, failures, humanEdits>>

BatchLands ==
  /\ AtCells
  /\ Reachable(Touched(ThisBatch))
  /\ wb' = WriteCells(wb, ThisBatch)
  /\ written' = written + Len(ThisBatch)
  /\ Overwrote(Touched(ThisBatch))
  /\ UNCHANGED <<cs, pc, reading, landed, undoing, outcome, failures, humanEdits>>

\* The first n operations of the batch landed.
BatchFails(n) ==
  LET before == SubSeq(ThisBatch, 1, n)
  IN  /\ AtCells
      /\ n <= Len(ThisBatch)
      /\ Reachable(Touched(before))
      /\ SyncFails(n < Len(ThisBatch) /\ ~Reachable({ThisBatch[n + 1].cell}))
      /\ wb' = WriteCells(wb, before)
      /\ Overwrote(Touched(before))
      /\ pc' = "restore"
      /\ UNCHANGED <<cs, reading, landed, written, undoing, outcome, humanEdits>>

\* Mutant: the loop ends before a last batch that is not full.
CalculateEarly ==
  /\ pc = "writing"
  /\ Len(landed) = Len(structuralEdits)
  /\ written + BatchSize > Len(cellEdits)
  /\ pc' = "captureProbe"
  /\ UNCHANGED <<wb, cs, reading, landed, written, undoing, outcome, failures,
                 humanEdits, history>>

Calculate ==
  /\ pc = "writing"
  /\ Len(landed) = Len(structuralEdits)
  /\ written = Len(cellEdits)
  /\ pc' = "captureProbe"
  /\ UNCHANGED <<wb, cs, reading, landed, written, undoing, outcome, failures,
                 humanEdits, history>>

CalculateFails ==
  /\ pc = "writing"
  /\ Len(landed) = Len(structuralEdits)
  /\ written = Len(cellEdits)
  /\ HostFails
  /\ pc' = "restore"
  /\ UNCHANGED <<wb, cs, reading, landed, written, undoing, outcome, humanEdits,
                 history>>

\* captureLiveAppliedState: what Excel made of the write is read back.
ProbeCapture ==
  /\ Probe("captureProbe", "captureRead")
  /\ UNCHANGED <<wb, cs, restorable, conflicts, landed, written, undoing, outcome,
                 failures, humanEdits, history>>

\* Mutant: what was meant to be written is taken for what Excel stored.
ReadCaptureFromEdits ==
  /\ pc = "captureRead"
  /\ Reachable(Loaded)
  /\ LET meant(old, e) == IF e.kind = "setValue"
                          THEN [WithValue(old, e.to) EXCEPT !.value = e.to]
                          ELSE WrittenCell(old, e)
         after == FoldLeft(LAMBDA acc, e : [acc EXCEPT ![e.cell] = meant(@, e)],
                           cs.snapshots, cellEdits)
     IN  cs' = [cs EXCEPT !.applied = after]
  /\ pc' = "applied"
  /\ outcome' = "applied"
  /\ UNCHANGED <<wb, reading, landed, written, undoing, failures, humanEdits,
                 history>>

ReadCapture ==
  /\ pc = "captureRead"
  /\ Reachable(Loaded)
  /\ cs' = [cs EXCEPT !.applied = [c \in touched |-> ReadCell(c)]]
  /\ pc' = "applied"
  /\ outcome' = "applied"
  /\ UNCHANGED <<wb, reading, landed, written, undoing, failures, humanEdits,
                 history>>

CaptureFails ==
  /\ pc \in {"captureProbe", "captureRead"}
  /\ SyncFails(pc = "captureRead" /\ ~Reachable(Loaded))
  /\ pc' = "restore"
  /\ UNCHANGED <<wb, cs, reading, landed, written, undoing, outcome, humanEdits,
                 history>>

-----------------------------------------------------------------------------
(* Undoing: the recovery of a failed apply, and the user's rollback.         *)

\* undoStructural on the inverses left, or the end of the call.
UndoNext(ops, how) ==
  /\ undo' = ops
  /\ IF ops = <<>> THEN Ends(how) ELSE pc' = "undo" /\ UNCHANGED outcome

\* Mutant: the inverses run in the order of the edits.
RestoreThenForward ==
  /\ pc = "restore"
  /\ Reachable(touched)
  /\ wb' = RestoreCells(wb, touched)
  /\ Overwrote(touched)
  /\ force' = TRUE
  /\ UndoNext(landed, "recovered")
  /\ UNCHANGED <<cs, reading, landed, written, nameSeen, unreversed, failures,
                 humanEdits>>

\* restoreSnapshots on every snapshot, then undoStructural with force.
Restore ==
  /\ pc = "restore"
  /\ Reachable(touched)
  /\ wb' = RestoreCells(wb, touched)
  /\ Overwrote(touched)
  /\ force' = TRUE
  /\ UndoNext(Reverse(landed), "recovered")
  /\ UNCHANGED <<cs, reading, landed, written, nameSeen, unreversed, failures,
                 humanEdits>>

\* Some of the cells were restored; the structural inverses never run.
RestoreFails(some) ==
  /\ pc = "restore"
  /\ Reachable(some)
  /\ SyncFails(~Reachable(touched))
  /\ wb' = RestoreCells(wb, some)
  /\ Overwrote(some)
  /\ Ends("restore-failed")
  /\ UNCHANGED <<cs, reading, landed, written, undoing, humanEdits>>

\* The user asks for the change set to be rolled back.
ProbeRollback ==
  /\ Probe("applied", "rollbackRead")
  /\ UNCHANGED <<wb, cs, restorable, conflicts, landed, written, undoing, outcome,
                 failures, humanEdits, history>>

\* Mutant: what was blank before is not cleared again.
ReadRollbackKeepsNew ==
  /\ pc = "rollbackRead"
  /\ Reachable(Loaded)
  /\ conflicts' = {c \in touched : changedSinceApply(cs.applied[c], ReadCell(c))}
  /\ restorable' = {c \in touched \ conflicts' : ~cs.snapshots[c].absent}
  /\ IF restorable' # {} THEN pc' = "rollbackRestore" /\ UNCHANGED <<undo, outcome>>
     ELSE UndoNext(Reverse(cs.compensation), "rolled-back")
  /\ UNCHANGED <<wb, cs, present, landed, written, force, nameSeen, unreversed,
                 failures, humanEdits, history>>

ReadRollback ==
  /\ pc = "rollbackRead"
  /\ Reachable(Loaded)
  /\ conflicts' = {c \in touched : changedSinceApply(cs.applied[c], ReadCell(c))}
  /\ restorable' = touched \ conflicts'
  /\ IF restorable' # {} THEN pc' = "rollbackRestore" /\ UNCHANGED <<undo, outcome>>
     ELSE UndoNext(Reverse(cs.compensation), "rolled-back")
  /\ UNCHANGED <<wb, cs, present, landed, written, force, nameSeen, unreversed,
                 failures, humanEdits, history>>

RestoreRollback ==
  /\ pc = "rollbackRestore"
  /\ Reachable(restorable)
  /\ wb' = RestoreCells(wb, restorable)
  /\ Overwrote(restorable)
  /\ UndoNext(Reverse(cs.compensation), "rolled-back")
  /\ UNCHANGED <<cs, reading, landed, written, force, nameSeen, unreversed,
                 failures, humanEdits>>

\* rollbackChangeSet rejects; some of the cells may have been restored.
RollbackThrows(some) ==
  /\ \/ pc = "applied" /\ some = {} /\ HostFails
     \/ /\ pc = "rollbackRead" /\ some = {}
        /\ SyncFails(~Reachable(Loaded))
     \/ /\ pc = "rollbackRestore" /\ some \subseteq restorable /\ Reachable(some)
        /\ SyncFails(~Reachable(restorable))
  /\ wb' = RestoreCells(wb, some)
  /\ Overwrote(some)
  /\ Ends("rollback-threw")
  /\ UNCHANGED <<cs, reading, landed, written, undoing, humanEdits>>

\* undoStructural catches each inverse on its own.
UndoEnd == IF force THEN "recovered" ELSE "rolled-back"

\* The lookup: is what the inverse undoes there, and still ours?  (For a sheet
\* that is two syncs, and the first can only refuse.)
MayUndo(op) ==
  CASE op.kind = "none" -> FALSE
    [] op.kind = "deleteSheet" ->
         /\ op.sheet \in wb.sheets
         /\ force \/ \A c \in Cells : SheetOf[c] = op.sheet => wb.cells[c].absent
    [] op.kind = "deleteName" ->
         /\ wb.names[op.name] # None
         /\ force \/ wb.names[op.name] = op.expect
    [] op.kind = "restoreName" ->
         force \/ wb.names[op.name] \in {None, op.expect}

UndoLooks ==
  /\ pc = "undo"
  /\ MayUndo(Head(undo))
  /\ pc' = "undoAct"
  /\ nameSeen' = (Head(undo).kind # "deleteSheet" /\ wb.names[Head(undo).name] # None)
  /\ UNCHANGED <<wb, cs, reading, landed, written, undo, force, unreversed, outcome,
                 failures, humanEdits, history>>

\* Mutant: an inverse that is refused is tried again.
UndoRefusesRetries ==
  /\ pc = "undo"
  /\ SyncFails(~MayUndo(Head(undo)))
  /\ unreversed' = unreversed \cup {Head(undo)}
  /\ UNCHANGED <<wb, cs, pc, reading, landed, written, undo, force, nameSeen, outcome,
                 humanEdits, history>>

\* The inverse is not run: what it would undo is gone or not ours any more, or
\* one of its lookups failed.
UndoRefuses ==
  /\ pc = "undo"
  /\ SyncFails(~MayUndo(Head(undo)))
  /\ unreversed' = unreversed \cup {Head(undo)}
  /\ UndoNext(Tail(undo), UndoEnd)
  /\ UNCHANGED <<wb, cs, reading, landed, written, force, nameSeen, humanEdits,
                 history>>

\* Second sync; deleting what has gone meanwhile fails it.
StillThere(op) ==
  IF op.kind = "deleteSheet" THEN op.sheet \in wb.sheets
  ELSE nameSeen => wb.names[op.name] # None

UndoActs ==
  /\ pc = "undoAct"
  /\ StillThere(Head(undo))
  /\ wb' = Undo(wb, Head(undo))
  /\ UndoNext(Tail(undo), UndoEnd)
  /\ changed' = {c \in changed : SheetOf[c] \in wb'.sheets}
  /\ noticed' = {c \in noticed : SheetOf[c] \in wb'.sheets}
  /\ UNCHANGED <<cs, reading, landed, written, force, nameSeen, unreversed,
                 failures, humanEdits>>

\* restoreName deletes the name it saw before it adds it again, in one sync: a
\* sync that fails may have landed the delete alone.
OnlyDeleted(op) ==
  IF op.kind = "restoreName" /\ nameSeen THEN [wb EXCEPT !.names[op.name] = None] ELSE wb

UndoFails ==
  /\ pc = "undoAct"
  /\ SyncFails(~StillThere(Head(undo)))
  /\ wb' \in {wb, OnlyDeleted(Head(undo))}
  /\ unreversed' = unreversed \cup {Head(undo)}
  /\ UndoNext(Tail(undo), UndoEnd)
  /\ UNCHANGED <<cs, reading, landed, written, force, nameSeen, humanEdits, history>>

-----------------------------------------------------------------------------
\* The cells of which a read is still to come before the next write.  A touched
\* cell of a sheet the probe did not find is not read at all.
ToBeRead ==
  IF pc \in {"driftProbe", "applied"} THEN Cells
  ELSE IF pc \in {"driftRead", "rollbackRead"} THEN (Cells \ touched) \cup Loaded
  ELSE {}

\* People undid their own change before the read to come could notice it.
PutBack(c) ==
  \/ /\ pc \in {"driftProbe", "driftRead"}
     /\ content(wb'.cells[c]) = content(OriginalWorkbook.cells[c])
  \/ /\ pc \in {"applied", "rollbackRead"}
     /\ c \in touched
     /\ content(wb'.cells[c]) = content(cs.applied[c])

Human(e) ==
  /\ pc # "done"
  /\ humanEdits < MaxHumanEdits
  /\ isCellEdit(e) => SheetOf[e.cell] \in wb.sheets
  /\ e.kind = "createSheet" => e.sheet \notin wb.sheets
  /\ e.kind = "deleteSheet" => e.sheet \in wb.sheets /\ wb.sheets # {e.sheet}
  /\ wb' = CASE e.kind = "deleteSheet" -> RemoveSheet(wb, e.sheet)
             [] isCellEdit(e) -> WriteCells(wb, <<e>>)
             [] OTHER -> ApplyEdit(wb, e)
  /\ LET cells == {c \in Cells : content(wb'.cells[c]) # content(wb.cells[c])}
     IN  /\ changed' = changed \cup cells
         /\ noticed' = {c \in (noticed \ cells) \cup (cells \cap ToBeRead) : ~PutBack(c)}
  /\ humanEdits' = humanEdits + 1
  /\ UNCHANGED <<cs, pc, reading, landed, written, undoing, outcome, failures>>

Apply ==
  \/ ProbeDrift \/ ReadDrift \/ DriftCheckThrows
  \/ StructuralLands \/ StructuralFails
  \/ BatchLands \/ \E n \in 0 .. BatchSize : BatchFails(n)
  \/ Calculate \/ CalculateFails
  \/ ProbeCapture \/ ReadCapture \/ CaptureFails
  \/ Restore \/ \E some \in SUBSET touched : RestoreFails(some)

RollBack ==
  \/ ReadRollback \/ RestoreRollback
  \/ pc # "applied" /\ \E some \in SUBSET touched : RollbackThrows(some)

UndoStructural == UndoLooks \/ UndoRefuses \/ UndoActs \/ UndoFails

Writer == Apply \/ RollBack \/ UndoStructural

Next ==
  \/ Writer
  \/ ProbeRollback
  \/ pc = "applied" /\ RollbackThrows({})
  \/ \E e \in HumanEdits : Human(e)

\* Every sync settles; the user need not ask for a rollback.
Spec == Init /\ [][Next]_vars /\ WF_vars(Writer)

-----------------------------------------------------------------------------
TypeOK ==
  /\ pc \in {"driftProbe", "driftRead", "writing", "captureProbe", "captureRead",
             "restore", "applied", "rollbackRead", "rollbackRestore", "undo",
             "undoAct", "done"}
  /\ outcome \in {None, "refused", "threw", "applied", "recovered",
                  "restore-failed", "rolled-back", "rollback-threw"}
  /\ written \in 0 .. Len(cellEdits)
  /\ Len(landed) <= Len(structuralEdits)
  /\ restorable \cup conflicts \subseteq touched
  /\ noticed \subseteq changed
  /\ failures \in 0 .. MaxFailures
  /\ humanEdits \in 0 .. MaxHumanEdits

Kept(cells) == \A c \in cells : content(wb'.cells[c]) = content(wb.cells[c])
WriterStep == humanEdits' = humanEdits

\* INV-8 and INV-3, as far as reading can tell: what people change before the
\* drift check reads it, or between the apply and the rollback's read, no later
\* sync of the writer overwrites, clears or deletes.
NoticedEditsSurvive == [][WriterStep => Kept(noticed)]_vars

\* The sheets and names are the original ones, but for what the inverses that
\* were reported would have taken back.
StructureBack ==
  /\ OriginalWorkbook.sheets \subseteq wb.sheets
  /\ \A s \in wb.sheets \ OriginalWorkbook.sheets :
       \E op \in unreversed : op.kind = "deleteSheet" /\ op.sheet = s
  /\ \A n \in DOMAIN OriginalWorkbook.names :
       \/ wb.names[n] = OriginalWorkbook.names[n]
       \/ \E op \in unreversed : op.kind \in {"deleteName", "restoreName"} /\ op.name = n

\* A failed apply that says it was undone left the workbook as it was, but for
\* the inverses it reports, whichever sync failed and if an inverse failed too.
RecoveryIsExact ==
  outcome = "recovered" /\ humanEdits = 0 =>
    SameContent(wb, OriginalWorkbook) /\ StructureBack

\* A rollback nobody interfered with restores every cell, and with it every
\* sheet and name whose inverse it does not report; and the number formats of
\* the cells that were not blank, if the extraction read formats.
RollbackIsExact ==
  outcome = "rolled-back" /\ humanEdits = 0 =>
    /\ SameContent(wb, OriginalWorkbook) /\ StructureBack
    /\ IncludeNumberFormats =>
         \A c \in Cells : ~OriginalWorkbook.cells[c].absent =>
                            wb.cells[c] = OriginalWorkbook.cells[c]

-----------------------------------------------------------------------------
(* The simulator host applies the change set in one step.  It coerces        *)
(* nothing, so it is given the values as Excel stores them.                  *)

AsStored(e) ==
  IF e.kind = "setValue" THEN [kind |-> e.kind, cell |-> e.cell, to |-> Stored[e.to]] ELSE e
Planned == ApplyEdits(OriginalWorkbook, [i \in DOMAIN cs.edits |-> AsStored(cs.edits[i])])

\* What a cell shows; the value of a formula cell is Excel's to compute.
Shows(cell) == <<cell.formula, IF cell.formula = None THEN cell.value ELSE Null>>
View(w) == [cells |-> [c \in Cells |-> Shows(w.cells[c])], sheets |-> w.sheets,
            names |-> w.names]

Cleared == {cs.edits[i].cell : i \in {j \in DOMAIN cs.edits : cs.edits[j].kind = "clear"}}

\* An apply that says it succeeded left what the simulator makes of the same
\* change set, whatever was split, batched or done in another order; number
\* formats too, but for cells it clears (the simulator drops their format).
AppliedAsPlanned ==
  outcome = "applied" /\ pc \in {"applied", "rollbackRead"} /\ humanEdits = 0 =>
    /\ View(wb) = View(Planned)
    /\ \A c \in Cells \ Cleared : wb.cells[c].format = Planned.cells[c].format

\* At rest the workbook shows what it holds; during a call, what it held before.
AtRest ==
  IF pc \in {"driftProbe", "applied", "done"} THEN View(wb)
  ELSE IF outcome = "applied" THEN View(Planned) ELSE View(OriginalWorkbook)

Host == INSTANCE WorkbookHost WITH
  Before <- View(OriginalWorkbook), planned <- View(Planned), shown <- AtRest,
  ended <- outcome, reported <- IF pc = "done" THEN unreversed ELSE {},
  disturbed <- humanEdits > 0

\* The many syncs keep the promise of the interface both hosts implement: seen
\* between its calls, a live apply is all or nothing, or admits that it is not.
ImplementsHost == Host!Spec

\* Q-012: what Excel made of our own write is not mistaken for somebody's edit,
\* whatever it coerced; nor does the drift check refuse an apply over a cell
\* nobody changed since it was proposed.
ConflictsAreEdits ==
  [][/\ conflicts' # conflicts => conflicts' \subseteq changed
     /\ outcome = None /\ outcome' = "refused" => LiveDrift \subseteq changed]_vars

\* The writer ends every call: an apply is applied, refused or recovered, a
\* rollback that was started ends.
CallsEnd == []<>(pc \in {"applied", "done"})

\* "Rollback refuses to overwrite a cell a human edited after we applied"
\* (README.md, INV-3), whenever after our write that was.
RollbackKeepsHumanEdits ==
  [][WriterStep /\ pc \in {"rollbackRestore", "undo", "undoAct"} /\ ~force
       => Kept(changed)]_vars

\* "If a write throws partway, we roll back from the snapshot rather than
\* leaving the workbook half-changed." (writer.ts), with one failed sync and
\* nobody else at work.
NeverHalfChanged ==
  outcome \in {"recovered", "restore-failed"} /\ humanEdits = 0 /\ failures <= 1 =>
    /\ SameContent(wb, OriginalWorkbook)
    /\ wb.sheets = OriginalWorkbook.sheets
    /\ wb.names = OriginalWorkbook.names
=============================================================================
