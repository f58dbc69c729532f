------------------------------- MODULE AgentRun -------------------------------
(***************************************************************************)
(* One run of the agent: runAgent of engine/src/agent/runtime.ts on the     *)
(* SimulatorWorkbookHost, the host every test, eval and CI run uses.        *)
(*                                                                         *)
(* plan -> approval -> ONE change set -> approval -> drift check -> apply    *)
(* -> verify -> repair loop -> rollback offer.  Each step that awaits the    *)
(* provider, the approver or the host is an action of its own, and between   *)
(* any two of them a person may edit the same workbook.                      *)
(*                                                                         *)
(* The language model and the approver are nondeterministic: the model       *)
(* answers with any of the edit lists, the approver with either decision.    *)
(***************************************************************************)
EXTENDS ChangeSets

CONSTANTS
  OriginalWorkbook, \* the workbook the run starts on
  EditLists,        \* what a plan's steps can execute to
  RepairLists,      \* what a corrective plan's steps can execute to
  HumanEdits,       \* what a person may do to the workbook meanwhile
  MaxRepairs,       \* options.maxRepairs
  MaxHumanEdits     \* bound: human edits in a behaviour

ASSUME AgentBounds == MaxRepairs \in Nat /\ MaxHumanEdits \in Nat

ASSUME WorkbookAssumption == IsWorkbook(OriginalWorkbook)

\* There is nothing on a sheet that does not exist, and the values are those of
\* the last recalculation.
ASSUME CurrentAssumption ==
  /\ OriginalWorkbook.names = [n \in DOMAIN OriginalWorkbook.names |-> OriginalWorkbook.names[n]]
  /\ \A c \in Cells :
       LET x == OriginalWorkbook.cells[c]
       IN  /\ SheetOf[c] \notin OriginalWorkbook.sheets => x = Absent
           /\ x.formula # None => RefOf[x.formula] \in Cells
  /\ Recalculate(OriginalWorkbook) = OriginalWorkbook

\* The edits the executor emits; a person may also delete a sheet.
Emitted == UNION {ToSet(edits) : edits \in EditLists \cup RepairLists}
ASSUME EditAssumption ==
  /\ EditLists \cup RepairLists \subseteq Seq(Emitted)
  /\ \A e \in Emitted : IsEdit(e)
  /\ \A e \in HumanEdits : e.kind = "deleteSheet" \/ IsEdit(e)

VARIABLES
  live,        \* the workbook; the simulator host hands out this very object
  pc,          \* what runAgent awaits
  trusted,     \* options.trustedSession
  always,      \* options.repairApproval = "always"
  plan,        \* the parsed plan: the edits it executes to, all steps low or not
  cs,          \* changeSet
  repairSet,   \* the repair whose approval is awaited
  attempts,    \* repairAttempts
  preErrors,   \* preExistingErrors
  outcome,     \* the RunOutcome, or "threw" for a rejected promise
  report,      \* the rollback report
  humanEdits,  \* bound: how many human edits there were
  foreign,     \* history: cells whose content people changed since the change set
               \* was proposed or, after that, since the run last wrote them
  seen,        \* history: the content the approver was last shown of a cell, or
               \* the run wrote there, or people wrote between check and write
  lastWrite,   \* history: the content the run last left in a cell it wrote
  consent      \* history: what the approver said yes to

run == <<plan, cs, repairSet, attempts, preErrors, outcome, report>>
history == <<foreign, seen, lastWrite, consent>>
vars == <<live, pc, trusted, always, run, humanEdits, history>>

NoSet == proposeChangeSet(OriginalWorkbook, <<>>)
NoReport == [conflicts |-> {}, unrestorable |-> {}, unreversed |-> {}]
NoConsent == [cells |-> {}, risk |-> Low, edits |-> <<>>]

\* What a person would call the cell's content.
content(cell) ==
  [absent |-> cell.absent, formula |-> cell.formula,
   value |-> IF cell.formula = None THEN cell.value ELSE Null]

Contents(w) == [c \in Cells |-> content(w.cells[c])]

Init ==
  /\ live = OriginalWorkbook
  /\ pc = "planning"
  /\ trusted \in BOOLEAN
  /\ always \in BOOLEAN
  /\ plan = [edits |-> <<>>, low |-> FALSE]
  /\ cs = NoSet
  /\ repairSet = NoSet
  /\ attempts = 0
  /\ preErrors = {}
  /\ outcome = None
  /\ report = NoReport
  /\ humanEdits = 0
  /\ foreign = {}
  /\ seen = Contents(OriginalWorkbook)
  /\ lastWrite = [c \in Cells |-> None]
  /\ consent = NoConsent

ChangedCells(w1, w2) == {c \in Cells : content(w1.cells[c]) # content(w2.cells[c])}

finish(o) == outcome' = o /\ pc' = "done"

-----------------------------------------------------------------------------
(* Planning and approval.                                                    *)

\* The tools' risks: only number_format.set is low, so a plan is all-low only
\* if it executes to nothing but number formats (or to nothing).
MayBeLow(edits) == \A i \in DOMAIN edits : edits[i].kind = "setNumberFormat"

\* parsePlan accepts the planner's answer; a trusted session skips the plan
\* prompt for an all-low plan.
PlannerAnswers(edits, low) ==
  /\ pc = "planning"
  /\ low => MayBeLow(edits)
  /\ plan' = [edits |-> edits, low |-> low]
  /\ pc' = IF trusted /\ low THEN "executing" ELSE "approvePlan"
  /\ UNCHANGED <<live, trusted, always, cs, repairSet, attempts, preErrors,
                 outcome, report, humanEdits, history>>

PlanUnparsable ==
  /\ pc = "planning"
  /\ finish("plan-failed")
  /\ UNCHANGED <<live, trusted, always, plan, cs, repairSet, attempts,
                 preErrors, report, humanEdits, history>>

DecidePlan(yes) ==
  /\ pc = "approvePlan"
  /\ IF yes THEN pc' = "executing" /\ UNCHANGED outcome ELSE finish("rejected")
  /\ UNCHANGED <<live, trusted, always, plan, cs, repairSet, attempts,
                 preErrors, report, humanEdits, history>>

\* The executor's edits are proposed as one change set and checked for hazards.
Execute ==
  LET proposed == proposeChangeSet(live, plan.edits)
  IN  /\ pc = "executing"
      /\ cs' = proposed
      /\ IF plan.edits = <<>> THEN finish("no-op")
         ELSE IF checkHazards(live, plan.edits) # {} THEN finish("blocked-hazard")
         ELSE /\ pc' = IF trusted /\ proposed.risk = Low THEN "drift"
                       ELSE "approveChange"
              /\ UNCHANGED outcome
      /\ foreign' = {}
      /\ seen' = Contents(live)
      /\ UNCHANGED <<live, trusted, always, plan, repairSet, attempts, preErrors,
                     report, humanEdits, lastWrite, consent>>

\* The approver said yes to set s.
Granted(s) ==
  consent' = [cells |-> consent.cells \cup Touched(s.edits),
              risk |-> Max({consent.risk, s.risk}),
              edits |-> s.edits]

DecideChange(yes) ==
  /\ pc = "approveChange"
  /\ IF yes THEN pc' = "drift" /\ Granted(cs) /\ UNCHANGED outcome
            ELSE finish("rejected") /\ UNCHANGED consent
  /\ UNCHANGED <<live, trusted, always, plan, cs, repairSet, attempts, preErrors,
                 report, humanEdits, foreign, seen, lastWrite>>

-----------------------------------------------------------------------------
(* Drift check, apply, verify.                                               *)

\* Mutant: only the first touched cell is re-read.
CheckDriftFirstOnly ==
  /\ pc = "drift"
  /\ LET moved == checkDrift(live, cs.snapshots)
     IN  IF cs.edits[1].kind \in CellKinds /\ cs.edits[1].cell \in moved
         THEN finish("aborted-drift")
         ELSE pc' = "applying" /\ UNCHANGED outcome
  /\ UNCHANGED <<live, trusted, always, plan, cs, repairSet, attempts, preErrors,
                 report, humanEdits, history>>

CheckDrift ==
  /\ pc = "drift"
  /\ IF checkDrift(live, cs.snapshots) # {} THEN finish("aborted-drift")
     ELSE pc' = "applying" /\ UNCHANGED outcome
  /\ UNCHANGED <<live, trusted, always, plan, cs, repairSet, attempts, preErrors,
                 report, humanEdits, history>>

\* host.apply on the simulator: edits, post-apply state, recalculation.  There
\* is no drift check in it.
applied(w, s) == [s EXCEPT !.applied = AppliedState(ApplyEdits(w, s.edits), s.snapshots)]

Write(s) ==
  /\ live' = Recalculate(ApplyEdits(live, s.edits))
  /\ lastWrite' = [c \in Cells |-> IF c \in Touched(s.edits)
                                   THEN content(live'.cells[c]) ELSE lastWrite[c]]
  /\ foreign' = foreign \ Touched(s.edits)
  /\ seen' = [c \in Cells |-> IF c \in Touched(s.edits)
                              THEN content(live'.cells[c]) ELSE seen[c]]

Errors(w) == {c \in Cells : w.cells[c].value = Error}

Apply ==
  /\ pc = "applying"
  /\ preErrors' = Errors(live)
  /\ Write(cs)
  /\ cs' = applied(live, cs)
  /\ pc' = "verifying"
  /\ UNCHANGED <<trusted, always, plan, repairSet, attempts, outcome, report,
                 humanEdits, consent>>

\* The cells whose last edit is not what the workbook holds.
Mismatches(w, edits) ==
  LET last(c) == Max({i \in DOMAIN edits : isCellEdit(edits[i]) /\ edits[i].cell = c})
      holds(cell, e) ==
        CASE e.kind = "clear" -> cell.value = Null /\ cell.formula = None
          [] e.kind = "setFormula" -> cell.formula = e.to
          [] e.kind = "setValue" -> ~cell.absent /\ cell.value = e.to
          [] e.kind = "setNumberFormat" -> TRUE
  IN  {c \in Touched(edits) : ~holds(w.cells[c], edits[last(c)])}

\* The touched cells and the ones that read them.
BlastRadius(w, edits) ==
  LET touched == Touched(edits)
  IN  touched \cup {c \in Cells : /\ w.cells[c].formula # None
                                  /\ RefOf[w.cells[c].formula] \in touched}

verifyOk(w, s) ==
  /\ Mismatches(w, s.edits) = {}
  /\ Errors(w) \cap BlastRadius(w, s.edits) \subseteq preErrors

\* Mutant: one repair more than allowed.
VerifyOneMore(assertionsHold) ==
  LET ok == verifyOk(live, cs) /\ assertionsHold
  IN  /\ pc = "verifying"
      /\ IF ok THEN finish("applied") /\ UNCHANGED attempts
         ELSE IF attempts <= MaxRepairs
         THEN pc' = "repairing" /\ attempts' = attempts + 1 /\ UNCHANGED outcome
         ELSE pc' = "offering" /\ UNCHANGED <<attempts, outcome>>
      /\ UNCHANGED <<live, trusted, always, plan, cs, repairSet, preErrors, report,
                     humanEdits, history>>

\* host.refresh, verify and the head of the repair loop.  The balance
\* assertions and the cycle count may fail the change set too.
Verify(assertionsHold) ==
  LET ok == verifyOk(live, cs) /\ assertionsHold
  IN  /\ pc = "verifying"
      /\ IF ok THEN finish("applied") /\ UNCHANGED attempts
         ELSE IF attempts < MaxRepairs
         THEN pc' = "repairing" /\ attempts' = attempts + 1 /\ UNCHANGED outcome
         ELSE pc' = "offering" /\ UNCHANGED <<attempts, outcome>>
      /\ UNCHANGED <<live, trusted, always, plan, cs, repairSet, preErrors, report,
                     humanEdits, history>>

-----------------------------------------------------------------------------
(* Repairs.                                                                  *)

\* The loop's breaks: no plan, no steps, no edits.
NoRepair ==
  /\ pc = "repairing"
  /\ pc' = "offering"
  /\ UNCHANGED <<live, trusted, always, run, humanEdits, history>>

\* The repair is proposed against the workbook as it is now, and applied on the
\* approval already given if it stays inside it.
RepairInScope(edits) ==
  LET repair == proposeChangeSet(live, edits)
  IN  /\ pc = "repairing"
      /\ classifyRepair(live, cs, edits)
      /\ ~always
      /\ Write(repair)
      /\ cs' = mergeChangeSets(cs, applied(live, repair))
      /\ pc' = "verifying"
      /\ UNCHANGED <<trusted, always, plan, repairSet, attempts, preErrors,
                     outcome, report, humanEdits, consent>>

RepairNeedsApproval(edits) ==
  /\ pc = "repairing"
  /\ ~classifyRepair(live, cs, edits) \/ always
  /\ repairSet' = proposeChangeSet(live, edits)
  /\ pc' = "approveRepair"
  /\ seen' = [c \in Cells |-> IF c \in Touched(edits)
                              THEN content(live.cells[c]) ELSE seen[c]]
  /\ UNCHANGED <<live, trusted, always, plan, cs, attempts, preErrors, outcome,
                 report, humanEdits, foreign, lastWrite, consent>>

\* Mutant: a rejected fix is asked for again.
RejectRepairRetries ==
  /\ pc = "approveRepair"
  /\ repairSet' = NoSet
  /\ pc' = "repairing"
  /\ UNCHANGED <<live, trusted, always, plan, cs, attempts, preErrors, outcome,
                 report, humanEdits, history>>

RejectRepair ==
  /\ pc = "approveRepair"
  /\ repairSet' = NoSet
  /\ pc' = "offering"
  /\ UNCHANGED <<live, trusted, always, plan, cs, attempts, preErrors, outcome,
                 report, humanEdits, history>>

ApproveRepair ==
  /\ pc = "approveRepair"
  /\ Granted(repairSet)
  /\ Write(repairSet)
  /\ cs' = mergeChangeSets(cs, applied(live, repairSet))
  /\ repairSet' = NoSet
  /\ pc' = "verifying"
  /\ UNCHANGED <<trusted, always, plan, attempts, preErrors, outcome, report,
                 humanEdits>>

-----------------------------------------------------------------------------
(* The rollback offer, and everything that ends a run early.                 *)

AcceptRollback ==
  /\ pc = "offering"
  /\ LET r == rollback(live, cs)
     IN  live' = Recalculate(r.wb) /\ report' = r.report
  /\ finish("rolled-back")
  /\ UNCHANGED <<trusted, always, plan, cs, repairSet, attempts, preErrors,
                 humanEdits, history>>

DeclineRollback ==
  /\ pc = "offering"
  /\ finish("applied-with-warnings")
  /\ UNCHANGED <<live, trusted, always, plan, cs, repairSet, attempts, preErrors,
                 report, humanEdits, history>>

\* provider.complete throws and nothing catches it.
ProviderThrows ==
  /\ pc \in {"planning", "repairing"}
  /\ finish("threw")
  /\ UNCHANGED <<live, trusted, always, plan, cs, repairSet, attempts, preErrors,
                 report, humanEdits, history>>

-----------------------------------------------------------------------------
\* A person edits the workbook: a cell on a sheet that exists, a name, or a
\* whole sheet away.  The host recalculates.
Human(e) ==
  /\ pc # "done"
  /\ humanEdits < MaxHumanEdits
  /\ isCellEdit(e) => SheetOf[e.cell] \in live.sheets
  /\ e.kind = "deleteSheet" => e.sheet \in live.sheets /\ live.sheets # {e.sheet}
  /\ LET after == IF e.kind = "deleteSheet" THEN RemoveSheet(live, e.sheet)
                  ELSE ApplyEdit(live, e)
         changed == ChangedCells(live, after)
     IN  /\ after # live
         /\ live' = Recalculate(after)
         /\ foreign' = foreign \cup changed
         /\ seen' = IF pc = "applying"
                    THEN [c \in Cells |-> IF c \in changed THEN content(after.cells[c]) ELSE seen[c]]
                    ELSE seen
  /\ humanEdits' = humanEdits + 1
  /\ UNCHANGED <<pc, trusted, always, run, lastWrite, consent>>

Agent ==
  \/ \E edits \in EditLists, low \in BOOLEAN : PlannerAnswers(edits, low)
  \/ PlanUnparsable
  \/ \E yes \in BOOLEAN : DecidePlan(yes) \/ DecideChange(yes)
  \/ Execute
  \/ CheckDrift
  \/ Apply
  \/ \E assertionsHold \in BOOLEAN : Verify(assertionsHold)
  \/ NoRepair
  \/ \E edits \in RepairLists : RepairInScope(edits) \/ RepairNeedsApproval(edits)
  \/ RejectRepair
  \/ ApproveRepair
  \/ AcceptRollback
  \/ DeclineRollback
  \/ ProviderThrows

Next == Agent \/ \E e \in HumanEdits : Human(e)

\* The provider and the approver answer, one way or the other, and the host's
\* promises settle; nobody owes an edit.
Spec == Init /\ [][Next]_vars /\ WF_vars(Agent)

-----------------------------------------------------------------------------
PCs == {"planning", "approvePlan", "executing", "approveChange", "drift",
        "applying", "verifying", "repairing", "approveRepair", "offering", "done"}
Outcomes == {"plan-failed", "rejected", "no-op", "blocked-hazard", "aborted-drift",
             "applied", "applied-with-warnings", "rolled-back", "threw"}

TypeOK ==
  /\ pc \in PCs
  /\ outcome \in Outcomes \cup {None}
  /\ attempts \in 0 .. MaxRepairs
  /\ humanEdits \in 0 .. MaxHumanEdits
  /\ IsWorkbook(live)
  /\ \A s \in {cs, repairSet} : /\ DOMAIN s.snapshots = Touched(s.edits)
                                /\ DOMAIN s.applied \subseteq DOMAIN s.snapshots
                                /\ s.risk \in {Low, Medium, High}
  /\ foreign \cup preErrors \cup consent.cells \subseteq Cells

Applies == pc = "applying" /\ pc' = "verifying"
Repairs == pc \in {"repairing", "approveRepair"} /\ pc' = "verifying"
RollsBack == outcome # "rolled-back" /\ outcome' = "rolled-back"

\* The edits the step that applies or repairs just added to the record.
Landed == IF Applies THEN cs.edits
          ELSE SubSeq(cs'.edits, Len(cs.edits) + 1, Len(cs'.edits))

\* The cells that hold something else than was last shown, or written.
unseen == {c \in Cells : content(live.cells[c]) # seen[c]}

\* INV-8, for the change set itself: what a person changed between the
\* proposal and the drift check is never written over.
AppliedOnlyOnWhatWasRead ==
  [][Applies => Touched(cs.edits) \cap unseen = {}]_vars

\* INV-2 and D-028: what lands is the very set the approver said yes to, or
\* number formats, or edits of cells already approved, at no more than the risk
\* accepted.  A run nobody was asked about, trusted and low, and all its
\* repairs, therefore writes number formats only.
ConsentCoversWrites ==
  [][Applies \/ Repairs =>
       \/ Landed = consent'.edits
       \/ \A i \in DOMAIN Landed :
            \/ Landed[i].kind = "setNumberFormat"
            \/ /\ isCellEdit(Landed[i])
               /\ Landed[i].cell \in consent'.cells
               /\ riskOf(Landed[i], live, cs.snapshots) <= consent'.risk]_vars

\* D-026: rolling back leaves every cell alone whose content is not what the
\* run itself last wrote there.  (Unless undoing createSheet takes the sheet
\* away: see HumanWorkOutlivesRollback.)
RollbackYieldsToLaterEdits ==
  [][RollsBack =>
       \A c \in DOMAIN cs.snapshots :
         /\ SheetOf[c] \in live'.sheets
         /\ content(live.cells[c]) # lastWrite[c]
         => content(live'.cells[c]) = content(live.cells[c])]_vars

\* Sheets that exist only because a cell edit named them.
ImplicitSheets(edits) ==
  {s \in {SheetOf[c] : c \in Touched(edits)} \ OriginalWorkbook.sheets :
     \E i \in DOMAIN edits :
        /\ isCellEdit(edits[i]) /\ SheetOf[edits[i].cell] = s
        /\ \A j \in 1 .. (i - 1) :
             ~(edits[j].kind = "createSheet" /\ edits[j].sheet = s)}

\* D-027 and INV-3: if nobody else touched the workbook, one rollback undoes
\* the change set and all its repairs: cells with their formats, names, and
\* every sheet the run made, but for those a cell edit made first.
RollbackIsExact ==
  [][RollsBack /\ humanEdits = 0 =>
       /\ live'.cells = OriginalWorkbook.cells
       /\ live'.names = OriginalWorkbook.names
       /\ OriginalWorkbook.sheets \subseteq live'.sheets
       /\ live'.sheets \subseteq OriginalWorkbook.sheets \cup ImplicitSheets(cs.edits)]_vars

\* A recalculation is never mistaken for an edit: a drift abort, or a conflict
\* in the rollback report, names a cell a person really changed.
RecalculationIsNoEdit ==
  [][/\ outcome # "aborted-drift" /\ outcome' = "aborted-drift" =>
          checkDrift(live, cs.snapshots) \subseteq foreign
     /\ RollsBack => report'.conflicts \subseteq foreign]_vars

\* The repair loop is bounded whatever the model and the approver answer: every
\* run ends.
RunEnds == <>(pc = "done")

\* "INV-8 Drift check immediately before apply; a colleague's edit aborts it"
\* (README.md), for everything the run applies, repairs included.
NoWriteOverAColleague ==
  [][Applies \/ Repairs =>
       \A i \in DOMAIN Landed :
         isCellEdit(Landed[i]) => Landed[i].cell \notin unseen]_vars

\* "a sheet we created that now holds cells we did not write is NOT deleted"
\* (DECISIONS.md, D-027), and D-026: no rollback takes a person's newer work
\* away.
HumanWorkOutlivesRollback ==
  [][RollsBack => \A c \in foreign : content(live'.cells[c]) = content(live.cells[c])]_vars
=============================================================================
