---------------------------- MODULE AgentRunProofs ----------------------------
(***************************************************************************)
(* Proofs about AgentRun, for every workbook, every answer of the language   *)
(* model, every edit of a person and every number of repairs.                *)
(***************************************************************************)
EXTENDS AgentRun, ChangeSetsProofs

TypeInv ==
  /\ pc \in PCs
  /\ outcome \in Outcomes \cup {None}
  /\ attempts \in 0 .. MaxRepairs
  /\ humanEdits \in 0 .. MaxHumanEdits
  /\ IsWorkbook(live)
  /\ IsChangeSet(cs) /\ IsChangeSet(repairSet)
  /\ IsEditList(plan.edits)
  /\ foreign \subseteq Cells /\ preErrors \subseteq Cells /\ consent.cells \subseteq Cells
  /\ consent.risk \in {Low, Medium, High}

\* The approval covers the change set: it was given for it, or it is not needed.
Covered == \/ cs.risk = Low
           \/ cs.risk <= consent.risk /\ Touched(cs.edits) \subseteq consent.cells

AllFormats(edits) == \A i \in DOMAIN edits : edits[i].kind = "setNumberFormat"

ConsentInv ==
  /\ pc = "approveChange" => cs.applied = <<>>
  /\ pc \in {"drift", "applying"} =>
       cs.applied = <<>> /\ (consent.edits = cs.edits \/ AllFormats(cs.edits))
  /\ pc \in {"drift", "applying", "verifying", "repairing", "approveRepair"} => Covered

\* What the approver saw is what the change set was proposed on, and after the
\* drift check it is what the workbook holds.
SeenInv ==
  /\ pc \in {"approveChange", "drift"} =>
       \A c \in Touched(cs.edits) : content(cs.snapshots[c]) = seen[c]
  /\ pc = "applying" => \A c \in Touched(cs.edits) : content(live.cells[c]) = seen[c]

\* What the run recorded of a cell is what the cell holds, unless a person
\* changed it.
RecordInv ==
  /\ pc \in {"approveChange", "drift"} =>
       \A c \in Touched(cs.edits) \ foreign : content(live.cells[c]) = content(cs.snapshots[c])
  /\ pc \in {"verifying", "repairing", "approveRepair", "offering"} =>
       /\ DOMAIN cs.applied = Touched(cs.edits)
       /\ \A c \in Touched(cs.edits) :
            /\ content(cs.applied[c]) = lastWrite[c]
            /\ c \notin foreign => content(live.cells[c]) = lastWrite[c]

-----------------------------------------------------------------------------
(* Contents.                                                                 *)

\* Drift and later edits are about content.
LEMMA DiffersIsContent ==
  ASSUME NEW a, NEW b
  PROVE  Differs(a, b) <=> content(a) # content(b)
  BY DEF Differs, content

LEMMA ContentRecalculated ==
  ASSUME NEW w, IsWorkbook(w), NEW c \in Cells
  PROVE  content(Recalculate(w).cells[c]) = content(w.cells[c])
<1>. DEFINE r == Recalculate(w)
<1>1. /\ r.cells[c].absent = w.cells[c].absent
      /\ r.cells[c].formula = w.cells[c].formula
      /\ w.cells[c].formula = None => r.cells[c] = w.cells[c]
  BY Recalculated
<1>. HIDE DEF r
<1>2. content(r.cells[c]) = content(w.cells[c])
  BY <1>1 DEF content
<1>. QED BY <1>2 DEF r

LEMMA EmittedLists ==
  ASSUME NEW edits \in EditLists \cup RepairLists
  PROVE  IsEditList(edits)
<1>1. edits \in Seq(Emitted) /\ \A e \in Emitted : IsEdit(e)
  BY EditAssumption
<1>2. IsList(edits) /\ \A i \in DOMAIN edits : edits[i] \in Emitted
  BY <1>1, SeqIsList
<1>. QED BY <1>1, <1>2 DEF IsEditList

\* The run writes a change set: its cells hold what it recorded, nobody's edits
\* are left in them, and the others hold what they held.
LEMMA Written ==
  ASSUME TypeInv, NEW s, IsChangeSet(s), Write(s)
  PROVE  LET a == applied(live, s)
         IN  /\ IsWorkbook(live') /\ foreign' = foreign \ Touched(s.edits)
             /\ IsChangeSet(a) /\ a.edits = s.edits /\ a.risk = s.risk
             /\ DOMAIN a.applied = Touched(s.edits)
             /\ \A c \in Touched(s.edits) :
                  /\ content(a.applied[c]) = content(live'.cells[c])
                  /\ lastWrite'[c] = content(live'.cells[c])
             /\ \A c \in Cells \ Touched(s.edits) :
                  /\ content(live'.cells[c]) = content(live.cells[c])
                  /\ lastWrite'[c] = lastWrite[c]
<1>. DEFINE after == ApplyEdits(live, s.edits)
            a == applied(live, s)
<1>1. IsEditList(s.edits) /\ IsWorkbook(live) /\ Touched(s.edits) \subseteq Cells
  BY TouchedCells DEF TypeInv, IsChangeSet
<1>2. IsWorkbook(after) /\ \A c \in Cells \ Touched(s.edits) : after.cells[c] = live.cells[c]
  BY <1>1, EditsApplied
<1>3. /\ live' = Recalculate(after)
      /\ foreign' = foreign \ Touched(s.edits)
      /\ \A c \in Cells : lastWrite'[c] = IF c \in Touched(s.edits)
                                          THEN content(live'.cells[c]) ELSE lastWrite[c]
  BY DEF Write
<1>4. a = [s EXCEPT !.applied = [c \in DOMAIN s.snapshots |-> after.cells[c]]]
  BY DEF applied, AppliedState
<1>. HIDE DEF after, a
<1>5. IsWorkbook(live')
  BY <1>2, <1>3, Recalculated
<1>6. \A c \in Cells : content(live'.cells[c]) = content(after.cells[c])
  BY <1>2, <1>3, ContentRecalculated
<1>7. /\ a = [edits |-> a.edits, risk |-> a.risk, snapshots |-> a.snapshots,
              applied |-> a.applied, compensation |-> a.compensation]
      /\ a.edits = s.edits /\ a.risk = s.risk /\ a.snapshots = s.snapshots
      /\ a.compensation = s.compensation
      /\ a.applied = [c \in Touched(s.edits) |-> after.cells[c]]
  BY <1>4 DEF IsChangeSet
<1>8. IsChangeSet(a)
  BY <1>7 DEF IsChangeSet
<1>9. \A c \in Touched(s.edits) : content(a.applied[c]) = content(live'.cells[c])
  BY <1>1, <1>6, <1>7
<1>10. \A c \in Cells \ Touched(s.edits) : content(live'.cells[c]) = content(live.cells[c])
  BY <1>2, <1>6
<1>11. DOMAIN a.applied = Touched(s.edits)
  BY <1>7
<1>. QED BY <1>1, <1>3, <1>5, <1>7, <1>8, <1>9, <1>10, <1>11 DEF a

\* A person changes the workbook: what changed is on record.
LEMMA HumanChanges ==
  ASSUME TypeInv, NEW e \in HumanEdits, Human(e)
  PROVE  /\ IsWorkbook(live') /\ foreign \subseteq foreign' /\ foreign' \subseteq Cells
         /\ \A c \in Cells \ foreign' : content(live'.cells[c]) = content(live.cells[c])
         /\ pc # "applying" => seen' = seen
         /\ pc = "applying" =>
              \A c \in Cells : content(live.cells[c]) = seen[c]
                                 => content(live'.cells[c]) = seen'[c]
         /\ UNCHANGED <<pc, trusted, always, run, lastWrite, consent>>
<1>. DEFINE after == IF e.kind = "deleteSheet" THEN RemoveSheet(live, e.sheet)
                     ELSE ApplyEdit(live, e)
            changed == ChangedCells(live, after)
<1>1. /\ live' = Recalculate(after)
      /\ foreign' = foreign \cup changed
      /\ seen' = IF pc = "applying"
                 THEN [c \in Cells |-> IF c \in changed THEN content(after.cells[c]) ELSE seen[c]]
                 ELSE seen
      /\ UNCHANGED <<pc, trusted, always, run, lastWrite, consent>>
  BY DEF Human
<1>2. IsWorkbook(after)
  BY SheetRemoved, OneEdit, EditAssumption DEF TypeInv
<1>3. changed = {c \in Cells : content(live.cells[c]) # content(after.cells[c])}
  BY DEF ChangedCells
<1>. HIDE DEF after, changed
<1>4. IsWorkbook(live') /\ \A c \in Cells : content(live'.cells[c]) = content(after.cells[c])
  BY <1>1, <1>2, Recalculated, ContentRecalculated
<1>5. foreign \subseteq Cells
  BY DEF TypeInv
<1>. QED BY <1>1, <1>3, <1>4, <1>5

-----------------------------------------------------------------------------
(* Types.                                                                    *)

LEMMA NoEdits == IsEditList(<<>>)
<1>1. <<>> \in Seq({})
  OBVIOUS
<1>2. IsList(<<>>)
  BY <1>1, SeqIsList
<1>. QED BY <1>2 DEF IsEditList

LEMMA NoSetIsChangeSet == IsChangeSet(NoSet) /\ NoSet.edits = <<>> /\ NoSet.applied = <<>>
  BY NoEdits, Proposed, WorkbookAssumption DEF NoSet

LEMMA TypeInit == Init => TypeInv
<1>. SUFFICES ASSUME Init PROVE TypeInv
  OBVIOUS
<1>1. IsEditList(<<>>)
  BY NoEdits
<1>2. plan.edits = <<>> /\ consent.cells = {} /\ consent.risk = Low
  BY DEF Init, NoConsent
<1>3. 0 \in 0 .. MaxRepairs /\ 0 \in 0 .. MaxHumanEdits
  BY AgentBounds
<1>. QED BY <1>1, <1>2, <1>3, NoSetIsChangeSet, WorkbookAssumption DEF Init, TypeInv, PCs, Outcomes

LEMMA MaxOfTwo ==
  ASSUME NEW a \in {Low, Medium, High}, NEW b \in {Low, Medium, High}
  PROVE  /\ Max({a, b}) \in {Low, Medium, High}
         /\ a <= Max({a, b}) /\ b <= Max({a, b})
<1>1. \E m \in {a, b} : \A x \in {a, b} : m >= x
  BY DEF Low, Medium, High
<1>2. Max({a, b}) \in {a, b} /\ \A x \in {a, b} : Max({a, b}) >= x
  BY <1>1 DEF Max
<1>. QED BY <1>2 DEF Low, Medium, High

LEMMA GrantedTypes ==
  ASSUME TypeInv, NEW s, IsChangeSet(s), Granted(s)
  PROVE  /\ consent'.cells = consent.cells \cup Touched(s.edits)
         /\ consent'.cells \subseteq Cells
         /\ consent'.risk \in {Low, Medium, High}
         /\ consent.risk <= consent'.risk /\ s.risk <= consent'.risk
         /\ consent'.edits = s.edits
<1>1. consent.risk \in {Low, Medium, High} /\ s.risk \in {Low, Medium, High}
  BY DEF TypeInv, IsChangeSet
<1>2. /\ consent'.cells = consent.cells \cup Touched(s.edits)
      /\ consent'.risk = Max({consent.risk, s.risk})
      /\ consent'.edits = s.edits
  BY DEF Granted
<1>3. Touched(s.edits) \subseteq Cells /\ consent.cells \subseteq Cells
  BY TouchedCells DEF IsChangeSet, TypeInv
<1>4. /\ Max({consent.risk, s.risk}) \in {Low, Medium, High}
      /\ consent.risk <= Max({consent.risk, s.risk}) /\ s.risk <= Max({consent.risk, s.risk})
  BY <1>1, MaxOfTwo
<1>. QED BY <1>2, <1>3, <1>4

\* The steps that leave the workbook and every change set as they are.
Waits ==
  \/ \E edits \in EditLists, low \in BOOLEAN : PlannerAnswers(edits, low)
  \/ PlanUnparsable
  \/ \E yes \in BOOLEAN : DecidePlan(yes)
  \/ CheckDrift
  \/ \E assertionsHold \in BOOLEAN : Verify(assertionsHold)
  \/ NoRepair
  \/ DeclineRollback
  \/ ProviderThrows

LEMMA WaitsTypes == TypeInv /\ Waits => TypeInv'
<1>. SUFFICES ASSUME TypeInv, Waits PROVE TypeInv'
  OBVIOUS
<1>1. UNCHANGED <<live, cs, repairSet, foreign, consent, humanEdits>>
  BY DEF Waits, PlannerAnswers, PlanUnparsable, DecidePlan, CheckDrift, Verify, NoRepair,
         DeclineRollback, ProviderThrows, run, history
<1>2. IsEditList(plan'.edits)
  BY EmittedLists DEF TypeInv, Waits, PlannerAnswers, PlanUnparsable, DecidePlan, CheckDrift,
         Verify, NoRepair, DeclineRollback, ProviderThrows, run
<1>3. pc' \in PCs /\ outcome' \in Outcomes \cup {None}
  BY DEF TypeInv, Waits, PlannerAnswers, PlanUnparsable, DecidePlan, CheckDrift, Verify, NoRepair,
         DeclineRollback, ProviderThrows, run, finish, PCs, Outcomes
<1>4. attempts' \in 0 .. MaxRepairs
  BY AgentBounds DEF TypeInv, Waits, PlannerAnswers, PlanUnparsable, DecidePlan, CheckDrift, Verify,
         NoRepair, DeclineRollback, ProviderThrows, run
<1>5. preErrors' = preErrors
  BY DEF Waits, PlannerAnswers, PlanUnparsable, DecidePlan, CheckDrift, Verify, NoRepair,
         DeclineRollback, ProviderThrows, run
<1>. QED BY <1>1, <1>2, <1>3, <1>4, <1>5 DEF TypeInv

\* The plan's edits are proposed as a change set.
LEMMA ExecuteShape ==
  ASSUME TypeInv, Execute
  PROVE  /\ IsChangeSet(cs') /\ cs'.applied = <<>> /\ foreign' = {}
         /\ cs'.risk = overallRisk(cs'.edits, live, <<>>)
         /\ pc' \in {"done", "drift", "approveChange"}
         /\ pc' = "drift" => cs'.risk = Low
         /\ outcome' \in Outcomes \cup {None}
         /\ \A c \in Touched(cs'.edits) : c \in Cells /\ cs'.snapshots[c] = live.cells[c]
         /\ \A c \in Cells : seen'[c] = content(live.cells[c])
         /\ UNCHANGED <<live, plan, repairSet, attempts, preErrors, humanEdits, lastWrite, consent>>
<1>1. cs' = proposeChangeSet(live, plan.edits)
  BY DEF Execute
<1>2. /\ IsChangeSet(cs') /\ cs'.edits = plan.edits
      /\ \A c \in Touched(plan.edits) : cs'.snapshots[c] = live.cells[c]
      /\ cs'.risk = overallRisk(plan.edits, live, <<>>) /\ cs'.applied = <<>>
  BY <1>1, Proposed DEF TypeInv
<1>3. /\ pc' \in {"done", "drift", "approveChange"} /\ (pc' = "drift" => cs'.risk = Low)
      /\ outcome' \in Outcomes \cup {None} /\ foreign' = {} /\ seen' = Contents(live)
      /\ UNCHANGED <<live, plan, repairSet, attempts, preErrors, humanEdits, lastWrite, consent>>
  BY DEF Execute, finish, Outcomes, TypeInv
<1>4. Touched(plan.edits) \subseteq Cells
  BY TouchedCells DEF TypeInv
<1>. QED BY <1>2, <1>3, <1>4 DEF Contents

\* A repair is written and merged into the change set.
RepairLands(s) ==
  /\ Write(s)
  /\ cs' = mergeChangeSets(cs, applied(live, s))
  /\ pc' = "verifying"

LEMMA RepairShape ==
  ASSUME TypeInv, NEW s, IsChangeSet(s), RepairLands(s)
  PROVE  /\ IsChangeSet(cs') /\ IsWorkbook(live') /\ foreign' = foreign \ Touched(s.edits)
         /\ cs'.risk = cs.risk
         /\ Touched(cs'.edits) = Touched(cs.edits) \cup Touched(s.edits)
         /\ SubSeq(cs'.edits, Len(cs.edits) + 1, Len(cs'.edits)) = s.edits
         /\ DOMAIN cs'.applied = DOMAIN cs.applied \cup Touched(s.edits)
         /\ \A c \in Touched(s.edits) :
              /\ content(cs'.applied[c]) = content(live'.cells[c])
              /\ lastWrite'[c] = content(live'.cells[c])
         /\ \A c \in Cells \ Touched(s.edits) :
              /\ content(live'.cells[c]) = content(live.cells[c])
              /\ lastWrite'[c] = lastWrite[c]
         /\ \A c \in DOMAIN cs.applied \ Touched(s.edits) : cs'.applied[c] = cs.applied[c]
<1>. DEFINE a == applied(live, s)
<1>1. Write(s) /\ cs' = mergeChangeSets(cs, a) /\ IsChangeSet(cs)
  BY DEF RepairLands, TypeInv
<1>2. /\ IsWorkbook(live') /\ foreign' = foreign \ Touched(s.edits)
      /\ IsChangeSet(a) /\ a.edits = s.edits /\ a.risk = s.risk
      /\ DOMAIN a.applied = Touched(s.edits)
      /\ \A c \in Touched(s.edits) :
           /\ content(a.applied[c]) = content(live'.cells[c])
           /\ lastWrite'[c] = content(live'.cells[c])
      /\ \A c \in Cells \ Touched(s.edits) :
           /\ content(live'.cells[c]) = content(live.cells[c])
           /\ lastWrite'[c] = lastWrite[c]
  BY <1>1, Written
<1>. HIDE DEF a
<1>. DEFINE m == mergeChangeSets(cs, a)
<1>3. /\ IsChangeSet(m) /\ m.risk = cs.risk
      /\ Touched(m.edits) = Touched(cs.edits) \cup Touched(a.edits)
      /\ SubSeq(m.edits, Len(cs.edits) + 1, Len(m.edits)) = a.edits
      /\ DOMAIN m.applied = DOMAIN cs.applied \cup DOMAIN a.applied
      /\ \A c \in DOMAIN m.applied : m.applied[c] = IF c \in DOMAIN a.applied
                                                    THEN a.applied[c] ELSE cs.applied[c]
  BY <1>1, <1>2, Merged
<1>4. cs' = m
  BY <1>1
<1>. HIDE DEF m
<1>5. /\ IsChangeSet(cs') /\ cs'.risk = cs.risk
      /\ Touched(cs'.edits) = Touched(cs.edits) \cup Touched(a.edits)
      /\ SubSeq(cs'.edits, Len(cs.edits) + 1, Len(cs'.edits)) = a.edits
      /\ DOMAIN cs'.applied = DOMAIN cs.applied \cup DOMAIN a.applied
      /\ \A c \in DOMAIN cs'.applied : cs'.applied[c] = IF c \in DOMAIN a.applied
                                                       THEN a.applied[c] ELSE cs.applied[c]
  BY <1>3, <1>4
<1>. QED BY <1>2, <1>5

\* The first change set is written.
LEMMA ApplyShape ==
  ASSUME TypeInv, Apply
  PROVE  /\ IsChangeSet(cs') /\ IsWorkbook(live') /\ foreign' = foreign \ Touched(cs.edits)
         /\ cs'.edits = cs.edits /\ cs'.risk = cs.risk
         /\ DOMAIN cs'.applied = Touched(cs.edits)
         /\ \A c \in Touched(cs.edits) : /\ content(cs'.applied[c]) = content(live'.cells[c])
                                         /\ lastWrite'[c] = content(live'.cells[c])
         /\ preErrors' \subseteq Cells /\ pc' = "verifying"
         /\ UNCHANGED <<plan, repairSet, attempts, outcome, humanEdits, consent>>
<1>1. /\ Write(cs) /\ cs' = applied(live, cs) /\ preErrors' = Errors(live) /\ pc' = "verifying"
      /\ UNCHANGED <<plan, repairSet, attempts, outcome, humanEdits, consent>>
  BY DEF Apply
<1>. QED BY <1>1, Written DEF TypeInv, Errors

LEMMA TypeStep == TypeInv /\ [Next]_vars => TypeInv'
<1>. SUFFICES ASSUME TypeInv, [Next]_vars PROVE TypeInv'
  OBVIOUS
<1>1. CASE Waits
  BY <1>1, WaitsTypes
<1>2. CASE Execute
  BY <1>2, ExecuteShape DEF TypeInv, PCs
<1>3. ASSUME NEW yes \in BOOLEAN, DecideChange(yes) PROVE TypeInv'
  <2>1. consent'.cells \subseteq Cells /\ consent'.risk \in {Low, Medium, High}
    BY <1>3, GrantedTypes DEF DecideChange, TypeInv
  <2>2. pc' \in PCs /\ outcome' \in Outcomes \cup {None}
    BY <1>3 DEF DecideChange, TypeInv, finish, PCs, Outcomes
  <2>3. UNCHANGED <<live, cs, plan, repairSet, attempts, preErrors, humanEdits, foreign>>
    BY <1>3 DEF DecideChange
  <2>. QED BY <2>1, <2>2, <2>3 DEF TypeInv
<1>4. CASE Apply
  BY <1>4, ApplyShape DEF TypeInv, PCs
<1>5. ASSUME NEW s, IsChangeSet(s), RepairLands(s), IsChangeSet(repairSet'),
             UNCHANGED <<plan, attempts, preErrors, outcome, humanEdits>>,
             consent' = consent \/ Granted(s)
      PROVE  TypeInv'
  <2>1. consent'.cells \subseteq Cells /\ consent'.risk \in {Low, Medium, High}
    BY <1>5, GrantedTypes DEF TypeInv
  <2>2. IsChangeSet(cs') /\ IsWorkbook(live') /\ foreign' \subseteq Cells
    BY <1>5, RepairShape DEF TypeInv
  <2>. QED BY <1>5, <2>1, <2>2 DEF TypeInv, RepairLands, PCs
<1>6. ASSUME NEW edits \in RepairLists, RepairInScope(edits) PROVE TypeInv'
  <2>1. IsChangeSet(proposeChangeSet(live, edits))
    BY EmittedLists, Proposed DEF TypeInv
  <2>. QED BY <1>5, <1>6, <2>1 DEF RepairInScope, RepairLands, TypeInv
<1>7. ASSUME NEW edits \in RepairLists, RepairNeedsApproval(edits) PROVE TypeInv'
  <2>1. IsChangeSet(proposeChangeSet(live, edits))
    BY EmittedLists, Proposed DEF TypeInv
  <2>. QED BY <1>7, <2>1 DEF RepairNeedsApproval, TypeInv, PCs
<1>8. CASE RejectRepair
  BY <1>8, NoSetIsChangeSet DEF RejectRepair, TypeInv, PCs, history
<1>9. CASE ApproveRepair
  BY <1>5, <1>9, NoSetIsChangeSet DEF ApproveRepair, RepairLands, TypeInv
<1>10. CASE AcceptRollback
  <2>1. IsWorkbook(rollback(live, cs).wb)
    BY RolledBack DEF TypeInv
  <2>2. IsWorkbook(live')
    BY <1>10, <2>1, Recalculated DEF AcceptRollback
  <2>. QED BY <1>10, <2>2 DEF AcceptRollback, TypeInv, finish, PCs, Outcomes, history
<1>11. ASSUME NEW e \in HumanEdits, Human(e) PROVE TypeInv'
  <2>1. IsWorkbook(live') /\ foreign' \subseteq Cells
        /\ UNCHANGED <<pc, trusted, always, run, lastWrite, consent>>
    BY <1>11, HumanChanges
  <2>2. humanEdits' \in 0 .. MaxHumanEdits
    BY <1>11, AgentBounds DEF Human, TypeInv
  <2>. QED BY <2>1, <2>2 DEF TypeInv, run
<1>12. CASE UNCHANGED vars
  BY <1>12 DEF TypeInv, vars, run, history
<1>. QED BY <1>1, <1>2, <1>3, <1>4, <1>6, <1>7, <1>8, <1>9, <1>10, <1>11, <1>12
         DEF Next, Agent, Waits

\* TypeOK, for any workbook, edits, repairs and number of human edits.
THEOREM TypeCorrect == Spec => []TypeOK
<1>1. TypeInv => TypeOK
  BY DEF TypeInv, TypeOK, IsChangeSet
<1>. QED BY <1>1, TypeInit, TypeStep, PTL DEF Spec

-----------------------------------------------------------------------------
(* The run's own records.                                                    *)

RunInv == ConsentInv /\ SeenInv /\ RecordInv

LEMMA RunInit == Init => RunInv
  BY DEF Init, RunInv, ConsentInv, SeenInv, RecordInv

LEMMA NoDrift ==
  ASSUME NEW w, NEW snaps, NEW c \in DOMAIN snaps
  PROVE  c \in checkDrift(w, snaps) <=> content(w.cells[c]) # content(snaps[c])
  BY DiffersIsContent DEF checkDrift

LEMMA WaitsShape ==
  ASSUME Waits
  PROVE  /\ UNCHANGED <<live, cs, repairSet, foreign, seen, lastWrite, consent, report>>
         /\ \/ pc' \in {"done", "executing", "approvePlan"}
            \/ pc = "drift" /\ pc' = "applying" /\ checkDrift(live, cs.snapshots) = {}
            \/ pc \in {"verifying", "repairing"} /\ pc' \in {"repairing", "offering"}
         /\ outcome' # outcome => \/ outcome' \notin {"rolled-back", "aborted-drift"}
                                  \/ pc = "drift" /\ outcome' = "aborted-drift"
  BY DEF Waits, PlannerAnswers, PlanUnparsable, DecidePlan, CheckDrift, Verify, NoRepair,
         DeclineRollback, ProviderThrows, run, history, finish

LEMMA WaitsKeep == TypeInv /\ RunInv /\ Waits => RunInv'
<1>. SUFFICES ASSUME TypeInv, RunInv, Waits PROVE RunInv'
  OBVIOUS
<1>. USE DEF RunInv
<1>1. UNCHANGED <<live, cs, foreign, seen, lastWrite, consent>>
  BY WaitsShape
<1>2. CASE pc' \in {"done", "executing", "approvePlan"}
  BY <1>2 DEF ConsentInv, SeenInv, RecordInv
<1>3. CASE pc = "drift" /\ pc' = "applying" /\ checkDrift(live, cs.snapshots) = {}
  <2>1. \A c \in Touched(cs.edits) : content(live.cells[c]) = content(cs.snapshots[c])
    BY <1>3, NoDrift DEF TypeInv, IsChangeSet
  <2>2. SeenInv'
    BY <1>1, <1>3, <2>1 DEF SeenInv
  <2>. QED BY <1>1, <1>3, <2>2 DEF ConsentInv, Covered, RecordInv
<1>4. CASE pc \in {"verifying", "repairing"} /\ pc' \in {"repairing", "offering"}
  BY <1>1, <1>4 DEF ConsentInv, Covered, SeenInv, RecordInv
<1>. QED BY <1>2, <1>3, <1>4, WaitsShape

LEMMA AllLow ==
  ASSUME NEW edits, NEW w, NEW prior, overallRisk(edits, w, prior) = Low
  PROVE  AllFormats(edits)
<1>1. ASSUME NEW i \in DOMAIN edits PROVE edits[i].kind = "setNumberFormat"
  <2>1. riskOf(edits[i], w, prior) <= Low
    BY RiskBounds
  <2>. QED BY <2>1, LowIsFormat
<1>. QED BY <1>1 DEF AllFormats

LEMMA ExecuteKeeps == TypeInv /\ Execute => RunInv'
<1>. SUFFICES ASSUME TypeInv, Execute PROVE RunInv'
  OBVIOUS
<1>1. /\ cs'.applied = <<>> /\ foreign' = {} /\ pc' \in {"done", "drift", "approveChange"}
      /\ \A c \in Touched(cs'.edits) : c \in Cells /\ cs'.snapshots[c] = live.cells[c]
      /\ \A c \in Cells : seen'[c] = content(live.cells[c])
      /\ live' = live
  BY ExecuteShape
<1>2. pc' = "drift" => cs'.risk = Low /\ AllFormats(cs'.edits)
  BY ExecuteShape, AllLow
<1>3. ConsentInv'
  BY <1>1, <1>2 DEF ConsentInv, Covered
<1>4. SeenInv'
  BY <1>1 DEF SeenInv
<1>5. RecordInv'
  BY <1>1 DEF RecordInv
<1>. QED BY <1>3, <1>4, <1>5 DEF RunInv

LEMMA DecideChangeKeeps ==
  ASSUME TypeInv, RunInv, NEW yes \in BOOLEAN, DecideChange(yes)
  PROVE  RunInv'
<1>. USE DEF RunInv
<1>1. UNCHANGED <<live, cs, foreign, seen, lastWrite>> /\ pc = "approveChange"
      /\ pc' \in {"drift", "done"} /\ (pc' = "drift" => Granted(cs))
  BY DEF DecideChange, finish
<1>2. CASE pc' = "done"
  BY <1>2 DEF ConsentInv, SeenInv, RecordInv
<1>3. CASE pc' = "drift"
  <2>1. /\ consent'.cells = consent.cells \cup Touched(cs.edits)
        /\ cs.risk <= consent'.risk /\ consent'.edits = cs.edits
    BY <1>1, <1>3, GrantedTypes DEF TypeInv
  <2>2. ConsentInv'
    BY <1>1, <1>3, <2>1 DEF ConsentInv, Covered
  <2>. QED BY <1>1, <1>3, <2>2 DEF SeenInv, RecordInv
<1>. QED BY <1>1, <1>2, <1>3

LEMMA ApplyKeeps == TypeInv /\ RunInv /\ Apply => RunInv'
<1>. SUFFICES ASSUME TypeInv, RunInv, Apply PROVE RunInv'
  OBVIOUS
<1>. USE DEF RunInv
<1>1. /\ cs'.edits = cs.edits /\ cs'.risk = cs.risk /\ DOMAIN cs'.applied = Touched(cs.edits)
      /\ \A c \in Touched(cs.edits) : /\ content(cs'.applied[c]) = content(live'.cells[c])
                                      /\ lastWrite'[c] = content(live'.cells[c])
      /\ pc' = "verifying" /\ consent' = consent
  BY ApplyShape
<1>2. pc = "applying"
  BY DEF Apply
<1>3. ConsentInv' /\ SeenInv'
  BY <1>1, <1>2 DEF ConsentInv, Covered, SeenInv
<1>4. RecordInv'
  BY <1>1 DEF RecordInv
<1>. QED BY <1>3, <1>4

LEMMA RepairKeeps ==
  ASSUME TypeInv, RunInv, pc \in {"repairing", "approveRepair"},
         NEW s, IsChangeSet(s), RepairLands(s),
         \/ consent' = consent /\ Touched(s.edits) \subseteq Touched(cs.edits)
         \/ Granted(s)
  PROVE  RunInv'
<1>. USE DEF RunInv
<1>1. pc' = "verifying" /\ cs'.risk = cs.risk
      /\ Touched(cs'.edits) = Touched(cs.edits) \cup Touched(s.edits)
  BY RepairShape DEF RepairLands
<1>2. Covered'
  <2>1. CASE consent' = consent /\ Touched(s.edits) \subseteq Touched(cs.edits)
    BY <1>1, <2>1 DEF ConsentInv, Covered
  <2>2. CASE Granted(s)
    <3>1. /\ consent'.cells = consent.cells \cup Touched(s.edits)
          /\ consent.risk <= consent'.risk /\ consent'.risk \in {Low, Medium, High}
      BY <2>2, GrantedTypes
    <3>2. /\ cs.risk \in Int /\ consent.risk \in Int /\ consent'.risk \in Int
      BY <3>1 DEF TypeInv, IsChangeSet, Low, Medium, High
    <3>. QED BY <1>1, <3>1, <3>2 DEF ConsentInv, Covered
  <2>. QED BY <2>1, <2>2
<1>3. ConsentInv' /\ SeenInv'
  BY <1>1, <1>2 DEF ConsentInv, SeenInv
<1>4. RecordInv'
  <2>1. /\ DOMAIN cs'.applied = DOMAIN cs.applied \cup Touched(s.edits)
        /\ \A c \in Touched(s.edits) :
             /\ content(cs'.applied[c]) = content(live'.cells[c])
             /\ lastWrite'[c] = content(live'.cells[c])
        /\ \A c \in Cells \ Touched(s.edits) :
             /\ content(live'.cells[c]) = content(live.cells[c])
             /\ lastWrite'[c] = lastWrite[c]
        /\ \A c \in DOMAIN cs.applied \ Touched(s.edits) : cs'.applied[c] = cs.applied[c]
        /\ foreign' = foreign \ Touched(s.edits)
    BY RepairShape
  <2>2. Touched(cs.edits) \subseteq Cells
    BY TouchedCells DEF TypeInv, IsChangeSet
  <2>. QED BY <1>1, <2>1, <2>2 DEF RecordInv
<1>. QED BY <1>3, <1>4

LEMMA HumanKeeps ==
  ASSUME TypeInv, RunInv, NEW e \in HumanEdits, Human(e)
  PROVE  RunInv'
<1>. USE DEF RunInv
<1>1. /\ foreign \subseteq foreign'
      /\ \A c \in Cells \ foreign' : content(live'.cells[c]) = content(live.cells[c])
      /\ pc # "applying" => seen' = seen
      /\ pc = "applying" =>
           \A c \in Cells : content(live.cells[c]) = seen[c]
                              => content(live'.cells[c]) = seen'[c]
      /\ UNCHANGED <<pc, cs, lastWrite, consent>>
  BY HumanChanges DEF run
<1>2. Touched(cs.edits) \subseteq Cells
  BY TouchedCells DEF TypeInv, IsChangeSet
<1>3. ConsentInv'
  BY <1>1 DEF ConsentInv, Covered
<1>4. SeenInv'
  BY <1>1, <1>2 DEF SeenInv
<1>5. RecordInv'
  BY <1>1, <1>2 DEF RecordInv
<1>. QED BY <1>3, <1>4, <1>5

\* What a repair in scope touches was touched before, and what it may change
\* was accepted at that risk.
LEMMA InScope ==
  ASSUME TypeInv, RunInv, NEW edits \in RepairLists, RepairInScope(edits)
  PROVE  LET s == proposeChangeSet(live, edits)
         IN  /\ RepairLands(s) /\ IsChangeSet(s) /\ s.edits = edits
             /\ Touched(edits) \subseteq Touched(cs.edits)
             /\ \A i \in DOMAIN edits :
                  isCellEdit(edits[i]) /\ riskOf(edits[i], live, cs.snapshots) <= cs.risk
             /\ UNCHANGED consent
<1>. DEFINE s == proposeChangeSet(live, edits)
<1>1. RepairLands(s) /\ UNCHANGED consent /\ classifyRepair(live, cs, edits)
  BY DEF RepairInScope, RepairLands
<1>2. IsChangeSet(s) /\ s.edits = edits
  BY EmittedLists, Proposed DEF TypeInv
<1>3. /\ \A i \in DOMAIN edits : isCellEdit(edits[i])
      /\ Touched(edits) \subseteq DOMAIN cs.snapshots
      /\ overallRisk(edits, live, cs.snapshots) <= cs.risk
  BY <1>1 DEF classifyRepair
<1>4. DOMAIN cs.snapshots = Touched(cs.edits) /\ cs.risk \in {Low, Medium, High}
  BY DEF TypeInv, IsChangeSet
<1>. HIDE DEF s
<1>5. ASSUME NEW i \in DOMAIN edits PROVE riskOf(edits[i], live, cs.snapshots) <= cs.risk
  <2>1. /\ riskOf(edits[i], live, cs.snapshots) \in {Low, Medium, High}
        /\ riskOf(edits[i], live, cs.snapshots) <= overallRisk(edits, live, cs.snapshots)
        /\ overallRisk(edits, live, cs.snapshots) \in {Low, Medium, High}
    BY RiskBounds
  <2>. QED BY <2>1, <1>3, <1>4 DEF Low, Medium, High
<1>. QED BY <1>1, <1>2, <1>3, <1>4, <1>5 DEF s

LEMMA RunStep == TypeInv /\ RunInv /\ [Next]_vars => RunInv'
<1>. SUFFICES ASSUME TypeInv, RunInv, [Next]_vars PROVE RunInv'
  OBVIOUS
<1>1. CASE Waits
  BY <1>1, WaitsKeep
<1>2. CASE Execute
  BY <1>2, ExecuteKeeps
<1>3. ASSUME NEW yes \in BOOLEAN, DecideChange(yes) PROVE RunInv'
  BY <1>3, DecideChangeKeeps
<1>4. CASE Apply
  BY <1>4, ApplyKeeps
<1>5. ASSUME NEW edits \in RepairLists, RepairInScope(edits) PROVE RunInv'
  <2>1. pc \in {"repairing", "approveRepair"}
    BY <1>5 DEF RepairInScope
  <2>. QED BY <1>5, <2>1, InScope, RepairKeeps
<1>6. ASSUME NEW edits \in RepairLists, RepairNeedsApproval(edits) PROVE RunInv'
  <2>1. /\ UNCHANGED <<live, cs, foreign, lastWrite, consent>>
        /\ pc = "repairing" /\ pc' = "approveRepair"
    BY <1>6 DEF RepairNeedsApproval
  <2>. QED BY <2>1 DEF RunInv, ConsentInv, Covered, SeenInv, RecordInv
<1>7. CASE RejectRepair
  <2>1. /\ UNCHANGED <<live, cs, foreign, lastWrite, consent>>
        /\ pc = "approveRepair" /\ pc' = "offering"
    BY <1>7 DEF RejectRepair, history
  <2>. QED BY <2>1 DEF RunInv, ConsentInv, SeenInv, RecordInv
<1>8. CASE ApproveRepair
  <2>1. pc \in {"repairing", "approveRepair"} /\ RepairLands(repairSet) /\ Granted(repairSet)
    BY <1>8 DEF ApproveRepair, RepairLands
  <2>. QED BY <2>1, RepairKeeps DEF TypeInv
<1>9. CASE AcceptRollback
  <2>1. pc' = "done"
    BY <1>9 DEF AcceptRollback, finish
  <2>. QED BY <2>1 DEF RunInv, ConsentInv, SeenInv, RecordInv
<1>10. ASSUME NEW e \in HumanEdits, Human(e) PROVE RunInv'
  BY <1>10, HumanKeeps
<1>11. CASE UNCHANGED vars
  BY <1>11 DEF RunInv, ConsentInv, Covered, SeenInv, RecordInv, vars, run, history
<1>. QED BY <1>1, <1>2, <1>3, <1>4, <1>5, <1>6, <1>7, <1>8, <1>9, <1>10, <1>11
         DEF Next, Agent, Waits

-----------------------------------------------------------------------------
(* The steps the properties are about.                                       *)

LEMMA WhoWrites ==
  ASSUME [Next]_vars, pc # "verifying", pc' = "verifying"
  PROVE  \/ Apply
         \/ \E edits \in RepairLists : RepairInScope(edits)
         \/ ApproveRepair
<1>1. CASE Waits
  BY <1>1, WaitsShape
<1>2. CASE Execute
  BY <1>2 DEF Execute, finish
<1>3. ASSUME NEW yes \in BOOLEAN, DecideChange(yes) PROVE FALSE
  BY <1>3 DEF DecideChange, finish
<1>4. ASSUME NEW edits \in RepairLists, RepairNeedsApproval(edits) PROVE FALSE
  BY <1>4 DEF RepairNeedsApproval
<1>5. CASE RejectRepair
  BY <1>5 DEF RejectRepair
<1>6. CASE AcceptRollback
  BY <1>6 DEF AcceptRollback, finish
<1>7. ASSUME NEW e \in HumanEdits, Human(e) PROVE FALSE
  BY <1>7 DEF Human
<1>8. CASE UNCHANGED vars
  BY <1>8 DEF vars
<1>. QED BY <1>1, <1>2, <1>3, <1>4, <1>5, <1>6, <1>7, <1>8 DEF Next, Agent, Waits

\* Only two steps end a run with these outcomes.
LEMMA WhoEnds ==
  ASSUME [Next]_vars, outcome' # outcome
  PROVE  /\ outcome' = "rolled-back" => AcceptRollback
         /\ outcome' = "aborted-drift" => pc = "drift"
<1>1. CASE Waits
  BY <1>1, WaitsShape
<1>2. CASE Execute
  BY <1>2 DEF Execute, finish
<1>3. ASSUME NEW yes \in BOOLEAN, DecideChange(yes)
      PROVE  outcome' \notin {"rolled-back", "aborted-drift"}
  BY <1>3 DEF DecideChange, finish
<1>4. CASE Apply \/ RejectRepair \/ ApproveRepair
  BY <1>4 DEF Apply, RejectRepair, ApproveRepair
<1>5. ASSUME NEW edits \in RepairLists, RepairInScope(edits) \/ RepairNeedsApproval(edits)
      PROVE  FALSE
  BY <1>5 DEF RepairInScope, RepairNeedsApproval
<1>6. CASE AcceptRollback
  BY <1>6 DEF AcceptRollback, finish
<1>7. ASSUME NEW e \in HumanEdits, Human(e) PROVE FALSE
  BY <1>7 DEF Human, run
<1>8. CASE UNCHANGED vars
  BY <1>8 DEF vars, run
<1>. QED BY <1>1, <1>2, <1>3, <1>4, <1>5, <1>6, <1>7, <1>8 DEF Next, Agent, Waits

\* What the rollback leaves and reports.
LEMMA RollbackShape ==
  ASSUME TypeInv, AcceptRollback
  PROVE  /\ live'.sheets \subseteq live.sheets
         /\ \A c \in Cells : SheetOf[c] \in live'.sheets =>
              content(live'.cells[c]) = IF c \in Ours(live, cs) THEN content(cs.snapshots[c])
                                        ELSE content(live.cells[c])
         /\ report'.conflicts =
              {c \in DOMAIN cs.snapshots \ Ours(live, cs) : SheetOf[c] \in live.sheets}
         /\ pc = "offering"
<1>. DEFINE r == rollback(live, cs)
<1>1. live' = Recalculate(r.wb) /\ report' = r.report /\ pc = "offering"
  BY DEF AcceptRollback
<1>2. /\ IsWorkbook(r.wb)
      /\ r.wb.sheets \subseteq live.sheets
      /\ \A c \in Cells : SheetOf[c] \in r.wb.sheets =>
           r.wb.cells[c] = IF c \in Ours(live, cs) THEN cs.snapshots[c] ELSE live.cells[c]
      /\ r.report.conflicts =
           {c \in DOMAIN cs.snapshots \ Ours(live, cs) : SheetOf[c] \in live.sheets}
  BY RolledBack DEF TypeInv
<1>. HIDE DEF r
<1>3. /\ live'.sheets = r.wb.sheets
      /\ \A c \in Cells : content(live'.cells[c]) = content(r.wb.cells[c])
  BY <1>1, <1>2, Recalculated, ContentRecalculated
<1>. QED BY <1>1, <1>2, <1>3

-----------------------------------------------------------------------------
(* What the run may write.                                                   *)

LEMMA AppliesWhatWasRead ==
  TypeInv /\ RunInv /\ [Next]_vars => (Applies => Touched(cs.edits) \cap unseen = {})
<1>. SUFFICES ASSUME TypeInv, RunInv, [Next]_vars, Applies
              PROVE  Touched(cs.edits) \cap unseen = {}
  OBVIOUS
<1>1. \A c \in Touched(cs.edits) : content(live.cells[c]) = seen[c]
  BY DEF RunInv, SeenInv, Applies
<1>. QED BY <1>1 DEF unseen

\* INV-8: whatever people do between the proposal and the drift check, no cell
\* is written whose content is not what the approver was shown.
THEOREM NoUnseenContentIsOverwritten == Spec => AppliedOnlyOnWhatWasRead
  BY TypeInit, TypeStep, RunInit, RunStep, AppliesWhatWasRead, PTL
     DEF Spec, AppliedOnlyOnWhatWasRead

\* ConsentCoversWrites, of one step.
Consented ==
  \/ Landed = consent'.edits
  \/ \A i \in DOMAIN Landed :
       \/ Landed[i].kind = "setNumberFormat"
       \/ /\ isCellEdit(Landed[i])
          /\ Landed[i].cell \in consent'.cells
          /\ riskOf(Landed[i], live, cs.snapshots) <= consent'.risk

LEMMA WritesAreConsented ==
  TypeInv /\ RunInv /\ [Next]_vars => (Applies \/ Repairs => Consented)
<1>. SUFFICES ASSUME TypeInv, RunInv, [Next]_vars, Applies \/ Repairs
              PROVE  Consented
  OBVIOUS
<1>1. CASE Apply
  <2>1. Applies /\ consent' = consent
    BY <1>1 DEF Apply, Applies
  <2>2. Landed = cs.edits
    BY <2>1 DEF Landed
  <2>3. consent.edits = cs.edits \/ AllFormats(cs.edits)
    BY <2>1 DEF RunInv, ConsentInv, Applies
  <2>. QED BY <2>1, <2>2, <2>3 DEF Consented, AllFormats
<1>2. ASSUME NEW edits \in RepairLists, RepairInScope(edits) PROVE Consented
  <2>. DEFINE s == proposeChangeSet(live, edits)
  <2>1. /\ RepairLands(s) /\ IsChangeSet(s) /\ s.edits = edits
        /\ Touched(edits) \subseteq Touched(cs.edits)
        /\ \A i \in DOMAIN edits :
             isCellEdit(edits[i]) /\ riskOf(edits[i], live, cs.snapshots) <= cs.risk
        /\ consent' = consent
    BY <1>2, InScope
  <2>. HIDE DEF s
  <2>2. pc = "repairing"
    BY <1>2 DEF RepairInScope
  <2>3. Landed = edits
    BY <2>1, <2>2, RepairShape DEF Landed, Applies
  <2>4. Covered
    BY <2>2 DEF RunInv, ConsentInv
  <2>5. CASE cs.risk = Low
    BY <2>1, <2>3, <2>5, LowIsFormat DEF Consented
  <2>6. CASE cs.risk <= consent.risk /\ Touched(cs.edits) \subseteq consent.cells
    <3>1. ASSUME NEW i \in DOMAIN edits
          PROVE  /\ isCellEdit(edits[i]) /\ edits[i].cell \in consent.cells
                 /\ riskOf(edits[i], live, cs.snapshots) <= consent.risk
      <4>1. isCellEdit(edits[i]) /\ riskOf(edits[i], live, cs.snapshots) <= cs.risk
        BY <2>1
      <4>2. edits[i].cell \in Touched(edits)
        BY <4>1 DEF Touched
      <4>3. /\ riskOf(edits[i], live, cs.snapshots) \in {Low, Medium, High}
            /\ cs.risk \in {Low, Medium, High} /\ consent.risk \in {Low, Medium, High}
        BY RiskBounds DEF TypeInv, IsChangeSet
      <4>. QED BY <2>1, <2>6, <4>1, <4>2, <4>3 DEF Low, Medium, High
    <3>. QED BY <2>1, <2>3, <3>1 DEF Consented
  <2>. QED BY <2>4, <2>5, <2>6 DEF Covered
<1>3. CASE ApproveRepair
  <2>1. RepairLands(repairSet) /\ Granted(repairSet) /\ pc = "approveRepair"
    BY <1>3 DEF ApproveRepair, RepairLands
  <2>2. Landed = repairSet.edits
    BY <2>1, RepairShape DEF Landed, Applies, TypeInv
  <2>3. consent'.edits = repairSet.edits
    BY <2>1, GrantedTypes DEF TypeInv
  <2>. QED BY <2>2, <2>3 DEF Consented
<1>. QED BY <1>1, <1>2, <1>3, WhoWrites DEF Applies, Repairs

\* INV-2 and D-028: every write rides on a yes to that very edit list, or to
\* those cells at that risk, and else is a number format.
THEOREM NothingLandsUnapproved == Spec => ConsentCoversWrites
  BY TypeInit, TypeStep, RunInit, RunStep, WritesAreConsented, PTL
     DEF Spec, ConsentCoversWrites, Consented

-----------------------------------------------------------------------------
(* What the rollback may take away, and what counts as an edit.              *)

\* RollbackYieldsToLaterEdits, of one step.
Yields ==
  \A c \in DOMAIN cs.snapshots :
    /\ SheetOf[c] \in live'.sheets
    /\ content(live.cells[c]) # lastWrite[c]
    => content(live'.cells[c]) = content(live.cells[c])

LEMMA RollbackYields ==
  TypeInv /\ RunInv /\ [Next]_vars => (RollsBack => Yields)
<1>. SUFFICES ASSUME TypeInv, RunInv, [Next]_vars, RollsBack,
                     NEW c \in DOMAIN cs.snapshots, SheetOf[c] \in live'.sheets,
                     content(live.cells[c]) # lastWrite[c]
              PROVE  content(live'.cells[c]) = content(live.cells[c])
  BY DEF Yields
<1>1. AcceptRollback
  BY WhoEnds DEF RollsBack
<1>2. /\ pc = "offering"
      /\ \A x \in Cells : SheetOf[x] \in live'.sheets =>
           content(live'.cells[x]) = IF x \in Ours(live, cs) THEN content(cs.snapshots[x])
                                     ELSE content(live.cells[x])
  BY <1>1, RollbackShape
<1>3. c \in Touched(cs.edits) /\ c \in Cells
  BY TouchedCells DEF TypeInv, IsChangeSet
<1>4. content(cs.applied[c]) = lastWrite[c]
  BY <1>2, <1>3 DEF RunInv, RecordInv
<1>5. c \notin Ours(live, cs)
  BY <1>4, DiffersIsContent DEF Ours, changedSinceApply
<1>. QED BY <1>2, <1>3, <1>5

\* D-026: a rollback leaves every cell alone that holds something else than
\* the run last wrote there.
THEOREM RollbackIsPolite == Spec => RollbackYieldsToLaterEdits
  BY TypeInit, TypeStep, RunInit, RunStep, RollbackYields, PTL
     DEF Spec, RollbackYieldsToLaterEdits, Yields

OnlyEditsCount ==
  /\ outcome # "aborted-drift" /\ outcome' = "aborted-drift" =>
       checkDrift(live, cs.snapshots) \subseteq foreign
  /\ RollsBack => report'.conflicts \subseteq foreign

LEMMA EditsCount == TypeInv /\ RunInv /\ [Next]_vars => OnlyEditsCount
<1>. SUFFICES ASSUME TypeInv, RunInv, [Next]_vars PROVE OnlyEditsCount
  OBVIOUS
<1>1. DOMAIN cs.snapshots = Touched(cs.edits) /\ Touched(cs.edits) \subseteq Cells
  BY TouchedCells DEF TypeInv, IsChangeSet
<1>2. ASSUME outcome # "aborted-drift", outcome' = "aborted-drift"
      PROVE  checkDrift(live, cs.snapshots) \subseteq foreign
  <2>1. pc = "drift"
    BY <1>2, WhoEnds
  <2>2. \A c \in Touched(cs.edits) \ foreign : content(live.cells[c]) = content(cs.snapshots[c])
    BY <2>1 DEF RunInv, RecordInv
  <2>. QED BY <1>1, <2>2, NoDrift DEF checkDrift
<1>3. ASSUME RollsBack PROVE report'.conflicts \subseteq foreign
  <2>1. AcceptRollback
    BY <1>3, WhoEnds DEF RollsBack
  <2>2. /\ pc = "offering"
        /\ report'.conflicts =
             {c \in DOMAIN cs.snapshots \ Ours(live, cs) : SheetOf[c] \in live.sheets}
    BY <2>1, RollbackShape
  <2>3. /\ DOMAIN cs.applied = Touched(cs.edits)
        /\ \A c \in Touched(cs.edits) :
             /\ content(cs.applied[c]) = lastWrite[c]
             /\ c \notin foreign => content(live.cells[c]) = lastWrite[c]
    BY <2>2 DEF RunInv, RecordInv
  <2>4. ASSUME NEW c \in Touched(cs.edits) \ foreign, SheetOf[c] \in live.sheets
        PROVE  c \in Ours(live, cs)
    <3>1. content(cs.applied[c]) = content(live.cells[c])
      BY <2>3
    <3>2. ~changedSinceApply(cs.applied[c], live.cells[c])
      BY <3>1, DiffersIsContent DEF changedSinceApply
    <3>. QED BY <1>1, <2>3, <2>4, <3>2 DEF Ours
  <2>. QED BY <1>1, <2>2, <2>4
<1>. QED BY <1>2, <1>3 DEF OnlyEditsCount

\* A drift abort and a rollback conflict name only cells people changed: the
\* recalculations in between are never taken for edits.
THEOREM RecalculationIsNotDrift == Spec => RecalculationIsNoEdit
  BY TypeInit, TypeStep, RunInit, RunStep, EditsCount, PTL
     DEF Spec, RecalculationIsNoEdit, OnlyEditsCount

-----------------------------------------------------------------------------
(* With nobody else at work, one rollback undoes the change set and all its   *)
(* repairs.                                                                  *)

\* A cell as it was, but for the value of a formula.
AsBefore(c, cell) ==
  LET was == OriginalWorkbook.cells[c]
  IN  /\ cell.absent = was.absent /\ cell.formula = was.formula /\ cell.format = was.format
      /\ was.formula = None => cell.value = was.value

\* Edits led from the original workbook to w, and these snapshots and inverses
\* lead back.
LeadsBack(w, edits, snaps, ops) ==
  /\ \A c \in Cells \ Touched(edits) : AsBefore(c, w.cells[c])
  /\ \A c \in Touched(edits) : AsBefore(c, snaps[c])
  /\ w.names = [n \in DOMAIN OriginalWorkbook.names |-> w.names[n]]
  /\ NamesFit(ops, OriginalWorkbook.names, w.names)
  /\ OriginalWorkbook.sheets \subseteq w.sheets
  /\ \A i \in DOMAIN edits : SheetsOf(edits[i]) \subseteq w.sheets
  /\ Deleted(ops) \cap OriginalWorkbook.sheets = {}
  /\ \A s \in w.sheets \ OriginalWorkbook.sheets :
       Mentioned(edits, s) /\ s \in ImplicitSheets(edits) \cup Deleted(ops)

ExactInv ==
  humanEdits = 0 =>
    /\ foreign = {}
    /\ pc \in {"planning", "approvePlan", "executing", "approveChange", "drift", "applying"}
         => live = OriginalWorkbook
    /\ pc \in {"approveChange", "drift", "applying"} => cs = proposeChangeSet(live, cs.edits)
    /\ pc \in {"verifying", "repairing", "approveRepair", "offering"}
         => LeadsBack(live, cs.edits, cs.snapshots, cs.compensation)
    /\ pc = "approveRepair" => repairSet = proposeChangeSet(live, repairSet.edits)

\* Only values of formulas differ: a recalculation brings them back.
LEMMA RecalculatedBack ==
  ASSUME NEW w, IsWorkbook(w), \A c \in Cells : AsBefore(c, w.cells[c])
  PROVE  Recalculate(w).cells = OriginalWorkbook.cells
<1>. DEFINE o == OriginalWorkbook
            input(x, c) == x.cells[RefOf[x.cells[c].formula]]
            result(x, c) == IF x.cells[c].formula \in Broken THEN Error
                            ELSE IF input(x, c).absent THEN "0"
                            ELSE IF input(x, c).formula # None THEN "computed"
                            ELSE input(x, c).value
            cell(x, c) == IF x.cells[c].formula = None THEN x.cells[c]
                          ELSE [x.cells[c] EXCEPT !.value = result(x, c)]
<1>1. ASSUME NEW x, IsWorkbook(x)
      PROVE  Recalculate(x).cells = [c \in Cells |-> cell(x, c)]
  <2>. DEFINE cells == [c \in Cells |-> cell(x, c)]
  <2>1. Recalculate(x) = [x EXCEPT !.cells = cells]
    BY DEF Recalculate
  <2>. HIDE DEF cells
  <2>2. Recalculate(x).cells = cells
    BY <1>1, <2>1 DEF IsWorkbook
  <2>. QED BY <2>2 DEF cells
<1>2. IsWorkbook(o) /\ Recalculate(o) = o
  BY WorkbookAssumption, CurrentAssumption
<1>3. \A c \in Cells : cell(o, c) = o.cells[c]
  <2>1. o.cells = [c \in Cells |-> cell(o, c)]
    BY <1>1, <1>2
  <2>. HIDE DEF cell, o
  <2>. QED BY <2>1
<1>4. ASSUME NEW c \in Cells
      PROVE  cell(w, c) = o.cells[c]
  <2>1. /\ w.cells[c].absent = o.cells[c].absent /\ w.cells[c].formula = o.cells[c].formula
        /\ w.cells[c].format = o.cells[c].format
        /\ o.cells[c].formula = None => w.cells[c].value = o.cells[c].value
    BY DEF AsBefore
  <2>2. IsCell(w.cells[c]) /\ IsCell(o.cells[c])
    BY <1>2 DEF IsWorkbook
  <2>3. CASE o.cells[c].formula = None
    BY <2>1, <2>2, <2>3 DEF IsCell
  <2>4. CASE o.cells[c].formula # None
    <3>1. RefOf[o.cells[c].formula] \in Cells
      BY <2>4, CurrentAssumption
    <3>2. /\ input(w, c).absent = input(o, c).absent /\ input(w, c).formula = input(o, c).formula
          /\ input(o, c).formula = None => input(w, c).value = input(o, c).value
      BY <2>1, <3>1 DEF AsBefore
    <3>3. result(w, c) = result(o, c)
      BY <2>1, <3>2
    <3>. HIDE DEF result, input
    <3>4. [w.cells[c] EXCEPT !.value = result(w, c)] = [o.cells[c] EXCEPT !.value = result(o, c)]
      BY <2>1, <2>2, <3>3 DEF IsCell
    <3>5. cell(w, c) = cell(o, c)
      BY <2>1, <2>4, <3>4
    <3>. QED BY <3>5, <1>3
  <2>. QED BY <2>3, <2>4
<1>5. o.cells = [c \in Cells |-> o.cells[c]]
  BY <1>2 DEF IsWorkbook
<1>. HIDE DEF cell
<1>. QED BY <1>1, <1>4, <1>5

\* Sheets that a cell edit named first, in a longer list.
LEMMA ImplicitGrows ==
  ASSUME NEW e, IsEditList(e), NEW f, IsEditList(f)
  PROVE  /\ ImplicitSheets(e) \subseteq ImplicitSheets(e \o f)
         /\ \A s : Mentioned(e, s) \/ Mentioned(f, s) => Mentioned(e \o f, s)
         /\ \A s : (/\ s \notin OriginalWorkbook.sheets /\ Mentioned(f, s) /\ ~Mentioned(e, s)
                   /\ \A i \in DOMAIN f : ~(f[i].kind = "createSheet" /\ f[i].sheet = s))
                  => s \in ImplicitSheets(e \o f)
<1>. DEFINE a == e \o f
            m == Len(e)
            k == Len(f)
<1>1. /\ m \in Nat /\ k \in Nat /\ DOMAIN e = 1 .. m /\ DOMAIN f = 1 .. k
      /\ Len(a) = m + k /\ DOMAIN a = 1 .. (m + k)
      /\ \A i \in 1 .. m : a[i] = e[i]
      /\ \A i \in 1 .. k : a[m + i] = f[i]
  BY ListDomain, ListConcat DEF IsEditList
<1>2. Touched(a) = Touched(e) \cup Touched(f)
  BY TouchedConcat
<1>. HIDE DEF a, m, k
<1>3. /\ \A i \in 1 .. m : i \in 1 .. (m + k) /\ \A j \in 1 .. (i - 1) : j \in 1 .. m
      /\ \A i \in 1 .. k : m + i \in 1 .. (m + k)
      /\ \A i \in 1 .. k : \A j \in 1 .. ((m + i) - 1) :
           j \in 1 .. m \/ (j - m \in 1 .. k /\ m + (j - m) = j)
  BY <1>1
<1>4. ImplicitSheets(e) \subseteq ImplicitSheets(a)
  <2>. SUFFICES ASSUME NEW s \in ImplicitSheets(e) PROVE s \in ImplicitSheets(a)
    OBVIOUS
  <2>1. s \in {SheetOf[c] : c \in Touched(a)} \ OriginalWorkbook.sheets
    BY <1>2 DEF ImplicitSheets
  <2>2. PICK i \in 1 .. m :
          /\ isCellEdit(e[i]) /\ SheetOf[e[i].cell] = s
          /\ \A j \in 1 .. (i - 1) : ~(e[j].kind = "createSheet" /\ e[j].sheet = s)
    BY <1>1 DEF ImplicitSheets
  <2>3. \A j \in 1 .. (i - 1) : a[j] = e[j]
    BY <1>1, <1>3
  <2>4. i \in DOMAIN a /\ a[i] = e[i]
    BY <1>1, <1>3
  <2>. QED BY <2>1, <2>2, <2>3, <2>4 DEF ImplicitSheets
<1>5. \A s : Mentioned(e, s) \/ Mentioned(f, s) => Mentioned(a, s)
  BY <1>1, <1>3 DEF Mentioned
<1>6. ASSUME NEW s, s \notin OriginalWorkbook.sheets, Mentioned(f, s), ~Mentioned(e, s),
             \A i \in DOMAIN f : ~(f[i].kind = "createSheet" /\ f[i].sheet = s)
      PROVE  s \in ImplicitSheets(a)
  <2>1. PICK i \in 1 .. k : isCellEdit(f[i]) /\ SheetOf[f[i].cell] = s
    BY <1>1, <1>6 DEF Mentioned, SheetsOf
  <2>2. f[i].cell \in Touched(f)
    BY <1>1, <2>1 DEF Touched
  <2>3. s \in {SheetOf[c] : c \in Touched(a)} \ OriginalWorkbook.sheets
    BY <1>2, <1>6, <2>1, <2>2
  <2>4. ASSUME NEW j \in 1 .. ((m + i) - 1)
        PROVE  ~(a[j].kind = "createSheet" /\ a[j].sheet = s)
    <3>1. CASE j \in 1 .. m
      BY <1>1, <1>6, <3>1 DEF Mentioned, SheetsOf, isCellEdit, CellKinds
    <3>2. CASE j - m \in 1 .. k /\ m + (j - m) = j
      BY <1>1, <1>6, <3>2
    <3>. QED BY <1>3, <3>1, <3>2
  <2>5. m + i \in DOMAIN a /\ a[m + i] = f[i]
    BY <1>1, <1>3
  <2>. QED BY <2>1, <2>3, <2>4, <2>5 DEF ImplicitSheets
<1>. QED BY <1>4, <1>5, <1>6 DEF a

LEMMA DeletedJoin ==
  ASSUME NEW a, IsList(a), NEW b, IsList(b)
  PROVE  Deleted(a \o b) = Deleted(a) \cup Deleted(b)
<1>. DEFINE all == a \o b
            m == Len(a)
            k == Len(b)
<1>1. /\ m \in Nat /\ k \in Nat /\ DOMAIN a = 1 .. m /\ DOMAIN b = 1 .. k
      /\ DOMAIN all = 1 .. (m + k)
      /\ \A i \in 1 .. m : all[i] = a[i]
      /\ \A i \in 1 .. k : all[m + i] = b[i]
  BY ListDomain, ListConcat
<1>. HIDE DEF all, m, k
<1>2. /\ \A i \in 1 .. m : i \in 1 .. (m + k)
      /\ \A i \in 1 .. k : m + i \in 1 .. (m + k)
      /\ \A i \in 1 .. (m + k) : i \in 1 .. m \/ (i - m \in 1 .. k /\ m + (i - m) = i)
  BY <1>1
<1>3. ASSUME NEW s
      PROVE  s \in Deleted(all) <=> s \in Deleted(a) \/ s \in Deleted(b)
  <2>1. ASSUME NEW i \in 1 .. (m + k), all[i].kind = "deleteSheet", s = all[i].sheet
        PROVE  s \in Deleted(a) \/ s \in Deleted(b)
    <3>1. CASE i \in 1 .. m
      BY <1>1, <2>1, <3>1 DEF Deleted
    <3>2. CASE i - m \in 1 .. k /\ m + (i - m) = i
      <4>1. all[i] = b[i - m] /\ i - m \in DOMAIN b
        BY <1>1, <3>2
      <4>. QED BY <2>1, <4>1 DEF Deleted
    <3>. QED BY <1>2, <3>1, <3>2
  <2>2. ASSUME NEW i \in 1 .. m, a[i].kind = "deleteSheet", s = a[i].sheet
        PROVE  s \in Deleted(all)
    <3>1. i \in DOMAIN all /\ all[i] = a[i]
      BY <1>1, <1>2
    <3>. QED BY <2>2, <3>1 DEF Deleted
  <2>3. ASSUME NEW i \in 1 .. k, b[i].kind = "deleteSheet", s = b[i].sheet
        PROVE  s \in Deleted(all)
    <3>1. m + i \in DOMAIN all /\ all[m + i] = b[i]
      BY <1>1, <1>2
    <3>. QED BY <2>3, <3>1 DEF Deleted
  <2>. QED BY <1>1, <2>1, <2>2, <2>3 DEF Deleted
<1>. QED BY <1>3 DEF all

LEMMA LeadsStart == LeadsBack(OriginalWorkbook, <<>>, <<>>, <<>>)
<1>1. /\ Touched(<<>>) = {} /\ Deleted(<<>>) = {} /\ DOMAIN <<>> = {}
      /\ \A s : ~(s \in 1 .. 0) /\ Len(<<>>) = 0
  BY DEF Touched, Deleted
<1>2. NamesFit(<<>>, OriginalWorkbook.names, OriginalWorkbook.names)
  <2>. DEFINE h == [i \in {0} |-> OriginalWorkbook.names]
  <2>1. h[0] = OriginalWorkbook.names
    OBVIOUS
  <2>2. IsHistory(h, <<>>, OriginalWorkbook.names, OriginalWorkbook.names)
    BY <2>1, <1>1 DEF IsHistory
  <2>. QED BY <2>2 DEF NamesFit
<1>3. \A c \in Cells : AsBefore(c, OriginalWorkbook.cells[c])
  BY DEF AsBefore
<1>. QED BY <1>1, <1>2, <1>3, CurrentAssumption DEF LeadsBack

\* Edits that led here, and more edits with what was proposed for them.
LEMMA LeadsOn ==
  ASSUME NEW w, IsWorkbook(w), NEW e, IsEditList(e), NEW snaps, NEW ops, IsList(ops),
         LeadsBack(w, e, snaps, ops),
         NEW f, IsEditList(f), NEW both,
         \A c \in Touched(e) \cup Touched(f) :
           both[c] = IF c \in Touched(e) THEN snaps[c] ELSE proposeChangeSet(w, f).snapshots[c]
  PROVE  LeadsBack(Recalculate(ApplyEdits(w, f)), e \o f, both,
                   ops \o proposeChangeSet(w, f).compensation)
<1>. DEFINE o == OriginalWorkbook
            s == proposeChangeSet(w, f)
            after == ApplyEdits(w, f)
            v == Recalculate(after)
            inv == planCompensation(w, f)
            all == e \o f
<1>1. /\ \A c \in Touched(f) : s.snapshots[c] = w.cells[c]
      /\ s.compensation = inv
  <2>1. \A c \in Touched(f) : s.snapshots[c] = w.cells[c]
    BY Proposed
  <2>2. s.compensation = inv
    BY DEF proposeChangeSet
  <2>. QED BY <2>1, <2>2
<1>2. /\ \A c \in Cells \ Touched(e) : AsBefore(c, w.cells[c])
      /\ \A c \in Touched(e) : AsBefore(c, snaps[c])
      /\ w.names = [n \in DOMAIN o.names |-> w.names[n]]
      /\ NamesFit(ops, o.names, w.names)
      /\ o.sheets \subseteq w.sheets
      /\ \A i \in DOMAIN e : SheetsOf(e[i]) \subseteq w.sheets
      /\ Deleted(ops) \cap o.sheets = {}
      /\ \A x \in w.sheets \ o.sheets : Mentioned(e, x) /\ x \in ImplicitSheets(e) \cup Deleted(ops)
  BY DEF LeadsBack
<1>3. IsWorkbook(after) /\ \A c \in Cells \ Touched(f) : after.cells[c] = w.cells[c]
  BY EditsApplied
<1>4. /\ DOMAIN w.names = DOMAIN o.names
      /\ w.names = [n \in DOMAIN w.names |-> w.names[n]]
  BY <1>2
<1>5. /\ after.names = [n \in DOMAIN w.names |-> after.names[n]]
      /\ NamesFit(inv, w.names, after.names)
      /\ Deleted(inv) = NewSheets(w, f, Len(f))
      /\ w.sheets \subseteq after.sheets
      /\ \A x \in after.sheets \ w.sheets : Mentioned(f, x)
      /\ \A i \in DOMAIN f : SheetsOf(f[i]) \subseteq after.sheets
  BY <1>4, PlannedBack
<1>6. IsList(inv)
  BY PlanIsList
<1>7. /\ v.sheets = after.sheets /\ v.names = after.names
      /\ \A c \in Cells :
           /\ v.cells[c].absent = after.cells[c].absent
           /\ v.cells[c].formula = after.cells[c].formula
           /\ v.cells[c].format = after.cells[c].format
           /\ after.cells[c].formula = None => v.cells[c] = after.cells[c]
  BY <1>3, Recalculated
<1>8. /\ IsEditList(all) /\ Touched(all) = Touched(e) \cup Touched(f)
      /\ Touched(e) \subseteq Cells /\ Touched(f) \subseteq Cells
  BY TouchedConcat, TouchedCells
<1>9. /\ ImplicitSheets(e) \subseteq ImplicitSheets(all)
      /\ \A x : Mentioned(e, x) \/ Mentioned(f, x) => Mentioned(all, x)
      /\ \A x : (/\ x \notin o.sheets /\ Mentioned(f, x) /\ ~Mentioned(e, x)
                 /\ \A i \in DOMAIN f : ~(f[i].kind = "createSheet" /\ f[i].sheet = x))
                => x \in ImplicitSheets(all)
  BY ImplicitGrows
<1>10. Deleted(ops \o inv) = Deleted(ops) \cup Deleted(inv)
  BY <1>6, DeletedJoin
<1>11. \A x : x \in Deleted(inv) <=>
         x \notin w.sheets /\ \E i \in DOMAIN f : f[i].kind = "createSheet" /\ f[i].sheet = x
  <2>1. DOMAIN f = 1 .. Len(f)
    BY ListDomain DEF IsEditList
  <2>. QED BY <1>5, <2>1 DEF NewSheets
<1>12. \A i \in DOMAIN all : SheetsOf(all[i]) \subseteq v.sheets
  <2>1. /\ Len(e) \in Nat /\ Len(f) \in Nat /\ DOMAIN e = 1 .. Len(e) /\ DOMAIN f = 1 .. Len(f)
        /\ DOMAIN all = 1 .. (Len(e) + Len(f))
        /\ \A i \in 1 .. Len(e) : all[i] = e[i]
        /\ \A i \in 1 .. Len(f) : all[Len(e) + i] = f[i]
    BY ListDomain, ListConcat DEF IsEditList
  <2>. HIDE DEF all, v, after
  <2>. TAKE i \in DOMAIN all
  <2>2. CASE i \in 1 .. Len(e)
    BY <1>2, <1>5, <1>7, <2>1, <2>2
  <2>3. CASE i - Len(e) \in 1 .. Len(f)
    <3>1. all[i] = f[i - Len(e)]
      <4>1. Len(e) + (i - Len(e)) = i
        BY <2>1
      <4>. QED BY <4>1, <2>1, <2>3
    <3>. QED BY <1>5, <1>7, <2>1, <2>3, <3>1
  <2>4. i \in 1 .. Len(e) \/ i - Len(e) \in 1 .. Len(f)
    BY <2>1
  <2>. QED BY <2>2, <2>3, <2>4
<1>. HIDE DEF s, after, v, inv, all
<1>13. \A c \in Cells \ Touched(all) : AsBefore(c, v.cells[c])
  <2>. TAKE c \in Cells \ Touched(all)
  <2>1. AsBefore(c, w.cells[c]) /\ after.cells[c] = w.cells[c]
    BY <1>2, <1>3, <1>8
  <2>. QED BY <1>7, <2>1 DEF AsBefore
<1>14. \A c \in Touched(all) : AsBefore(c, both[c])
  <2>1. \A c \in Touched(all) : both[c] = IF c \in Touched(e) THEN snaps[c] ELSE s.snapshots[c]
    BY <1>8 DEF s
  <2>. QED BY <1>1, <1>2, <1>8, <2>1
<1>15. v.names = [n \in DOMAIN o.names |-> v.names[n]]
  BY <1>4, <1>5, <1>7
<1>16. NamesFit(ops \o inv, o.names, v.names)
  BY <1>2, <1>4, <1>5, <1>6, <1>7, HistoriesJoin
<1>17. \A x \in v.sheets \ o.sheets :
         Mentioned(all, x) /\ x \in ImplicitSheets(all) \cup Deleted(ops \o inv)
  <2>. TAKE x \in v.sheets \ o.sheets
  <2>1. CASE x \in w.sheets
    BY <1>2, <1>9, <1>10, <2>1
  <2>2. CASE x \notin w.sheets
    <3>1. Mentioned(f, x)
      BY <1>5, <1>7, <2>2
    <3>2. ~Mentioned(e, x)
      BY <1>2, <2>2 DEF Mentioned
    <3>. QED BY <1>9, <1>10, <1>11, <2>2, <3>1, <3>2
  <2>. QED BY <2>1, <2>2
<1>18. Deleted(ops \o inv) \cap o.sheets = {}
  BY <1>2, <1>10, <1>11
<1>19. o.sheets \subseteq v.sheets
  BY <1>2, <1>5, <1>7
<1>20. LeadsBack(v, all, both, ops \o inv)
  BY <1>12, <1>13, <1>14, <1>15, <1>16, <1>17, <1>18, <1>19 DEF LeadsBack
<1>. QED BY <1>1, <1>20 DEF v, after, all, s

-----------------------------------------------------------------------------
(* ExactInv is inductive.                                                    *)

LEMMA ExactInit == Init => ExactInv
  BY DEF Init, ExactInv

LEMMA WaitsExact ==
  ASSUME TypeInv, ExactInv, Waits
  PROVE  ExactInv'
<1>1. UNCHANGED <<live, cs, repairSet, foreign, humanEdits>>
  BY DEF Waits, PlannerAnswers, PlanUnparsable, DecidePlan, CheckDrift, Verify, NoRepair,
         DeclineRollback, ProviderThrows, run, history
<1>2. \/ pc' = "done"
      \/ pc \in {"planning", "approvePlan"} /\ pc' \in {"executing", "approvePlan"}
      \/ pc = "drift" /\ pc' = "applying"
      \/ pc \in {"verifying", "repairing"} /\ pc' \in {"repairing", "offering"}
  BY DEF Waits, PlannerAnswers, PlanUnparsable, DecidePlan, CheckDrift, Verify, NoRepair,
         DeclineRollback, ProviderThrows, finish
<1>. QED BY <1>1, <1>2 DEF ExactInv

\* What is proposed is proposed on the workbook as it is.
LEMMA ExecuteExact ==
  ASSUME TypeInv, ExactInv, Execute
  PROVE  ExactInv'
<1>1. /\ foreign' = {} /\ live' = live /\ humanEdits' = humanEdits
      /\ pc' \in {"done", "drift", "approveChange"}
  BY ExecuteShape
<1>2. pc = "executing" /\ cs' = proposeChangeSet(live, plan.edits)
  BY DEF Execute
<1>3. cs'.edits = plan.edits
  BY <1>2, Proposed DEF TypeInv
<1>4. humanEdits = 0 => live = OriginalWorkbook
  BY <1>2 DEF ExactInv
<1>. QED BY <1>1, <1>2, <1>3, <1>4 DEF ExactInv

LEMMA EmptyFirst ==
  ASSUME NEW s, IsList(s)
  PROVE  IsList(<<>>) /\ <<>> \o s = s
<1>1. s \in Seq(ToSet(s))
  BY DEF IsList
<1>. HIDE DEF ToSet
<1>2. <<>> \o s = s
  BY <1>1
<1>. QED BY <1>2, NoEdits DEF IsEditList

\* The first change set leads from the original workbook to this one.
LEMMA ApplyExact ==
  ASSUME TypeInv, ExactInv, Apply
  PROVE  ExactInv'
<1>. SUFFICES ASSUME humanEdits = 0
              PROVE  foreign' = {} /\ LeadsBack(live', cs'.edits, cs'.snapshots, cs'.compensation)
  BY ApplyShape DEF ExactInv
<1>. DEFINE s == proposeChangeSet(live, cs.edits)
            v == Recalculate(ApplyEdits(live, cs.edits))
<1>1. /\ pc = "applying" /\ cs' = applied(live, cs) /\ live' = v
      /\ foreign' = foreign \ Touched(cs.edits)
  BY DEF Apply, Write
<1>2. foreign = {} /\ live = OriginalWorkbook /\ cs = s
  BY <1>1 DEF ExactInv
<1>3. IsChangeSet(cs) /\ IsEditList(cs.edits) /\ IsWorkbook(live)
  BY DEF TypeInv, IsChangeSet
<1>4. cs'.edits = cs.edits /\ cs'.snapshots = cs.snapshots /\ cs'.compensation = cs.compensation
  BY <1>1, <1>3 DEF IsChangeSet, applied
<1>. HIDE DEF s, v
<1>5. Touched(<<>>) = {} /\ IsEditList(<<>>)
  BY NoEdits DEF Touched
<1>6. LeadsBack(v, <<>> \o cs.edits, cs.snapshots, <<>> \o s.compensation)
  <2>1. LeadsBack(live, <<>>, <<>>, <<>>)
    BY <1>2, LeadsStart
  <2>2. \A c \in Touched(<<>>) \cup Touched(cs.edits) :
          cs.snapshots[c] = IF c \in Touched(<<>>) THEN <<>>[c]
                            ELSE proposeChangeSet(live, cs.edits).snapshots[c]
    BY <1>2, <1>5 DEF s
  <2>3. IsList(<<>>)
    BY <1>5 DEF IsEditList
  <2>. QED BY <1>3, <1>5, <2>1, <2>2, <2>3, LeadsOn DEF s, v
<1>7. <<>> \o cs.edits = cs.edits /\ <<>> \o cs.compensation = cs.compensation
  BY <1>3, EmptyFirst DEF IsEditList, IsChangeSet
<1>. QED BY <1>1, <1>2, <1>4, <1>6, <1>7

\* So do the repairs that are merged into it.
LEMMA RepairExact ==
  ASSUME TypeInv, ExactInv, humanEdits' = humanEdits, pc \in {"repairing", "approveRepair"},
         NEW edits, IsEditList(edits), RepairLands(proposeChangeSet(live, edits))
  PROVE  humanEdits = 0 =>
           /\ foreign' = {} /\ pc' = "verifying"
           /\ LeadsBack(live', cs'.edits, cs'.snapshots, cs'.compensation)
<1>. SUFFICES ASSUME humanEdits = 0
              PROVE  /\ foreign' = {} /\ pc' = "verifying"
                     /\ LeadsBack(live', cs'.edits, cs'.snapshots, cs'.compensation)
  OBVIOUS
<1>. DEFINE s == proposeChangeSet(live, edits)
            a == applied(live, s)
            v == Recalculate(ApplyEdits(live, edits))
<1>1. IsWorkbook(live) /\ IsChangeSet(cs) /\ IsChangeSet(s) /\ s.edits = edits
  BY Proposed DEF TypeInv
<1>2. /\ live' = v /\ foreign' = foreign \ Touched(edits)
      /\ cs' = mergeChangeSets(cs, a) /\ pc' = "verifying"
  BY <1>1 DEF RepairLands, Write
<1>3. foreign = {} /\ LeadsBack(live, cs.edits, cs.snapshots, cs.compensation)
  BY DEF ExactInv
<1>4. IsChangeSet(a) /\ a.edits = edits
  BY <1>1, Written DEF RepairLands
<1>5. a.snapshots = s.snapshots /\ a.compensation = s.compensation
  BY <1>1 DEF applied, IsChangeSet
<1>. HIDE DEF s, a, v
<1>. DEFINE m == mergeChangeSets(cs, a)
<1>6. /\ m.edits = cs.edits \o edits /\ m.compensation = cs.compensation \o s.compensation
      /\ Touched(m.edits) = Touched(cs.edits) \cup Touched(edits)
      /\ \A c \in Touched(m.edits) : m.snapshots[c] = IF c \in Touched(cs.edits)
                                                     THEN cs.snapshots[c] ELSE s.snapshots[c]
  <2>1. IsChangeSet(cs) /\ IsChangeSet(a)
    BY <1>1, <1>4
  <2>2. m.edits = cs.edits \o a.edits
    BY <2>1, Merged
  <2>3. m.compensation = cs.compensation \o a.compensation
    BY <2>1, Merged
  <2>4. Touched(m.edits) = Touched(cs.edits) \cup Touched(a.edits)
    BY <2>1, Merged
  <2>5. \A c \in Touched(m.edits) : m.snapshots[c] = IF c \in Touched(cs.edits)
                                                    THEN cs.snapshots[c] ELSE a.snapshots[c]
    BY <2>1, <2>4, EarlierSnapshotWins
  <2>. HIDE DEF m
  <2>. QED BY <1>4, <1>5, <2>2, <2>3, <2>4, <2>5
<1>. HIDE DEF m
<1>7. LeadsBack(v, cs.edits \o edits, m.snapshots, cs.compensation \o s.compensation)
  <2>1. \A c \in Touched(cs.edits) \cup Touched(edits) :
          m.snapshots[c] = IF c \in Touched(cs.edits) THEN cs.snapshots[c]
                           ELSE proposeChangeSet(live, edits).snapshots[c]
    BY <1>6 DEF s
  <2>2. IsList(cs.compensation) /\ IsEditList(cs.edits)
    BY <1>1 DEF IsChangeSet
  <2>. QED BY <1>1, <1>3, <2>1, <2>2, LeadsOn DEF s, v
<1>8. cs' = m
  BY <1>2 DEF m
<1>. QED BY <1>2, <1>3, <1>6, <1>7, <1>8

LEMMA ExactStep == TypeInv /\ RunInv /\ ExactInv /\ [Next]_vars => ExactInv'
<1>. SUFFICES ASSUME TypeInv, RunInv, ExactInv, [Next]_vars PROVE ExactInv'
  OBVIOUS
<1>1. CASE Waits
  BY <1>1, WaitsExact
<1>2. CASE Execute
  BY <1>2, ExecuteExact
<1>3. ASSUME NEW yes \in BOOLEAN, DecideChange(yes) PROVE ExactInv'
  <2>1. /\ UNCHANGED <<live, cs, repairSet, humanEdits, foreign>>
        /\ pc = "approveChange" /\ pc' \in {"drift", "done"}
    BY <1>3 DEF DecideChange, finish
  <2>. QED BY <2>1 DEF ExactInv
<1>4. CASE Apply
  BY <1>4, ApplyExact
<1>5. ASSUME NEW edits \in RepairLists, RepairInScope(edits) PROVE ExactInv'
  <2>1. pc \in {"repairing", "approveRepair"} /\ humanEdits' = humanEdits
    BY <1>5 DEF RepairInScope
  <2>2. RepairLands(proposeChangeSet(live, edits)) /\ IsEditList(edits)
    BY <1>5, InScope, EmittedLists
  <2>3. humanEdits = 0 =>
          /\ foreign' = {} /\ pc' = "verifying"
          /\ LeadsBack(live', cs'.edits, cs'.snapshots, cs'.compensation)
    BY <2>1, <2>2, RepairExact
  <2>4. pc' = "verifying"
    BY <2>2 DEF RepairLands
  <2>. QED BY <2>1, <2>3, <2>4 DEF ExactInv
<1>6. ASSUME NEW edits \in RepairLists, RepairNeedsApproval(edits) PROVE ExactInv'
  <2>1. /\ UNCHANGED <<live, cs, humanEdits, foreign>>
        /\ repairSet' = proposeChangeSet(live, edits)
        /\ pc = "repairing" /\ pc' = "approveRepair"
    BY <1>6 DEF RepairNeedsApproval
  <2>2. repairSet'.edits = edits
    BY <2>1, Proposed, EmittedLists DEF TypeInv
  <2>. QED BY <2>1, <2>2 DEF ExactInv
<1>7. CASE RejectRepair
  <2>1. /\ UNCHANGED <<live, cs, humanEdits, foreign>>
        /\ pc = "approveRepair" /\ pc' = "offering"
    BY <1>7 DEF RejectRepair, history
  <2>. QED BY <2>1 DEF ExactInv
<1>8. CASE ApproveRepair
  <2>. DEFINE s == proposeChangeSet(live, repairSet.edits)
  <2>1. /\ pc = "approveRepair" /\ humanEdits' = humanEdits
        /\ RepairLands(repairSet) /\ pc' = "verifying"
    BY <1>8 DEF ApproveRepair, RepairLands
  <2>2. humanEdits = 0 => RepairLands(s)
    BY <2>1 DEF ExactInv
  <2>3. IsEditList(repairSet.edits)
    BY DEF TypeInv, IsChangeSet
  <2>. HIDE DEF s
  <2>4. humanEdits = 0 =>
          /\ foreign' = {}
          /\ LeadsBack(live', cs'.edits, cs'.snapshots, cs'.compensation)
    BY <2>1, <2>2, <2>3, RepairExact DEF s
  <2>. QED BY <2>1, <2>4 DEF ExactInv
<1>9. CASE AcceptRollback
  <2>1. UNCHANGED <<humanEdits, foreign>> /\ pc' = "done"
    BY <1>9 DEF AcceptRollback, finish, history
  <2>. QED BY <2>1 DEF ExactInv
<1>10. ASSUME NEW e \in HumanEdits, Human(e) PROVE ExactInv'
  <2>1. humanEdits' = humanEdits + 1 /\ humanEdits \in Nat
    BY <1>10, AgentBounds DEF Human, TypeInv
  <2>2. humanEdits' # 0
    BY <2>1
  <2>. QED BY <2>2 DEF ExactInv
<1>11. CASE UNCHANGED vars
  BY <1>11 DEF vars, run, history, ExactInv
<1>. QED BY <1>1, <1>2, <1>3, <1>4, <1>5, <1>6, <1>7, <1>8, <1>9, <1>10, <1>11
     DEF Next, Agent, Waits

\* A rollback of such edits restores the original workbook, its implicit sheets
\* left over.
LEMMA RolledBackExactly ==
  ASSUME TypeInv, RunInv, ExactInv, AcceptRollback, humanEdits = 0
  PROVE  /\ live'.cells = OriginalWorkbook.cells
         /\ live'.names = OriginalWorkbook.names
         /\ OriginalWorkbook.sheets \subseteq live'.sheets
         /\ live'.sheets \subseteq OriginalWorkbook.sheets \cup ImplicitSheets(cs.edits)
<1>. DEFINE o == OriginalWorkbook
            ops == cs.compensation
            w == RestoredBook(live, cs)
            r == applyCompensation(w, ops).wb
<1>1. pc = "offering" /\ live' = Recalculate(rollback(live, cs).wb)
  BY DEF AcceptRollback
<1>2. IsWorkbook(live) /\ IsChangeSet(cs) /\ IsEditList(cs.edits) /\ IsList(ops)
  BY DEF TypeInv, IsChangeSet
<1>3. IsWorkbook(w) /\ rollback(live, cs).wb = r
  BY <1>2, RestoredThenUndone
<1>4. foreign = {} /\ LeadsBack(live, cs.edits, cs.snapshots, ops)
  BY <1>1 DEF ExactInv
<1>5. /\ w.sheets = live.sheets /\ w.names = live.names
      /\ \A c \in Cells : w.cells[c] = IF c \in Ours(live, cs) THEN cs.snapshots[c]
                                        ELSE live.cells[c]
  BY DEF RestoredBook
<1>. HIDE DEF w, r, ops
<1>6. Touched(cs.edits) \subseteq Ours(live, cs)
  <2>. SUFFICES ASSUME NEW c \in Touched(cs.edits) PROVE c \in Ours(live, cs)
    OBVIOUS
  <2>1. c \in DOMAIN cs.applied /\ c \in DOMAIN cs.snapshots
    BY <1>1, <1>2 DEF RunInv, RecordInv, IsChangeSet
  <2>2. content(cs.applied[c]) = content(live.cells[c])
    BY <1>1, <1>4 DEF RunInv, RecordInv
  <2>3. ~changedSinceApply(cs.applied[c], live.cells[c])
    BY <2>2, DiffersIsContent DEF changedSinceApply
  <2>4. SheetOf[c] \in live.sheets
    <3>1. PICK i \in DOMAIN cs.edits : isCellEdit(cs.edits[i]) /\ cs.edits[i].cell = c
      BY DEF Touched
    <3>. QED BY <3>1, <1>4 DEF LeadsBack, SheetsOf
  <2>. QED BY <2>1, <2>3, <2>4 DEF Ours
<1>7. Ours(live, cs) \subseteq Touched(cs.edits)
  BY <1>2 DEF Ours, IsChangeSet
<1>8. ASSUME NEW c \in Cells PROVE AsBefore(c, w.cells[c])
  BY <1>4, <1>5, <1>6, <1>7 DEF LeadsBack
<1>9. Deletable(w, ops)
  <2>. SUFFICES ASSUME NEW c \in Cells, SheetOf[c] \in Deleted(ops)
                PROVE  w.cells[c] = Absent
    BY DEF Deletable
  <2>1. SheetOf[c] \notin o.sheets
    BY <1>4 DEF LeadsBack
  <2>2. o.cells[c] = Absent
    BY <2>1, CurrentAssumption
  <2>3. /\ w.cells[c].absent = TRUE /\ w.cells[c].formula = None
        /\ w.cells[c].format = None /\ w.cells[c].value = Null
    BY <1>8, <2>2 DEF AsBefore, Absent
  <2>4. IsCell(w.cells[c])
    BY <1>3 DEF IsWorkbook
  <2>. QED BY <2>3, <2>4 DEF IsCell, Absent
<1>10. /\ NamesFit(ops, o.names, w.names)
       /\ w.names = [n \in DOMAIN o.names |-> w.names[n]]
       /\ o.names = [n \in DOMAIN o.names |-> o.names[n]]
  BY <1>4, <1>5, CurrentAssumption DEF LeadsBack
<1>11. r.cells = w.cells /\ r.names = o.names /\ r.sheets = w.sheets \ Deleted(ops)
  BY <1>2, <1>3, <1>9, <1>10, TakenBack DEF r
<1>12. IsWorkbook(r)
  BY <1>2, <1>3, RolledBack
<1>13. live' = Recalculate(r)
  BY <1>1, <1>3
<1>14. live'.sheets = r.sheets /\ live'.names = r.names
  BY <1>12, <1>13, Recalculated
<1>15. live'.cells = o.cells
  BY <1>8, <1>11, <1>12, <1>13, RecalculatedBack
<1>16. /\ o.sheets \subseteq live.sheets
       /\ Deleted(ops) \cap o.sheets = {}
       /\ live.sheets \subseteq o.sheets \cup ImplicitSheets(cs.edits) \cup Deleted(ops)
  BY <1>4 DEF LeadsBack
<1>. QED BY <1>5, <1>11, <1>14, <1>15, <1>16

ExactlyBack ==
  /\ live'.cells = OriginalWorkbook.cells
  /\ live'.names = OriginalWorkbook.names
  /\ OriginalWorkbook.sheets \subseteq live'.sheets
  /\ live'.sheets \subseteq OriginalWorkbook.sheets \cup ImplicitSheets(cs.edits)

LEMMA RollbackExact ==
  TypeInv /\ RunInv /\ ExactInv /\ [Next]_vars => (RollsBack /\ humanEdits = 0 => ExactlyBack)
<1>. SUFFICES ASSUME TypeInv, RunInv, ExactInv, [Next]_vars, RollsBack, humanEdits = 0
              PROVE  ExactlyBack
  OBVIOUS
<1>1. AcceptRollback
  BY WhoEnds DEF RollsBack
<1>. QED BY <1>1, RolledBackExactly DEF ExactlyBack

\* D-027 and INV-3: whatever the model proposed, however many repairs there were
\* and whatever they created, with nobody else at work one rollback gives every
\* cell and every name of the original workbook back, and leaves no sheet but
\* those that a cell edit brought about.
THEOREM RollbackUndoesTheRun == Spec => RollbackIsExact
  BY TypeInit, TypeStep, RunInit, RunStep, ExactInit, ExactStep, RollbackExact, PTL
     DEF Spec, RollbackIsExact, ExactlyBack
=============================================================================
