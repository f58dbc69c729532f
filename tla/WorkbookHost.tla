----------------------------- MODULE WorkbookHost -----------------------------
(***************************************************************************)
(* What a workbook host promises the agent loop about one change set         *)
(* (engine/src/host/types.ts), a call at a time and as far as nobody else is *)
(* at work.  The simulator host keeps the promise by doing each call in one  *)
(* step (engine/src/host/simulator.ts); the live host needs many syncs, any  *)
(* of which may fail.                                                        *)
(***************************************************************************)
CONSTANTS
  Before,     \* what the workbook showed when the change set was proposed
  None        \* undefined: no call has ended

VARIABLES
  planned,    \* what the change set, applied in one step, makes the workbook show
  shown,      \* what the workbook shows, at rest
  ended,      \* how the last call ended
  reported,   \* the inverses a call says it did not run
  disturbed   \* did people edit the workbook?

vars == <<planned, shown, ended, reported, disturbed>>

Init ==
  /\ shown = Before
  /\ ended = None
  /\ reported = {}
  /\ disturbed = FALSE

Ends(from, to) == ended = from /\ ended' = to

\* Everything is as it was, but for what the inverses reported would undo.
PutBack ==
  /\ shown'.cells = Before.cells
  /\ Before.sheets \subseteq shown'.sheets
  /\ \A s \in shown'.sheets \ Before.sheets :
       \E op \in reported' : op.kind = "deleteSheet" /\ op.sheet = s
  /\ \A n \in DOMAIN Before.names :
       \/ shown'.names[n] = Before.names[n]
       \/ \E op \in reported' : op.kind \in {"deleteName", "restoreName"} /\ op.name = n

\* apply: all of it, or nothing and the reason.
apply == Ends(None, "applied") /\ shown' = planned /\ UNCHANGED reported
Refuse == Ends(None, "refused") /\ UNCHANGED <<shown, reported>>
Throw == Ends(None, "threw") /\ UNCHANGED <<shown, reported>>
Recover == Ends(None, "recovered") /\ PutBack

\* rollback.
rollback == Ends("applied", "rolled-back") /\ PutBack

\* The calls that admit that the workbook may be half-changed.
Break == Ends(None, "restore-failed") \/ Ends("applied", "rollback-threw")

Call == apply \/ Refuse \/ Throw \/ Recover \/ rollback \/ Break

\* Nothing is promised once people edited.
Disturb == disturbed' = TRUE

Next ==
  /\ UNCHANGED planned
  /\ Disturb \/ (UNCHANGED disturbed /\ Call)

Spec == Init /\ [][Next]_vars
=============================================================================
