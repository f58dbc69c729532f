---------------------------- MODULE TraceHighlight ----------------------------
(***************************************************************************)
(* Painting the dependency chain of an audit finding into the grid, and     *)
(* taking it away again: addin/src/excel/highlight.ts, driven by the Trace  *)
(* and Clear buttons of taskpane/AuditPanel.tsx.                            *)
(*                                                                         *)
(* The fills painted over live in one module variable, saved.  A click is a *)
(* coroutine that awaits one sync per sheet and step:                        *)
(*                                                                         *)
(*   clear   restore*                                                       *)
(*   trace   restore* | (read, paint)* for the chain | read, paint primary  *)
(*                                                                         *)
(* Neither button is disabled meanwhile, so clicks overlap.  Syncs fail,    *)
(* and people recolour cells and delete sheets.                             *)
(***************************************************************************)
EXTENDS Integers, Sequences, FiniteSets, SequencesExt

CONSTANTS
  Cells,
  SheetOf,          \* [Cells -> sheets]
  Fills,            \* the fills people use
  NoFill,           \* the absence of one
  White,            \* "#FFFFFF", which is also what an unfilled cell reads as
  ChainColor,       \* HIGHLIGHT_CHAIN
  PrimaryColor,     \* HIGHLIGHT_PRIMARY
  InitialFills,     \* what the workbook may look like at first
  Traces,           \* the findings: [primary : Cells, chain : Seq(Cells)]
  MaxClicks,        \* bound: clicks in a behaviour
  MaxFailures,      \* bound: syncs the host fails in a behaviour
  MaxHumanActs      \* bound: recolourings and deletions in a behaviour

Clicks == 1 .. MaxClicks
Sheets == {SheetOf[c] : c \in Cells}
Highlights == {ChainColor, PrimaryColor}

ASSUME FillAssumption == /\ {NoFill, White} \subseteq Fills
                         /\ Fills \cap Highlights = {}
                         /\ InitialFills \subseteq [Cells -> Fills]
ASSUME TraceAssumption == Traces \subseteq [primary : Cells, chain : Seq(Cells)]
ASSUME TraceBounds == MaxClicks \in Nat /\ MaxFailures \in Nat /\ MaxHumanActs \in Nat

VARIABLES
  fill,        \* the workbook's fills
  sheets,      \* the sheets that exist
  saved,       \* saved: the fills painted over, as [cell, color] in order
  op,          \* op[n]: where the n-th click is
  clicks,      \* bound: how many clicks there were
  failures,    \* bound: how many syncs failed
  humanActs,   \* bound: how many things people did
  user,        \* history: the fill people gave each cell
  lost         \* history: cells whose fill the code no longer knows

bounds == <<clicks, failures, humanActs>>
vars == <<fill, sheets, saved, op, bounds, user, lost>>

\* Mutant: the fill object is saved, not its colour.
ReadObject(f) == "[object Object]"

\* What range.format.fill.color reads as: an unfilled cell reads as white.
Read(f) == IF f = NoFill THEN White ELSE f

\* bySheet: one group per sheet, in order of first appearance.
AddToGroup(groups, c) ==
  IF \E i \in DOMAIN groups : SheetOf[Head(groups[i])] = SheetOf[c]
  THEN [i \in DOMAIN groups |-> IF SheetOf[Head(groups[i])] = SheetOf[c]
                                THEN Append(groups[i], c) ELSE groups[i]]
  ELSE Append(groups, <<c>>)

bySheet(cells) == FoldLeft(AddToGroup, <<>>, cells)

\* The chain without duplicates and without the primary cell.
AddUnseen(acc, c) ==
  IF c \in acc.seen THEN acc
  ELSE [seen |-> acc.seen \cup {c}, refs |-> Append(acc.refs, c)]

chainRefs(t) == FoldLeft(AddUnseen, [seen |-> {t.primary}, refs |-> <<>>], t.chain).refs

\* The groups a trace paints, each with its colour.
Batches(t) ==
  LET paint(groups, color) == [i \in DOMAIN groups |->
                                 [cells |-> groups[i], color |-> color]]
  IN  paint(bySheet(chainRefs(t)), ChainColor) \o paint(<<<<t.primary>>>>, PrimaryColor)

CellsOf(list) == [i \in DOMAIN list |-> list[i].cell]
SavedCells == Range(CellsOf(saved))

\* A click that is over, and the parts of one under way:
\*   restore   the groups clearHighlight still restores, from toRestore
\*   paint     the batches still to paint; next holds the fills read so far
Done == [phase |-> "done", restore |-> <<>>, toRestore |-> <<>>,
         paint |-> <<>>, next |-> <<>>]
NotClicked == [Done EXCEPT !.phase = "idle"]

Running(n) == op[n].phase \notin {"idle", "done"}

GroupCells(groups) == UNION {Range(groups[i]) : i \in DOMAIN groups}
Restoring(n) == GroupCells(op[n].restore)
Painted(n) == Range(CellsOf(op[n].next))
ToPaint(n) == UNION {Range(op[n].paint[i].cells) : i \in DOMAIN op[n].paint}

\* The cells some running click still reads, paints or restores.
Busy == UNION {Restoring(n) \cup Painted(n) \cup ToPaint(n) :
                 n \in {m \in Clicks : Running(m)}}

Init ==
  /\ fill \in InitialFills
  /\ sheets = Sheets
  /\ saved = <<>>
  /\ op = [n \in Clicks |-> NotClicked]
  /\ clicks = 0 /\ failures = 0 /\ humanActs = 0
  /\ user = fill
  /\ lost = {}

-----------------------------------------------------------------------------
(* Clicks.                                                                   *)

\* Where a click goes on: to the next group it restores, the next it reads,
\* or to its end.
Onward(o) == IF o.restore # <<>> THEN [o EXCEPT !.phase = "restore"]
             ELSE IF o.paint # <<>> THEN [o EXCEPT !.phase = "read"]
             ELSE Done

\* Mutant: the saved fills are restored and kept.
ClickKeepsSaved(batches) ==
  /\ clicks < MaxClicks
  /\ clicks' = clicks + 1
  /\ op' = [op EXCEPT ![clicks'] =
              Onward([Done EXCEPT !.restore = bySheet(CellsOf(saved)),
                                  !.toRestore = saved,
                                  !.paint = batches])]
  /\ UNCHANGED <<fill, sheets, saved, failures, humanActs, user>>

\* Both buttons start with clearHighlight, which takes the saved fills at once
\* and waits for nobody who is still restoring or painting.
Click(batches) ==
  /\ clicks < MaxClicks
  /\ clicks' = clicks + 1
  /\ op' = [op EXCEPT ![clicks'] =
              Onward([Done EXCEPT !.restore = bySheet(CellsOf(saved)),
                                  !.toRestore = saved,
                                  !.paint = batches])]
  /\ saved' = <<>>
  /\ UNCHANGED <<fill, sheets, failures, humanActs, user>>

\* Trace.  Two traces that overlap may each read what the other has painted,
\* and the last to end forgets what the other had saved.  A trace that starts
\* while a Clear restores may read what is about to be restored.
ClickTrace ==
  \E t \in Traces :
    /\ Click(Batches(t))
    /\ lost' = lost \cup IF \E n \in Clicks : op[n].paint # <<>> THEN Busy'
                         ELSE Busy \cap ({t.primary} \cup Range(t.chain))

ClickClear == Click(<<>>) /\ UNCHANGED lost

-----------------------------------------------------------------------------
(* Syncs.                                                                    *)

\* getItem: a sync that names a missing sheet fails.
Lands(cells) == SheetOf[Head(cells)] \in sheets

\* toRestore.find.
Original(toRestore, c) ==
  toRestore[SelectInSeq(toRestore, LAMBDA item : item.cell = c)].color

\* clearHighlight restores one sheet; a white fill is cleared.
Restored(color) == IF color = White THEN NoFill ELSE color

Restore(n, cells) ==
  [c \in Cells |-> IF c \in cells THEN Restored(Original(op[n].toRestore, c)) ELSE fill[c]]

RestoreSync(n) ==
  LET group == Head(op[n].restore)
  IN  /\ op[n].phase = "restore"
      /\ Lands(group)
      /\ fill' = Restore(n, Range(group))
      /\ op' = [op EXCEPT ![n] = Onward([op[n] EXCEPT !.restore = Tail(@)])]
      /\ UNCHANGED <<sheets, saved, bounds, user, lost>>

\* Mutant: the fill is loaded after the highlight was set.
ReadSyncTooLate(n) ==
  LET cells == Head(op[n].paint).cells
  IN  /\ op[n].phase = "read"
      /\ Lands(cells)
      /\ op' = [op EXCEPT ![n].phase = "paint",
                          ![n].next = @ \o [i \in DOMAIN cells |->
                              [cell |-> cells[i], color |-> Head(op[n].paint).color]]]
      /\ UNCHANGED <<fill, sheets, saved, bounds, user, lost>>

\* paint() reads the fills of one sheet's cells and remembers them in next.
ReadSync(n) ==
  LET cells == Head(op[n].paint).cells
  IN  /\ op[n].phase = "read"
      /\ Lands(cells)
      /\ op' = [op EXCEPT ![n].phase = "paint",
                          ![n].next = @ \o [i \in DOMAIN cells |->
                              [cell |-> cells[i], color |-> Read(fill[cells[i]])]]]
      /\ UNCHANGED <<fill, sheets, saved, bounds, user, lost>>

Paint(n, cells) == [c \in Cells |-> IF c \in cells THEN Head(op[n].paint).color ELSE fill[c]]

\* ... and paints them.  After the last batch next becomes saved.
PaintSync(n) ==
  LET cells == Head(op[n].paint).cells
  IN  /\ op[n].phase = "paint"
      /\ Lands(cells)
      /\ fill' = Paint(n, Range(cells))
      /\ op' = [op EXCEPT ![n] = Onward([op[n] EXCEPT !.paint = Tail(@)])]
      /\ saved' = IF Len(op[n].paint) = 1 THEN op[n].next ELSE saved
      /\ UNCHANGED <<sheets, bounds, user, lost>>

\* A sync fails: its sheet is gone, or the host is busy; it may have
\* landed on the first cells of its batch.  The click rejects, and nobody
\* takes its fills over.
SyncFails(n) ==
  /\ Running(n)
  /\ LET cells == IF op[n].phase = "restore" THEN Head(op[n].restore)
                  ELSE Head(op[n].paint).cells
     IN  /\ \/ /\ Lands(cells)
               /\ failures < MaxFailures
               /\ failures' = failures + 1
               /\ \E i \in 0 .. Len(cells) - 1 :
                    LET landed == Range(SubSeq(cells, 1, i))
                    IN  fill' = CASE op[n].phase = "restore" -> Restore(n, landed)
                                  [] op[n].phase = "read" -> fill
                                  [] op[n].phase = "paint" -> Paint(n, landed)
            \/ /\ ~Lands(cells)
               /\ UNCHANGED <<failures, fill>>
  /\ op' = [op EXCEPT ![n] = Done]
  /\ lost' = lost \cup Restoring(n) \cup Painted(n)
  /\ UNCHANGED <<sheets, saved, clicks, humanActs, user>>

-----------------------------------------------------------------------------
(* People.                                                                   *)

HumanActs == humanActs < MaxHumanActs /\ humanActs' = humanActs + 1

\* A fill given to a highlighted cell will be taken for a highlight.
Recolour ==
  \E c \in Cells, f \in Fills :
    /\ HumanActs
    /\ SheetOf[c] \in sheets
    /\ fill[c] # f
    /\ fill' = [fill EXCEPT ![c] = f]
    /\ user' = [user EXCEPT ![c] = f]
    /\ lost' = IF c \in Busy \cup SavedCells THEN lost \cup {c} ELSE lost \ {c}
    /\ UNCHANGED <<sheets, saved, op, clicks, failures>>

DeleteSheet ==
  \E s \in sheets :
    /\ HumanActs
    /\ sheets' = sheets \ {s}
    /\ UNCHANGED <<fill, saved, op, clicks, failures, user, lost>>

Sync(n) == RestoreSync(n) \/ ReadSync(n) \/ PaintSync(n) \/ SyncFails(n)

Next ==
  \/ ClickTrace
  \/ ClickClear
  \/ \E n \in Clicks : Sync(n)
  \/ Recolour
  \/ DeleteSheet

\* Office.js settles every sync.
Fairness == \A n \in Clicks : WF_vars(Sync(n))

Spec == Init /\ [][Next]_vars /\ Fairness

-----------------------------------------------------------------------------
SavedFills == [cell : Cells, color : Fills \cup Highlights]

TypeOK ==
  /\ fill \in [Cells -> Fills \cup Highlights]
  /\ sheets \subseteq Sheets
  /\ saved \in Seq(SavedFills)
  /\ \A n \in Clicks :
       /\ op[n].phase \in {"idle", "restore", "read", "paint", "done"}
       /\ op[n].restore \in Seq(Seq(Cells))
       /\ op[n].toRestore \in Seq(SavedFills)
       /\ op[n].next \in Seq(SavedFills)
  /\ clicks \in 0 .. MaxClicks
  /\ user \in [Cells -> Fills]
  /\ lost \subseteq Cells

\* Somebody still knows the fill of c: it is saved, or in a running click.
Known(c) ==
  LET item == [cell |-> c, color |-> Read(user[c])]
  IN  \/ item \in Range(saved)
      \/ \E n \in Clicks : \/ c \in Restoring(n) /\ item \in Range(op[n].toRestore)
                           \/ item \in Range(op[n].next)

\* The damage is contained: outside the cells of a trace that failed, of two
\* that overlapped, or that somebody coloured over a highlight, every cell has
\* the fill people gave it, or its fill is still known and will be restored.
FillsAreRecoverable ==
  \A c \in Cells : \/ c \in lost
                   \/ SheetOf[c] \notin sheets
                   \/ Read(fill[c]) = Read(user[c])
                   \/ Known(c)

\* hasActiveHighlight is honest: a saved cell is still highlighted.
SavedIsPainted ==
  \A c \in SavedCells \ lost : SheetOf[c] \in sheets => fill[c] \in Highlights

\* "Never leave a user's formatting altered because they clicked Trace"
\* (highlight.ts): with nothing saved and no click under way, every cell has
\* the fill people gave it.
NothingAltered ==
  saved = <<>> /\ (\A n \in Clicks : ~Running(n))
    => \A c \in Cells : Read(fill[c]) = Read(user[c])
=============================================================================
