------------------------------ MODULE ToolCalls ------------------------------
(***************************************************************************)
(* One tool call of the task pane: runTool (addin/src/api/runTool.ts), the   *)
(* two endpoints of server/ledger_server/routers/tools.py and the session    *)
(* store behind them.                                                        *)
(*                                                                         *)
(*   create  ->  execute  ->  result                                        *)
(*                  |           | any error                                 *)
(*                  +--------> failure                                      *)
(*                                                                         *)
(* The task pane runs one tool at a time, so requests of a session overlap   *)
(* only when it has given one up: the fetch rejects while the request is     *)
(* still on its way or being handled.  (An answer of 500 is such a           *)
(* rejection too, whether or not the write had landed.)  Handling a request  *)
(* loads the whole session, changes it and saves it whole; with Redis both   *)
(* suspend the handler, in memory neither does.                              *)
(***************************************************************************)
EXTENDS Integers, Sequences, FiniteSets, SequencesExt

CONSTANTS
  MaxRuns,      \* bound: runs of a tool, numbered in order
  MaxLog,       \* max_tool_calls_per_session
  MaxGiveUps,   \* bound: fetches that reject
  Stores,       \* {"memory", "redis"}, or one of them
  NoSession     \* the store has no such session (any more)

Runs == 1 .. MaxRuns
Kinds == {"create", "result", "failure"}
Requests == [run : Runs, kind : Kinds]

ASSUME BoundsAssumption == MaxRuns \in Nat /\ MaxGiveUps \in Nat
ASSUME LogAssumption == MaxLog \in Nat \ {0}
ASSUME StoreAssumption == Stores \subseteq {"memory", "redis"}

VARIABLES
  store,        \* which store the server was started with
  session,      \* the stored session: its tool_calls, oldest first
  req,          \* req[r]: where request r is, what it will save, its answer
  phase,        \* phase[n]: what run n awaits, or how it ended
  ack,          \* ack[n]: the status run n was told, "none" if it threw
  gaveUps,      \* bound: fetches that rejected
  recorded      \* history: the outcomes the server has saved for call n

serverVars == <<session, recorded>>
clientVars == <<phase, ack, gaveUps>>
vars == <<store, serverVars, req, clientVars>>

\* The tool call that run n had made is called n.
Call(n) == [id |-> n, status |-> "validated"]

NotMade == [at |-> "none", saves |-> <<>>, answer |-> "none"]
SentOff == [NotMade EXCEPT !.at = "sent"]

Init ==
  /\ store \in Stores
  /\ session = <<>>
  /\ req = [r \in Requests |-> NotMade]
  /\ phase = [n \in Runs |-> "idle"]
  /\ ack = [n \in Runs |-> "none"]
  /\ gaveUps = 0
  /\ recorded = [n \in Runs |-> {}]

-----------------------------------------------------------------------------
(* The server.                                                               *)

\* Mutant: the log is never cut.
BoundedNot(log) == log

\* Oldest first out.
Bounded(log) == IF Len(log) > MaxLog
                THEN SubSeq(log, Len(log) - MaxLog + 1, Len(log)) ELSE log

\* Mutant: the first call that is still open is taken.
find_callOpen(log, n) == SelectInSeq(log, LAMBDA call : call.status = "validated")

find_call(log, n) == SelectInSeq(log, LAMBDA call : call.id = n)

\* Mutant: every posted outcome counts as completed.
OutcomeAlwaysGood(kind) == "completed"

Outcome(kind) == IF kind = "result" THEN "completed" ELSE "failed"

Refusal(answer) == [answer |-> answer, saves |-> <<>>]
Acceptance(log) == [answer |-> "ok", saves |-> log]

\* What the handlers of tools.py make of the log they loaded; valid says
\* whether what was posted satisfies the schemas (a long error message does not).
create_tool_call(n, log, valid) ==
  IF valid THEN Acceptance(Bounded(Append(log, Call(n)))) ELSE Refusal("invalid")

\* Mutant: a resolved call can be resolved again.
post_tool_resultTwice(n, kind, log, valid) ==
  LET i == find_call(log, n)
  IN  IF i = 0 THEN Refusal("unknown")
      ELSE IF ~valid THEN Refusal("invalid")
      ELSE Acceptance([log EXCEPT ![i].status = Outcome(kind)])

post_tool_result(n, kind, log, valid) ==
  LET i == find_call(log, n)
  IN  IF i = 0 THEN Refusal("unknown")
      ELSE IF log[i].status # "validated" THEN Refusal("conflict")
      ELSE IF ~valid THEN Refusal("invalid")
      ELSE Acceptance([log EXCEPT ![i].status = Outcome(kind)])

Reply(r, valid) ==
  IF session = NoSession THEN Refusal("no session")
  ELSE IF r.kind = "create" THEN create_tool_call(r.run, session, valid)
  ELSE post_tool_result(r.run, r.kind, session, valid)

Answered(answer) == [NotMade EXCEPT !.at = "answered", !.answer = answer]

\* The session is stored; if r resolves a call, the outcome is on record.
Saves(r, log) ==
  /\ session' = log
  /\ recorded' = IF r.kind = "create" THEN recorded
                 ELSE [recorded EXCEPT ![r.run] = @ \cup {Outcome(r.kind)}]
  /\ req' = [req EXCEPT ![r] = Answered("ok")]

\* load_session_or_404 or a check of the handler refuses r.
Refuses(r) ==
  /\ req[r].at = "sent"
  /\ \E valid \in BOOLEAN :
       /\ Reply(r, valid).answer # "ok"
       /\ req' = [req EXCEPT ![r] = Answered(Reply(r, valid).answer)]
  /\ UNCHANGED serverVars

\* In memory nothing comes between loading and saving.
HandlesAtOnce(r) ==
  /\ store = "memory"
  /\ req[r].at = "sent"
  /\ Reply(r, TRUE).answer = "ok"
  /\ Saves(r, Reply(r, TRUE).saves)

\* With Redis the handler awaits the save, holding what it loaded.
Loads(r) ==
  /\ store = "redis"
  /\ req[r].at = "sent"
  /\ Reply(r, TRUE).answer = "ok"
  /\ req' = [req EXCEPT ![r].at = "loaded", ![r].saves = Reply(r, TRUE).saves]
  /\ UNCHANGED serverVars

SavesLoaded(r) == req[r].at = "loaded" /\ Saves(r, req[r].saves)

Serve(r) ==
  /\ Refuses(r) \/ HandlesAtOnce(r) \/ Loads(r) \/ SavesLoaded(r)
  /\ UNCHANGED <<store, clientVars>>

\* The time to live of the stored session is over.
Expire ==
  /\ session # NoSession
  /\ session' = NoSession
  /\ UNCHANGED <<store, req, clientVars, recorded>>

-----------------------------------------------------------------------------
(* The task pane.                                                            *)

Over(n) == phase[n] \in {"acked", "threw"}
Awaited(n) == [run |-> n, kind |-> phase[n]]
Awaiting(n) == phase[n] \in Kinds
Hears(n, answer) == Awaiting(n) /\ req[Awaited(n)].answer = answer
HearsError(n) == Awaiting(n) /\ req[Awaited(n)].answer \notin {"none", "ok"}

\* The run goes on to a request of the given kind.
Posts(n, kind) ==
  /\ phase' = [phase EXCEPT ![n] = kind]
  /\ req' = [req EXCEPT ![[run |-> n, kind |-> kind]] = SentOff]
  /\ UNCHANGED ack

Ends(n, how, status) ==
  /\ phase' = [phase EXCEPT ![n] = how]
  /\ ack' = [ack EXCEPT ![n] = status]
  /\ UNCHANGED req

\* Mutant: a refused failure report is posted again.
ErrorRetries(n) ==
  IF phase[n] \in {"result", "failure"} THEN Posts(n, "failure") ELSE Ends(n, "threw", "none")

\* A request fails: the catch reports a failure of a result, and nothing else.
Error(n) ==
  IF phase[n] = "result" THEN Posts(n, "failure") ELSE Ends(n, "threw", "none")

\* Run range.read: the button is disabled while a run is under way.
Start(n) ==
  /\ phase[n] = "idle"
  /\ \A m \in Runs : m < n => Over(m)
  /\ Posts(n, "create")
  /\ UNCHANGED gaveUps

\* The server has accepted the call, and the executor is on it.
Accepted(n) ==
  /\ phase[n] = "create" /\ Hears(n, "ok")
  /\ phase' = [phase EXCEPT ![n] = "executing"]
  /\ UNCHANGED <<req, ack, gaveUps>>

\* The executor returns a result of the right shape, or the catch reports.
Executes(n) ==
  /\ phase[n] = "executing"
  /\ \E kind \in {"result", "failure"} : Posts(n, kind)
  /\ UNCHANGED gaveUps

Acknowledged(n) ==
  /\ phase[n] # "create" /\ Hears(n, "ok")
  /\ Ends(n, "acked", Outcome(phase[n]))
  /\ UNCHANGED gaveUps

Refused(n) == HearsError(n) /\ Error(n) /\ UNCHANGED gaveUps

GivesUp(n) ==
  /\ Awaiting(n)
  /\ gaveUps < MaxGiveUps
  /\ gaveUps' = gaveUps + 1
  /\ Error(n)

Client(n) ==
  /\ Accepted(n) \/ Executes(n) \/ Acknowledged(n) \/ Refused(n)
  /\ UNCHANGED <<store, serverVars>>

Next ==
  \/ \E r \in Requests : Serve(r)
  \/ Expire
  \/ \E n \in Runs : \/ Client(n)
                     \/ (Start(n) \/ GivesUp(n)) /\ UNCHANGED <<store, serverVars>>

\* The server handles what reaches it, and Excel and the event loop go on.
Fairness == /\ \A r \in Requests : WF_vars(Serve(r))
            /\ \A n \in Runs : WF_vars(Client(n))

Spec == Init /\ [][Next]_vars /\ Fairness

-----------------------------------------------------------------------------
ToolCall == [id : Runs, status : {"validated", "completed", "failed"}]

TypeOK ==
  /\ store \in Stores
  /\ session # NoSession => session \in Seq(ToolCall) /\ Len(session) <= MaxLog
  /\ \A r \in Requests :
       /\ req[r].at \in {"none", "sent", "loaded", "answered"}
       /\ req[r].saves \in Seq(ToolCall)
       /\ req[r].answer \in {"none", "ok", "no session", "unknown", "conflict", "invalid"}
  /\ phase \in [Runs -> Kinds \cup {"idle", "executing", "acked", "threw"}]
  /\ ack \in [Runs -> {"none", "completed", "failed"}]
  /\ gaveUps \in 0 .. MaxGiveUps
  /\ recorded \in [Runs -> SUBSET {"completed", "failed"}]

\* No two handlers of the session overlap: because the store does not let
\* them, or because the task pane awaited every answer.
Serial == store = "memory" \/ gaveUps = 0

\* What the task pane was told about a call is what the log says, as long as
\* the log still has the call.
AckIsRecorded ==
  Serial => \A n \in Runs :
    ack[n] # "none" /\ session # NoSession
      => LET i == find_call(session, n)
         IN  IF i = 0 THEN Len(session) = MaxLog ELSE session[i].status = ack[n]

\* A call is resolved once, although the catch of runTool reports a failure
\* for a result whose answer it did not get (test_double_resolution_is_409).
ResolvedOnce == Serial => \A n \in Runs : Cardinality(recorded[n]) <= 1

\* Even when saves overwrite each other: a call is on record as completed only
\* if the executor returned a result, and as failed only if the task pane
\* reported a failure; a call acknowledged as completed never turns into a
\* failed one.
NoInventedOutcome ==
  session # NoSession => \A i \in DOMAIN session :
    LET n == session[i].id
    IN  /\ session[i].status = "completed" => req[[run |-> n, kind |-> "result"]].at # "none"
        /\ session[i].status = "failed" => /\ req[[run |-> n, kind |-> "failure"]].at # "none"
                                          /\ ack[n] # "completed"

\* Every run of a tool ends, with an acknowledgement or an error.
EveryRunEnds == \A n \in Runs : phase[n] # "idle" ~> Over(n)
=============================================================================
