--------------------------- MODULE ToolCallsProofs ---------------------------
(***************************************************************************)
(* Proofs about ToolCalls, for every number of runs, every limit of the log  *)
(* of a session, either store, and however often the task pane gives up.     *)
(***************************************************************************)
EXTENDS ToolCalls, NumberLemmas, FiniteSetTheorems, SequenceTheorems

USE DEF Runs, Kinds, Requests

ReqTypes == [at : {"none", "sent", "loaded", "answered"},
             saves : Seq(ToolCall),
             answer : {"none", "ok", "no session", "unknown", "conflict", "invalid"}]

\* The log of a session fits.
LogOK(log) == log \in Seq(ToolCall) /\ Len(log) <= MaxLog

TypeInv ==
  /\ store \in Stores
  /\ session # NoSession => LogOK(session)
  /\ req \in [Requests -> ReqTypes]
  /\ \A r \in Requests : Len(req[r].saves) <= MaxLog
  /\ phase \in [Runs -> Kinds \cup {"idle", "executing", "acked", "threw"}]
  /\ ack \in [Runs -> {"none", "completed", "failed"}]
  /\ gaveUps \in 0 .. MaxGiveUps
  /\ recorded \in [Runs -> SUBSET {"completed", "failed"}]

-----------------------------------------------------------------------------
(* The task pane: which requests of a run are out, by its phase.             *)

Request(n, kind) == [run |-> n, kind |-> kind]

\* The requests the task pane has made, and those the server has done.
Made == {r \in Requests : req[r].at # "none"}
Done == {r \in Requests : req[r].answer = "ok"}

RequestsByPhase ==
  \A n \in Runs :
    /\ phase[n] = "idle" => Request(n, "create") \notin Made
    /\ phase[n] \in {"idle", "create", "executing"} => Request(n, "result") \notin Made
    /\ phase[n] \in {"idle", "create", "executing", "result"} => Request(n, "failure") \notin Made
    /\ phase[n] \in {"executing", "result"} \/ Request(n, "result") \in Made \/ Request(n, "failure") \in Made
         => Request(n, "create") \in Done

\* An answer is there when it has been given.
AnswersGiven == \A r \in Requests : req[r].answer # "none" <=> req[r].at = "answered"

\* An acknowledgement repeats an answer; a result is acknowledged only if no
\* failure was reported.
AcksAreAnswers ==
  \A n \in Runs :
    /\ phase[n] # "acked" => ack[n] = "none"
    /\ ack[n] # "none" =>
         \/ /\ ack[n] = "completed"
            /\ Request(n, "result") \in Done /\ Request(n, "failure") \notin Made
         \/ ack[n] = "failed" /\ Request(n, "failure") \in Done

\* A status in a log comes from a request that was made.
StatusAsked(log, made) ==
  \A i \in DOMAIN log :
    /\ log[i].status = "completed" => Request(log[i].id, "result") \in made
    /\ log[i].status = "failed" => Request(log[i].id, "failure") \in made

NothingInvented ==
  /\ session # NoSession => StatusAsked(session, Made)
  /\ \A r \in Requests : StatusAsked(req[r].saves, Made)

\* The record holds the outcomes of the requests done.
RecordExact ==
  \A n \in Runs : /\ "completed" \in recorded[n] <=> Request(n, "result") \in Done
                  /\ "failed" \in recorded[n] <=> Request(n, "failure") \in Done

ClientInv == RequestsByPhase /\ AnswersGiven /\ AcksAreAnswers /\ NothingInvented /\ RecordExact

-----------------------------------------------------------------------------
(* The server while handlers do not overlap.                                 *)

\* The log is what doing these requests, and no others, leaves: a call is in it
\* once, and only if it was created; an outcome that was accepted is its status,
\* unless the call has been cut off the full log.
LogFits(log, done) ==
  /\ \A i, j \in DOMAIN log : log[i].id = log[j].id => i = j
  /\ \A i \in DOMAIN log : Request(log[i].id, "create") \in done
  /\ \A r \in done : r.kind # "create" =>
       \/ \E i \in DOMAIN log : log[i].id = r.run /\ log[i].status = Outcome(r.kind)
       \/ Len(log) = MaxLog /\ \A i \in DOMAIN log : log[i].id # r.run

OneOutcome(done) ==
  \A n \in Runs : ~(Request(n, "result") \in done /\ Request(n, "failure") \in done)

\* One run after the other; and with Redis, until a request is given up, what
\* is out is what is awaited.
RunsInOrder == \A n \in Runs : phase[n] # "idle" => \A m \in Runs : m < n => Over(m)
MemoryIsAtomic == store = "memory" => \A r \in Requests : req[r].at # "loaded"
OutIsAwaited ==
  gaveUps = 0 => \A r \in Requests : req[r].at \in {"sent", "loaded"} => phase[r.run] = r.kind

LogInv ==
  /\ RunsInOrder
  /\ MemoryIsAtomic
  /\ OutIsAwaited
  /\ Serial =>
       /\ OneOutcome(Done)
       /\ session # NoSession => LogFits(session, Done)
       /\ \A r \in Requests : req[r].at = "loaded" =>
            LogFits(req[r].saves, Done \cup {r}) /\ OneOutcome(Done \cup {r})

-----------------------------------------------------------------------------
(* The operators of the server.                                              *)

\* find_call gives a call of that id, or 0 if there is none.
LEMMA FindCall ==
  ASSUME NEW log \in Seq(ToolCall), NEW n
  PROVE  \/ find_call(log, n) = 0 /\ \A i \in 1 .. Len(log) : log[i].id # n
         \/ find_call(log, n) \in 1 .. Len(log) /\ log[find_call(log, n)].id = n
<1>. DEFINE Found == {i \in 1 .. Len(log) : log[i].id = n}
<1>1. find_call(log, n) = IF Found # {} THEN Min(Found) ELSE 0
  BY DEF find_call, SelectInSeq
<1>2. ASSUME Found # {} PROVE Min(Found) \in Found
  <2>1. Len(log) \in Nat /\ Found \subseteq Nat
    BY LenProperties
  <2>2. \E m \in Found : \A k \in Found : m <= k
    BY <1>2, <2>1, LeastNumber
  <2>. QED BY <2>2 DEF Min
<1>. QED BY <1>1, <1>2

\* The new log is the old one, less its oldest call if it was full, with call
\* n at the end.
Extends(new, log, n) ==
  \E d \in {0, 1} :
    /\ d = 1 <=> Len(log) = MaxLog
    /\ Len(new) = Len(log) + 1 - d
    /\ \A i \in 1 .. Len(log) - d : new[i] = log[i + d]
    /\ new[Len(new)] = Call(n)

\* The new log is the old one with the outcome of the one call n in it.
Resolves(new, log, n, kind) ==
  \E i \in 1 .. Len(log) :
    /\ log[i] = Call(n)
    /\ Len(new) = Len(log)
    /\ new[i] = [id |-> n, status |-> Outcome(kind)]
    /\ \A j \in 1 .. Len(log) : j # i => new[j] = log[j]

LEMMA OutcomeType == \A kind : Outcome(kind) \in {"completed", "failed"}
  BY DEF Outcome

LEMMA CreateShape ==
  ASSUME NEW log, LogOK(log), NEW n \in Runs
  PROVE  LET new == Bounded(Append(log, Call(n)))
         IN  LogOK(new) /\ Extends(new, log, n)
<1>. DEFINE long == Append(log, Call(n))
<1>1. Call(n) \in ToolCall
  BY DEF Call, ToolCall
<1>2. /\ long \in Seq(ToolCall) /\ Len(long) = Len(log) + 1
      /\ \A i \in 1 .. Len(log) : long[i] = log[i]
      /\ long[Len(log) + 1] = Call(n)
  BY <1>1, AppendProperties DEF LogOK
<1>3. Len(log) \in Nat /\ Len(log) <= MaxLog /\ MaxLog \in Nat \ {0}
  BY LenProperties, LogAssumption DEF LogOK
<1>. HIDE DEF long
<1>4. CASE Len(log) < MaxLog
  <2>1. Bounded(long) = long
    BY <1>2, <1>3, <1>4 DEF Bounded
  <2>2. Extends(long, log, n)
    BY <1>2, <1>3, <1>4 DEF Extends
  <2>. QED BY <2>1, <2>2, <1>2, <1>3, <1>4 DEF long, LogOK
<1>5. CASE Len(log) = MaxLog
  <2>. DEFINE new == SubSeq(long, 2, Len(long))
  <2>1. Bounded(long) = new
    BY <1>2, <1>3, <1>5 DEF Bounded
  <2>2. \A i \in 2 .. Len(long) : long[i] \in ToolCall
    BY <1>2, <1>3, ElementOfSeq
  <2>3. /\ new \in Seq(ToolCall)
        /\ Len(new) = Len(log)
        /\ \A i \in 1 .. Len(log) : new[i] = long[i + 1]
    <3>1. 2 \in Int /\ Len(long) \in Int /\ 2 <= Len(long) /\ Len(long) - 2 + 1 = Len(log)
      BY <1>2, <1>3, <1>5
    <3>2. \A i \in 1 .. Len(log) : 2 + i - 1 = i + 1
      OBVIOUS
    <3>. QED BY <2>2, <3>1, <3>2, SubSeqProperties
  <2>. HIDE DEF new
  <2>4. Extends(new, log, n)
    BY <2>3, <1>2, <1>3, <1>5 DEF Extends
  <2>. QED BY <2>1, <2>3, <2>4, <1>3 DEF long, LogOK
<1>. QED BY <1>3, <1>4, <1>5

LEMMA PostShape ==
  ASSUME NEW log, LogOK(log), NEW n \in Runs, NEW kind, NEW valid \in BOOLEAN
  PROVE  LET reply == post_tool_result(n, kind, log, valid)
         IN  /\ reply.answer \in {"ok", "unknown", "conflict", "invalid"}
             /\ reply.answer = "ok" =>
                  LogOK(reply.saves) /\ Resolves(reply.saves, log, n, kind)
<1>. DEFINE i == find_call(log, n)
            call == [log[i] EXCEPT !.status = Outcome(kind)]
            new == [log EXCEPT ![i].status = Outcome(kind)]
<1>1. CASE i = 0 \/ log[i].status # "validated" \/ ~valid
  BY <1>1 DEF post_tool_result, Refusal
<1>2. CASE i # 0 /\ log[i].status = "validated" /\ valid
  <2>1. i \in 1 .. Len(log) /\ log[i].id = n /\ log[i] \in ToolCall
    BY <1>2, FindCall, ElementOfSeq DEF LogOK
  <2>2. log[i] = Call(n)
    BY <2>1, <1>2 DEF Call, ToolCall
  <2>3. call = [id |-> n, status |-> Outcome(kind)] /\ call \in ToolCall
    BY <2>2, OutcomeType DEF Call, ToolCall
  <2>4. new = [log EXCEPT ![i] = call]
    OBVIOUS
  <2>5. /\ new \in Seq(ToolCall)
        /\ Len(new) = Len(log)
        /\ \A j \in 1 .. Len(log) : new[j] = IF j = i THEN call ELSE log[j]
    BY <2>1, <2>3, <2>4, ExceptSeq DEF LogOK
  <2>6. LogOK(new) /\ Resolves(new, log, n, kind)
    BY <2>1, <2>2, <2>3, <2>5 DEF LogOK, Resolves
  <2>7. post_tool_result(n, kind, log, valid) = Acceptance(new)
    BY <1>2 DEF post_tool_result
  <2>. QED BY <2>6, <2>7 DEF Acceptance
<1>. QED BY <1>1, <1>2

\* What handling a request comes to.
LEMMA ReplyShape ==
  ASSUME TypeInv, NEW r \in Requests, NEW valid \in BOOLEAN
  PROVE  LET reply == Reply(r, valid)
         IN  /\ reply.answer \in {"ok", "no session", "unknown", "conflict", "invalid"}
             /\ reply.answer = "ok" =>
                  /\ session # NoSession
                  /\ LogOK(reply.saves)
                  /\ IF r.kind = "create" THEN Extends(reply.saves, session, r.run)
                     ELSE Resolves(reply.saves, session, r.run, r.kind)
<1>1. CASE session = NoSession
  BY <1>1 DEF Reply, Refusal
<1>2. CASE session # NoSession /\ r.kind = "create"
  <2>1. LogOK(session) /\ r.run \in Runs
    BY <1>2 DEF TypeInv
  <2>. DEFINE new == Bounded(Append(session, Call(r.run)))
  <2>2. LogOK(new) /\ Extends(new, session, r.run)
    BY <2>1, CreateShape
  <2>. HIDE DEF new
  <2>3. Reply(r, valid) = IF valid THEN Acceptance(new) ELSE Refusal("invalid")
    BY <1>2 DEF Reply, create_tool_call, new
  <2>. QED BY <2>2, <2>3, <1>2 DEF Refusal, Acceptance
<1>3. CASE session # NoSession /\ r.kind # "create"
  <2>1. LogOK(session) /\ r.run \in Runs
    BY <1>3 DEF TypeInv
  <2>. DEFINE reply == post_tool_result(r.run, r.kind, session, valid)
  <2>2. /\ reply.answer \in {"ok", "unknown", "conflict", "invalid"}
        /\ reply.answer = "ok" =>
             LogOK(reply.saves) /\ Resolves(reply.saves, session, r.run, r.kind)
    BY <2>1, PostShape
  <2>3. Reply(r, valid) = reply
    BY <1>3 DEF Reply
  <2>. QED BY <2>2, <2>3, <1>3
<1>. QED BY <1>1, <1>2, <1>3

-----------------------------------------------------------------------------
(* Types.                                                                    *)

LEMMA TypeInit == Init => TypeInv
<1>. SUFFICES ASSUME Init PROVE TypeInv
  OBVIOUS
<1>1. NotMade \in ReqTypes /\ Len(NotMade.saves) = 0
  BY EmptySeq DEF NotMade, ReqTypes
<1>2. LogOK(<<>>)
  BY EmptySeq, LogAssumption DEF LogOK
<1>3. 0 \in 0 .. MaxGiveUps
  BY BoundsAssumption
<1>. QED BY <1>1, <1>2, <1>3, LogAssumption DEF Init, TypeInv

\* Every request made anew, and every answer, is one.
LEMMA RequestTypes ==
  /\ SentOff \in ReqTypes /\ SentOff.saves = <<>>
  /\ \A answer \in {"ok", "no session", "unknown", "conflict", "invalid"} :
       Answered(answer) \in ReqTypes /\ Answered(answer).saves = <<>>
  BY EmptySeq DEF SentOff, Answered, NotMade, ReqTypes

LEMMA OneRequestChanges ==
  ASSUME TypeInv, NEW r \in Requests, NEW e \in ReqTypes, LogOK(e.saves),
         req' = [req EXCEPT ![r] = e]
  PROVE  req' \in [Requests -> ReqTypes] /\ \A q \in Requests : Len(req'[q].saves) <= MaxLog
<1>. USE DEF TypeInv
<1>1. \A q \in Requests : req'[q] = IF q = r THEN e ELSE req[q]
  OBVIOUS
<1>. HIDE DEF Requests
<1>. QED BY <1>1 DEF LogOK

LEMMA NoSaves == LogOK(<<>>)
  BY EmptySeq, LogAssumption DEF LogOK

LEMMA ServeTypes ==
  ASSUME TypeInv, NEW r \in Requests, Serve(r)
  PROVE  TypeInv'
<1>. USE DEF TypeInv
<1>0. UNCHANGED <<store, phase, ack, gaveUps>>
  BY DEF Serve, clientVars
<1>2. CASE Refuses(r)
  <2>1. PICK valid \in BOOLEAN :
          /\ Reply(r, valid).answer # "ok"
          /\ req' = [req EXCEPT ![r] = Answered(Reply(r, valid).answer)]
    BY <1>2 DEF Refuses
  <2>2. Reply(r, valid).answer \in {"ok", "no session", "unknown", "conflict", "invalid"}
    BY ReplyShape
  <2>3. /\ Answered(Reply(r, valid).answer) \in ReqTypes
        /\ LogOK(Answered(Reply(r, valid).answer).saves)
    BY <2>2, RequestTypes, NoSaves
  <2>4. UNCHANGED serverVars
    BY <1>2 DEF Refuses
  <2>. QED BY <2>1, <2>3, <2>4, <1>0, OneRequestChanges DEF serverVars
<1>3. ASSUME NEW log, LogOK(log), Saves(r, log)
      PROVE  TypeInv'
  <2>1. recorded' \in [Runs -> SUBSET {"completed", "failed"}]
    BY <1>3, OutcomeType DEF Saves
  <2>2. Answered("ok") \in ReqTypes /\ LogOK(Answered("ok").saves)
    BY RequestTypes, NoSaves
  <2>3. session' = log /\ req' = [req EXCEPT ![r] = Answered("ok")]
    BY <1>3 DEF Saves
  <2>. QED BY <2>1, <2>2, <2>3, <1>3, <1>0, OneRequestChanges
<1>4. CASE HandlesAtOnce(r)
  <2>1. LogOK(Reply(r, TRUE).saves)
    BY <1>4, ReplyShape DEF HandlesAtOnce
  <2>. QED BY <2>1, <1>3, <1>4 DEF HandlesAtOnce
<1>5. CASE Loads(r)
  <2>1. LogOK(Reply(r, TRUE).saves)
    BY <1>5, ReplyShape DEF Loads
  <2>. DEFINE e == [req[r] EXCEPT !.at = "loaded", !.saves = Reply(r, TRUE).saves]
  <2>2. req[r] \in ReqTypes
    OBVIOUS
  <2>3. e \in ReqTypes /\ LogOK(e.saves)
    BY <2>1, <2>2 DEF ReqTypes, LogOK
  <2>4. req' = [req EXCEPT ![r] = e] /\ UNCHANGED serverVars
    BY <1>5 DEF Loads
  <2>. QED BY <2>3, <2>4, <1>0, OneRequestChanges DEF serverVars
<1>6. CASE SavesLoaded(r)
  <2>1. LogOK(req[r].saves)
    BY DEF LogOK, ReqTypes
  <2>. QED BY <2>1, <1>3, <1>6 DEF SavesLoaded
<1>. QED BY <1>2, <1>4, <1>5, <1>6 DEF Serve

\* The steps of the task pane come down to posting a request or ending a run.
LEMMA ClientMoves ==
  ASSUME NEW n \in Runs, Client(n) \/ Start(n) \/ GivesUp(n)
  PROVE  \/ \E kind \in Kinds : Posts(n, kind)
         \/ Ends(n, "threw", "none")
         \/ Ends(n, "acked", Outcome(phase[n]))
         \/ phase' = [phase EXCEPT ![n] = "executing"] /\ UNCHANGED <<req, ack>>
  BY DEF Client, Accepted, Executes, Acknowledged, Refused, Start, GivesUp, Error

LEMMA ClientTypes ==
  ASSUME TypeInv, NEW n \in Runs, Client(n) \/ Start(n) \/ GivesUp(n),
         UNCHANGED <<store, serverVars>>
  PROVE  TypeInv'
<1>. USE DEF TypeInv
<1>1. gaveUps' \in 0 .. MaxGiveUps
  BY BoundsAssumption DEF Client, Accepted, Executes, Acknowledged, Refused, Start, GivesUp
<1>2. ASSUME NEW kind \in Kinds, Posts(n, kind) PROVE TypeInv'
  <2>1. Request(n, kind) \in Requests /\ SentOff \in ReqTypes /\ LogOK(SentOff.saves)
    BY RequestTypes, NoSaves DEF Request
  <2>2. /\ req' = [req EXCEPT ![Request(n, kind)] = SentOff]
        /\ phase' = [phase EXCEPT ![n] = kind] /\ UNCHANGED ack
    BY <1>2 DEF Posts, Request
  <2>. QED BY <1>1, <2>1, <2>2, OneRequestChanges DEF serverVars
<1>3. ASSUME NEW how \in {"acked", "threw"}, NEW status \in {"none", "completed", "failed"},
             Ends(n, how, status)
      PROVE  TypeInv'
  BY <1>1, <1>3 DEF Ends, serverVars
<1>4. CASE phase' = [phase EXCEPT ![n] = "executing"] /\ UNCHANGED <<req, ack>>
  BY <1>1, <1>4 DEF serverVars
<1>. QED BY <1>2, <1>3, <1>4, ClientMoves, OutcomeType

LEMMA TypeStep == TypeInv /\ [Next]_vars => TypeInv'
<1>. SUFFICES ASSUME TypeInv, [Next]_vars PROVE TypeInv'
  OBVIOUS
<1>1. CASE \E r \in Requests : Serve(r)
  BY <1>1, ServeTypes
<1>2. CASE Expire
  BY <1>2 DEF Expire, TypeInv, clientVars
<1>3. ASSUME NEW n \in Runs,
             Client(n) \/ ((Start(n) \/ GivesUp(n)) /\ UNCHANGED <<store, serverVars>>)
      PROVE  TypeInv'
  <2>1. (Client(n) \/ Start(n) \/ GivesUp(n)) /\ UNCHANGED <<store, serverVars>>
    BY <1>3 DEF Client
  <2>. QED BY <2>1, ClientTypes
<1>4. CASE UNCHANGED vars
  BY <1>4 DEF TypeInv, vars, serverVars, clientVars, LogOK
<1>. QED BY <1>1, <1>2, <1>3, <1>4 DEF Next

\* TypeOK, for any number of runs, log limit and store.
THEOREM TypeCorrect == Spec => []TypeOK
<1>1. TypeInv => TypeOK
  BY DEF TypeInv, TypeOK, LogOK, ReqTypes
<1>. QED BY <1>1, TypeInit, TypeStep, PTL DEF Spec
-----------------------------------------------------------------------------
(* What a step does to the requests made and done.                           *)

\* The server makes new of the session for r.
Handles(r, new) ==
  /\ session # NoSession
  /\ LogOK(new)
  /\ IF r.kind = "create" THEN Extends(new, session, r.run)
     ELSE Resolves(new, session, r.run, r.kind)

LEMMA ServeShape ==
  ASSUME TypeInv, AnswersGiven, NEW r \in Requests, Serve(r)
  PROVE  /\ UNCHANGED <<store, clientVars>>
         /\ r \in Made /\ r \notin Done /\ Made' = Made /\ AnswersGiven'
         /\ req[r].at \in {"sent", "loaded"}
         /\ \A q \in Requests \ {r} : req'[q] = req[q]
         /\ \/ /\ req'[r].at = "answered" /\ req'[r].saves = <<>>
               /\ Done' = Done /\ UNCHANGED serverVars
            \/ /\ req[r].at = "sent" /\ store = "redis"
               /\ req'[r].at = "loaded" /\ Handles(r, req'[r].saves)
               /\ Done' = Done /\ UNCHANGED serverVars
            \/ /\ \/ req[r].at = "loaded" /\ session' = req[r].saves
                  \/ req[r].at = "sent" /\ store = "memory" /\ Handles(r, session')
               /\ req'[r].at = "answered" /\ req'[r].saves = <<>>
               /\ Saves(r, session') /\ Done' = Done \cup {r}
<1>. USE DEF TypeInv, AnswersGiven
<1>1. UNCHANGED <<store, clientVars>>
  BY DEF Serve
<1>2. ASSUME NEW e, req' = [req EXCEPT ![r] = e], e.at # "none",
             e.answer # "none" <=> e.at = "answered", req[r].at \in {"sent", "loaded"}
      PROVE  /\ r \in Made /\ r \notin Done /\ Made' = Made /\ AnswersGiven'
             /\ \A q \in Requests \ {r} : req'[q] = req[q]
             /\ req'[r] = e
             /\ Done' = IF e.answer = "ok" THEN Done \cup {r} ELSE Done
  <2>1. \A q \in Requests : req'[q] = IF q = r THEN e ELSE req[q]
    BY <1>2
  <2>2. req[r].answer = "none"
    BY <1>2
  <2>. HIDE DEF Requests
  <2>. QED BY <2>1, <2>2, <1>2 DEF Made, Done
<1>3. CASE Refuses(r)
  <2>1. PICK valid \in BOOLEAN :
          /\ Reply(r, valid).answer # "ok"
          /\ req' = [req EXCEPT ![r] = Answered(Reply(r, valid).answer)]
    BY <1>3 DEF Refuses
  <2>2. Reply(r, valid).answer \in {"no session", "unknown", "conflict", "invalid"}
    BY <2>1, ReplyShape
  <2>3. UNCHANGED serverVars /\ req[r].at = "sent"
    BY <1>3 DEF Refuses
  <2>. DEFINE e == Answered(Reply(r, valid).answer)
  <2>4. e.at = "answered" /\ e.answer \notin {"none", "ok"} /\ e.saves = <<>>
    BY <2>2 DEF Answered, NotMade
  <2>. HIDE DEF e
  <2>5. req' = [req EXCEPT ![r] = e]
    BY <2>1 DEF e
  <2>. QED BY <1>1, <1>2, <2>3, <2>4, <2>5
<1>4. ASSUME NEW log, Saves(r, log),
             \/ req[r].at = "loaded" /\ log = req[r].saves
             \/ req[r].at = "sent" /\ store = "memory" /\ Handles(r, log)
      PROVE  /\ r \in Made /\ r \notin Done /\ Made' = Made /\ AnswersGiven'
             /\ req[r].at \in {"sent", "loaded"}
             /\ \A q \in Requests \ {r} : req'[q] = req[q]
             /\ \/ req[r].at = "loaded" /\ session' = req[r].saves
                \/ req[r].at = "sent" /\ store = "memory" /\ Handles(r, session')
             /\ req'[r].at = "answered" /\ req'[r].saves = <<>>
             /\ Saves(r, session') /\ Done' = Done \cup {r}
  <2>1. session' = log /\ req' = [req EXCEPT ![r] = Answered("ok")]
    BY <1>4 DEF Saves
  <2>2. /\ Answered("ok").at = "answered" /\ Answered("ok").answer = "ok"
        /\ Answered("ok").saves = <<>>
    BY DEF Answered, NotMade
  <2>. QED BY <1>2, <1>4, <2>1, <2>2
<1>5. CASE HandlesAtOnce(r)
  <2>1. Handles(r, Reply(r, TRUE).saves)
    BY <1>5, ReplyShape DEF HandlesAtOnce, Handles
  <2>. QED BY <2>1, <1>1, <1>4, <1>5 DEF HandlesAtOnce
<1>6. CASE Loads(r)
  <2>1. Handles(r, Reply(r, TRUE).saves)
    BY <1>6, ReplyShape DEF Loads, Handles
  <2>. DEFINE e == [req[r] EXCEPT !.at = "loaded", !.saves = Reply(r, TRUE).saves]
  <2>2. req' = [req EXCEPT ![r] = e] /\ UNCHANGED serverVars /\ req[r].at = "sent"
    BY <1>6 DEF Loads
  <2>3. req[r] \in ReqTypes /\ req[r].answer = "none"
    BY <2>2
  <2>4. e.at = "loaded" /\ e.answer = "none" /\ e.saves = Reply(r, TRUE).saves
    BY <2>3 DEF ReqTypes
  <2>. HIDE DEF e
  <2>. QED BY <1>1, <1>2, <1>6, <2>1, <2>2, <2>4 DEF Loads
<1>7. CASE SavesLoaded(r)
  BY <1>1, <1>4, <1>7 DEF SavesLoaded
<1>. QED BY <1>3, <1>5, <1>6, <1>7 DEF Serve

\* What a step of the task pane does with run n.
Moves(n) ==
  \/ \E kind \in Kinds :
       /\ \/ kind = "create" /\ phase[n] = "idle" /\ \A m \in Runs : m < n => Over(m)
          \/ kind \in {"result", "failure"} /\ phase[n] = "executing"
          \/ kind = "failure" /\ phase[n] = "result"
       /\ phase' = [phase EXCEPT ![n] = kind]
       /\ req' = [req EXCEPT ![Request(n, kind)] = SentOff]
       /\ Made' = Made \cup {Request(n, kind)}
       /\ UNCHANGED ack
  \/ /\ phase[n] = "create" /\ Request(n, "create") \in Done
     /\ phase' = [phase EXCEPT ![n] = "executing"]
     /\ UNCHANGED <<req, ack, Made>>
  \/ \E kind \in {"result", "failure"} :
       /\ phase[n] = kind /\ Request(n, kind) \in Done
       /\ phase' = [phase EXCEPT ![n] = "acked"]
       /\ ack' = [ack EXCEPT ![n] = Outcome(kind)]
       /\ UNCHANGED <<req, Made>>
  \/ /\ phase[n] \notin {"idle", "acked", "threw"}
     /\ phase' = [phase EXCEPT ![n] = "threw"]
     /\ ack' = [ack EXCEPT ![n] = "none"]
     /\ UNCHANGED <<req, Made>>

LEMMA ClientShape ==
  ASSUME TypeInv, AnswersGiven, RequestsByPhase, NEW n \in Runs,
         Client(n) \/ Start(n) \/ GivesUp(n)
  PROVE  /\ Moves(n)
         /\ Done' = Done /\ AnswersGiven'
         /\ gaveUps' >= gaveUps
         /\ gaveUps' = gaveUps /\ phase[n] \in Kinds
              => req[Request(n, phase[n])].at = "answered"
<1>. USE DEF TypeInv, AnswersGiven
<1>1. ASSUME NEW kind \in Kinds, Posts(n, kind), Request(n, kind) \notin Made
      PROVE  /\ phase' = [phase EXCEPT ![n] = kind]
             /\ req' = [req EXCEPT ![Request(n, kind)] = SentOff]
             /\ Made' = Made \cup {Request(n, kind)}
             /\ Done' = Done /\ AnswersGiven' /\ UNCHANGED ack
  <2>1. Request(n, kind) \in Requests
    BY DEF Request
  <2>2. req' = [req EXCEPT ![Request(n, kind)] = SentOff]
    BY <1>1 DEF Posts, Request
  <2>3. \A q \in Requests : req'[q] = IF q = Request(n, kind) THEN SentOff ELSE req[q]
    BY <2>1, <2>2
  <2>4. SentOff.at = "sent" /\ SentOff.answer = "none"
    BY DEF SentOff, NotMade
  <2>5. req[Request(n, kind)].answer = "none"
    BY <1>1, <2>1 DEF Made
  <2>. HIDE DEF Requests
  <2>6. Made' = Made \cup {Request(n, kind)} /\ Done' = Done /\ AnswersGiven'
    BY <2>1, <2>3, <2>4, <2>5 DEF Made, Done
  <2>. QED BY <1>1, <2>2, <2>6 DEF Posts
<1>2. UNCHANGED req => Made' = Made /\ Done' = Done /\ AnswersGiven'
  BY DEF Made, Done
<1>3. phase[n] \in Kinds => Awaited(n) = Request(n, phase[n]) /\ Awaited(n) \in Requests
  BY DEF Awaited, Request
<1>4. ASSUME Error(n), Awaiting(n)
      PROVE  Moves(n) /\ Done' = Done /\ AnswersGiven'
  <2>1. CASE phase[n] = "result"
    <3>1. Posts(n, "failure") /\ Request(n, "failure") \notin Made
      BY <1>4, <2>1 DEF Error, RequestsByPhase
    <3>. QED BY <1>1, <2>1, <3>1 DEF Moves
  <2>2. CASE phase[n] # "result"
    <3>1. Ends(n, "threw", "none") /\ phase[n] \notin {"idle", "acked", "threw"}
      BY <1>4, <2>2 DEF Error, Awaiting
    <3>. QED BY <1>2, <3>1 DEF Moves, Ends
  <2>. QED BY <2>1, <2>2
<1>5. CASE Start(n)
  <2>1. Posts(n, "create") /\ Request(n, "create") \notin Made
    BY <1>5 DEF Start, RequestsByPhase
  <2>2. "create" \in Kinds
    OBVIOUS
  <2>3. phase[n] = "idle" /\ (\A m \in Runs : m < n => Over(m)) /\ gaveUps' = gaveUps
    BY <1>5 DEF Start
  <2>. QED BY <1>1, <2>1, <2>2, <2>3 DEF Moves
<1>6. CASE Accepted(n)
  <2>1. /\ phase[n] = "create" /\ req[Request(n, "create")].answer = "ok"
        /\ phase' = [phase EXCEPT ![n] = "executing"] /\ UNCHANGED <<req, ack, gaveUps>>
    BY <1>6, <1>3 DEF Accepted, Hears, Awaiting
  <2>2. Request(n, "create") \in Done
    BY <2>1, <1>3 DEF Done
  <2>. QED BY <2>1, <2>2, <1>2, <1>3 DEF Moves
<1>7. CASE Executes(n)
  <2>1. PICK kind \in {"result", "failure"} : Posts(n, kind)
    BY <1>7 DEF Executes
  <2>2. phase[n] = "executing" /\ gaveUps' = gaveUps
    BY <1>7 DEF Executes
  <2>3. Request(n, kind) \notin Made /\ kind \in Kinds
    BY <2>2 DEF RequestsByPhase
  <2>. QED BY <1>1, <2>1, <2>2, <2>3 DEF Moves
<1>8. CASE Acknowledged(n)
  <2>1. /\ phase[n] \in {"result", "failure"} /\ req[Request(n, phase[n])].answer = "ok"
        /\ phase' = [phase EXCEPT ![n] = "acked"]
        /\ ack' = [ack EXCEPT ![n] = Outcome(phase[n])] /\ UNCHANGED <<req, gaveUps>>
    BY <1>8, <1>3 DEF Acknowledged, Hears, Awaiting, Ends
  <2>2. Request(n, phase[n]) \in Done /\ req[Request(n, phase[n])].at = "answered"
    BY <2>1, <1>3 DEF Done
  <2>3. Made' = Made /\ Done' = Done /\ AnswersGiven'
    BY <2>1, <1>2
  <2>4. \E kind \in {"result", "failure"} :
          /\ phase[n] = kind /\ Request(n, kind) \in Done
          /\ phase' = [phase EXCEPT ![n] = "acked"]
          /\ ack' = [ack EXCEPT ![n] = Outcome(kind)]
          /\ UNCHANGED <<req, Made>>
    BY <2>1, <2>2, <2>3
  <2>5. Moves(n)
    BY <2>4 DEF Moves
  <2>6. gaveUps' >= gaveUps
    BY <2>1
  <2>. HIDE DEF Requests, TypeInv, AnswersGiven
  <2>. QED BY <2>2, <2>3, <2>5, <2>6
<1>9. CASE Refused(n)
  <2>1. Awaiting(n) /\ req[Request(n, phase[n])].answer # "none" /\ Error(n)
    BY <1>9, <1>3 DEF Refused, HearsError, Awaiting
  <2>. QED BY <1>4, <1>9, <1>3, <2>1 DEF Refused, Awaiting
<1>10. CASE GivesUp(n)
  <2>1. gaveUps' = gaveUps + 1 /\ gaveUps \in Int
    BY <1>10 DEF GivesUp
  <2>. QED BY <1>4, <1>10, <2>1 DEF GivesUp
<1>. QED BY <1>5, <1>6, <1>7, <1>8, <1>9, <1>10 DEF Client

-----------------------------------------------------------------------------
(* What the task pane knows of its requests.                                 *)

LEMMA ClientInit == Init => ClientInv
<1>. SUFFICES ASSUME Init PROVE ClientInv
  OBVIOUS
<1>1. \A r \in Requests : req[r].at = "none" /\ req[r].answer = "none" /\ req[r].saves = <<>>
  BY DEF Init, NotMade
<1>2. \A n \in Runs : phase[n] = "idle" /\ ack[n] = "none" /\ recorded[n] = {}
  BY DEF Init
<1>3. Made = {} /\ Done = {} /\ AnswersGiven
  <2>. HIDE DEF Requests
  <2>. QED BY <1>1 DEF Made, Done, AnswersGiven
<1>4. StatusAsked(<<>>, Made)
  BY DEF StatusAsked
<1>5. session = <<>>
  BY DEF Init
<1>6. NothingInvented
  <2>. HIDE DEF Requests
  <2>. QED BY <1>1, <1>4, <1>5 DEF NothingInvented
<1>7. RequestsByPhase /\ AcksAreAnswers /\ RecordExact
  BY <1>2, <1>3 DEF RequestsByPhase, AcksAreAnswers, RecordExact
<1>. QED BY <1>3, <1>6, <1>7 DEF ClientInv

\* A log made of one whose statuses were asked for has statuses asked for.
LEMMA HandledAsked ==
  ASSUME NEW r \in Requests, NEW new, Handles(r, new), LogOK(session),
         NEW made, r \in made, StatusAsked(session, made)
  PROVE  StatusAsked(new, made)
<1>1. DOMAIN session = 1 .. Len(session) /\ DOMAIN new = 1 .. Len(new) /\ Len(new) \in Nat
      /\ Len(session) \in Nat
  BY LenProperties DEF LogOK, Handles
<1>2. CASE r.kind = "create"
  <2>1. PICK d \in {0, 1} :
          /\ Len(new) = Len(session) + 1 - d
          /\ \A i \in 1 .. Len(session) - d : new[i] = session[i + d]
          /\ new[Len(new)] = Call(r.run)
    BY <1>2 DEF Handles, Extends
  <2>2. ASSUME NEW i \in DOMAIN new
        PROVE  new[i] = Call(r.run) \/ (i + d \in DOMAIN session /\ new[i] = session[i + d])
    <3>1. i \in 1 .. Len(session) - d \/ i = Len(new)
      BY <1>1, <2>1
    <3>2. i \in 1 .. Len(session) - d => i + d \in DOMAIN session
      BY <1>1
    <3>. QED BY <2>1, <3>1, <3>2
  <2>3. Call(r.run).status = "validated"
    BY DEF Call
  <2>. QED BY <2>2, <2>3 DEF StatusAsked
<1>3. CASE r.kind # "create"
  <2>1. PICK i \in 1 .. Len(session) :
          /\ Len(new) = Len(session)
          /\ new[i] = [id |-> r.run, status |-> Outcome(r.kind)]
          /\ \A j \in 1 .. Len(session) : j # i => new[j] = session[j]
    BY <1>3 DEF Handles, Resolves
  <2>2. r = Request(r.run, r.kind)
    BY DEF Request
  <2>3. /\ new[i].status = "completed" => Request(new[i].id, "result") \in made
        /\ new[i].status = "failed" => Request(new[i].id, "failure") \in made
    BY <2>1, <2>2, <1>3 DEF Outcome
  <2>. QED BY <1>1, <2>1, <2>3 DEF StatusAsked
<1>. QED BY <1>2, <1>3

LEMMA ServeKeepsClient ==
  ASSUME TypeInv, ClientInv, NEW r \in Requests, Serve(r)
  PROVE  ClientInv'
<1>. USE DEF ClientInv
<1>1. /\ UNCHANGED <<phase, ack, gaveUps>>
      /\ r \in Made /\ r \notin Done /\ Made' = Made /\ AnswersGiven'
      /\ Done \subseteq Done'
  BY ServeShape DEF clientVars
<1>2. RequestsByPhase' /\ AcksAreAnswers'
  BY <1>1 DEF RequestsByPhase, AcksAreAnswers
<1>3. \A q \in Requests \ {r} : req'[q] = req[q]
  BY ServeShape
<1>4. ASSUME NEW new, Handles(r, new)
      PROVE  StatusAsked(new, Made)
  <2>1. LogOK(session) /\ StatusAsked(session, Made)
    BY <1>4 DEF Handles, TypeInv, NothingInvented
  <2>. QED BY <1>1, <1>4, <2>1, HandledAsked
<1>5. StatusAsked(<<>>, Made)
  BY DEF StatusAsked
<1>6. \/ UNCHANGED serverVars /\ Done' = Done
      \/ StatusAsked(session', Made) /\ Saves(r, session') /\ Done' = Done \cup {r}
  <2>1. req[r].at = "loaded" => StatusAsked(req[r].saves, Made)
    BY DEF NothingInvented
  <2>. QED BY <2>1, <1>4, ServeShape
<1>7. req'[r].saves = <<>> \/ Handles(r, req'[r].saves)
  BY ServeShape
<1>8. NothingInvented'
  <2>1. session' # NoSession => StatusAsked(session', Made)
    BY <1>6 DEF NothingInvented, serverVars
  <2>2. \A q \in Requests : StatusAsked(req'[q].saves, Made)
    <3>. HIDE DEF Requests
    <3>. QED BY <1>3, <1>4, <1>5, <1>7 DEF NothingInvented
  <2>. HIDE DEF Requests
  <2>. QED BY <2>1, <2>2, <1>1 DEF NothingInvented
<1>9. RecordExact'
  <2>1. CASE UNCHANGED serverVars /\ Done' = Done
    BY <2>1 DEF RecordExact, serverVars
  <2>2. CASE Saves(r, session') /\ Done' = Done \cup {r} /\ r.kind = "create"
    <3>1. \A n \in Runs : Request(n, "result") # r /\ Request(n, "failure") # r
      BY <2>2 DEF Request
    <3>. QED BY <2>2, <3>1 DEF RecordExact, Saves
  <2>3. CASE Saves(r, session') /\ Done' = Done \cup {r} /\ r.kind # "create"
    <3>1. \A n \in Runs : recorded'[n] = IF n = r.run THEN recorded[n] \cup {Outcome(r.kind)}
                                         ELSE recorded[n]
      BY <2>3 DEF Saves, TypeInv
    <3>2. r = Request(r.run, r.kind) /\ r.kind \in {"result", "failure"} /\ r.run \in Runs
      BY <2>3 DEF Request
    <3>3. \A n \in Runs, k \in Kinds : Request(n, k) = r <=> n = r.run /\ k = r.kind
      BY <3>2 DEF Request
    <3>4. Outcome(r.kind) = "completed" <=> r.kind = "result"
      BY DEF Outcome
    <3>5. Outcome(r.kind) \in {"completed", "failed"}
      BY OutcomeType
    <3>6. \A n \in Runs, k \in Kinds :
            Request(n, k) \in Done' <=> Request(n, k) \in Done \/ (n = r.run /\ k = r.kind)
      BY <2>3, <3>3
    <3>. HIDE DEF Requests
    <3>7. ASSUME NEW n \in Runs
          PROVE  /\ "completed" \in recorded'[n] <=> Request(n, "result") \in Done'
                 /\ "failed" \in recorded'[n] <=> Request(n, "failure") \in Done'
      <4>1. /\ "completed" \in recorded[n] <=> Request(n, "result") \in Done
            /\ "failed" \in recorded[n] <=> Request(n, "failure") \in Done
        BY DEF RecordExact
      <4>2. \A k \in {"result", "failure"} :
              Request(n, k) \in Done' <=> Request(n, k) \in Done \/ (n = r.run /\ k = r.kind)
        BY <3>6 DEF Kinds
      <4>3. recorded'[n] = IF n = r.run THEN recorded[n] \cup {Outcome(r.kind)} ELSE recorded[n]
        BY <3>1
      <4>4. "completed" \in recorded'[n] <=> "completed" \in recorded[n] \/ (n = r.run /\ "result" = r.kind)
        BY <3>4, <4>3
      <4>5. "failed" \in recorded'[n] <=> "failed" \in recorded[n] \/ (n = r.run /\ "failure" = r.kind)
        BY <3>2, <3>4, <3>5, <4>3
      <4>. QED BY <4>1, <4>2, <4>4, <4>5
    <3>. QED BY <3>7 DEF RecordExact
  <2>. QED BY <1>6, <2>1, <2>2, <2>3
<1>. QED BY <1>1, <1>2, <1>8, <1>9

LEMMA ClientKeepsClient ==
  ASSUME TypeInv, ClientInv, NEW n \in Runs, Client(n) \/ Start(n) \/ GivesUp(n),
         UNCHANGED serverVars
  PROVE  ClientInv'
<1>. USE DEF ClientInv
<1>1. Moves(n) /\ Done' = Done /\ AnswersGiven'
  BY ClientShape
<1>2. RecordExact'
  BY <1>1 DEF RecordExact, serverVars
<1>3. \A m \in Runs, k \in Kinds : Request(m, k) \in Requests
  BY DEF Request
<1>4. \A m, l \in Runs, k, j \in Kinds : Request(m, k) = Request(l, j) <=> m = l /\ k = j
  BY DEF Request
<1>5. ASSUME NEW made, Made \subseteq made, NEW log, StatusAsked(log, Made)
      PROVE  StatusAsked(log, made)
  BY <1>5 DEF StatusAsked
<1>6. ASSUME Made \subseteq Made', \A r \in Requests : req'[r].saves \in {<<>>, req[r].saves}
      PROVE  NothingInvented'
  <2>1. session' = session
    BY DEF serverVars
  <2>2. \A r \in Requests : StatusAsked(req[r].saves, Made') /\ StatusAsked(<<>>, Made')
    BY <1>5, <1>6 DEF NothingInvented, StatusAsked
  <2>3. session # NoSession => StatusAsked(session, Made')
    BY <1>5, <1>6 DEF NothingInvented
  <2>. HIDE DEF Requests
  <2>4. \A r \in Requests : StatusAsked(req'[r].saves, Made')
    BY <1>6, <2>2
  <2>. QED BY <2>1, <2>3, <2>4 DEF NothingInvented
<1>7. ASSUME UNCHANGED <<req, Made>> PROVE NothingInvented'
  BY <1>6, <1>7
<1>8. ASSUME NEW kind \in Kinds,
             \/ kind = "create" /\ phase[n] = "idle"
             \/ kind \in {"result", "failure"} /\ phase[n] = "executing"
             \/ kind = "failure" /\ phase[n] = "result",
             phase' = [phase EXCEPT ![n] = kind],
             req' = [req EXCEPT ![Request(n, kind)] = SentOff],
             Made' = Made \cup {Request(n, kind)},
             UNCHANGED ack
      PROVE  ClientInv'
  <2>1. \A m \in Runs : phase'[m] = IF m = n THEN kind ELSE phase[m]
    BY <1>8 DEF TypeInv
  <2>2. RequestsByPhase'
    <3>1. \A m \in Runs, k \in Kinds : /\ Request(m, k) \in Done' <=> Request(m, k) \in Done
                                       /\ Request(m, k) \in Made' <=>
                                            Request(m, k) \in Made \/ (m = n /\ k = kind)
      BY <1>1, <1>4, <1>8
    <3>2. ASSUME NEW m \in Runs, m # n
          PROVE  phase'[m] = phase[m] /\ \A k \in Kinds : Request(m, k) \in Made' <=> Request(m, k) \in Made
      BY <2>1, <3>1, <3>2
    <3>3. kind # "create" => Request(n, "create") \in Done
      BY <1>8 DEF RequestsByPhase
    <3>4. ASSUME NEW m \in Runs
          PROVE  /\ phase'[m] = "idle" => Request(m, "create") \notin Made'
                 /\ phase'[m] \in {"idle", "create", "executing"} => Request(m, "result") \notin Made'
                 /\ phase'[m] \in {"idle", "create", "executing", "result"} => Request(m, "failure") \notin Made'
                 /\ phase'[m] \in {"executing", "result"} \/ Request(m, "result") \in Made' \/ Request(m, "failure") \in Made'
                      => Request(m, "create") \in Done'
      <4>1. CASE m = n
        BY <1>8, <2>1, <3>1, <3>3, <4>1 DEF RequestsByPhase
      <4>2. CASE m # n
        BY <2>1, <3>1, <3>2, <4>2 DEF RequestsByPhase
      <4>. QED BY <4>1, <4>2
    <3>. QED BY <3>4 DEF RequestsByPhase
  <2>3. AcksAreAnswers'
    BY <1>1, <1>4, <1>8, <2>1 DEF AcksAreAnswers
  <2>4. \A r \in Requests : req'[r] = IF r = Request(n, kind) THEN SentOff ELSE req[r]
    BY <1>3, <1>8 DEF TypeInv
  <2>5. SentOff.saves = <<>>
    BY RequestTypes
  <2>. HIDE DEF Requests
  <2>6. \A r \in Requests : req'[r].saves \in {<<>>, req[r].saves}
    BY <2>4, <2>5
  <2>7. NothingInvented'
    BY <1>6, <1>8, <2>6
  <2>. QED BY <1>1, <1>2, <2>2, <2>3, <2>7
<1>9. ASSUME phase[n] = "create" /\ Request(n, "create") \in Done,
             phase' = [phase EXCEPT ![n] = "executing"],
             UNCHANGED <<req, ack, Made>>
      PROVE  ClientInv'
  <2>1. \A m \in Runs : phase'[m] = IF m = n THEN "executing" ELSE phase[m]
    BY <1>9 DEF TypeInv
  <2>2. RequestsByPhase'
    BY <1>1, <1>9, <2>1 DEF RequestsByPhase
  <2>3. AcksAreAnswers'
    BY <1>1, <1>9, <2>1 DEF AcksAreAnswers
  <2>. QED BY <1>1, <1>2, <1>7, <1>9, <2>2, <2>3
<1>10. ASSUME NEW how \in {"acked", "threw"}, NEW status,
              phase[n] \notin {"idle", "acked", "threw"},
              phase' = [phase EXCEPT ![n] = how],
              ack' = [ack EXCEPT ![n] = status],
              UNCHANGED <<req, Made>>,
              \/ how = "threw" /\ status = "none"
              \/ /\ how = "acked" /\ phase[n] = "result"
                 /\ Request(n, "result") \in Done /\ status = "completed"
              \/ /\ how = "acked" /\ phase[n] = "failure"
                 /\ Request(n, "failure") \in Done /\ status = "failed"
       PROVE  ClientInv'
  <2>1. \A m \in Runs : /\ phase'[m] = IF m = n THEN how ELSE phase[m]
                        /\ ack'[m] = IF m = n THEN status ELSE ack[m]
    BY <1>10 DEF TypeInv
  <2>2. RequestsByPhase'
    BY <1>1, <1>10, <2>1 DEF RequestsByPhase
  <2>3. AcksAreAnswers'
    BY <1>1, <1>10, <2>1 DEF AcksAreAnswers, RequestsByPhase
  <2>. QED BY <1>1, <1>2, <1>7, <1>10, <2>2, <2>3
<1>11. Outcome("result") = "completed" /\ Outcome("failure") = "failed"
  BY DEF Outcome
<1>. QED BY <1>1, <1>8, <1>9, <1>10, <1>11 DEF Moves

LEMMA ClientStep == TypeInv /\ ClientInv /\ [Next]_vars => ClientInv'
<1>. SUFFICES ASSUME TypeInv, ClientInv, [Next]_vars PROVE ClientInv'
  OBVIOUS
<1>1. CASE \E r \in Requests : Serve(r)
  BY <1>1, ServeKeepsClient
<1>2. ASSUME UNCHANGED <<req, phase, ack, recorded>>,
             session' \in {NoSession, session}
      PROVE  ClientInv'
  <2>1. Made' = Made /\ Done' = Done
    BY <1>2 DEF Made, Done
  <2>2. RequestsByPhase' /\ AcksAreAnswers' /\ RecordExact'
    BY <1>2, <2>1 DEF ClientInv, RequestsByPhase, AcksAreAnswers, RecordExact
  <2>. HIDE DEF Requests
  <2>3. AnswersGiven' /\ NothingInvented'
    BY <1>2, <2>1 DEF ClientInv, AnswersGiven, NothingInvented
  <2>. QED BY <2>2, <2>3 DEF ClientInv
<1>3. CASE Expire
  BY <1>2, <1>3 DEF Expire, clientVars
<1>4. ASSUME NEW n \in Runs,
             Client(n) \/ ((Start(n) \/ GivesUp(n)) /\ UNCHANGED <<store, serverVars>>)
      PROVE  ClientInv'
  <2>1. (Client(n) \/ Start(n) \/ GivesUp(n)) /\ UNCHANGED serverVars
    BY <1>4 DEF Client
  <2>. QED BY <2>1, ClientKeepsClient
<1>5. CASE UNCHANGED vars
  BY <1>2, <1>5 DEF vars, serverVars, clientVars
<1>. QED BY <1>1, <1>3, <1>4, <1>5 DEF Next

\* NoInventedOutcome, whatever the store, and however often the task pane gives
\* a request up: a call is on record as completed or failed only if that was
\* posted for it, and no acknowledged completion turns into a failure.
THEOREM NothingIsInvented == Spec => []NoInventedOutcome
<1>1. TypeInv /\ ClientInv => NoInventedOutcome
  <2>. SUFFICES ASSUME TypeInv, ClientInv, session # NoSession, NEW i \in DOMAIN session
                PROVE  LET n == session[i].id
                       IN  /\ session[i].status = "completed" => req[[run |-> n, kind |-> "result"]].at # "none"
                           /\ session[i].status = "failed" => /\ req[[run |-> n, kind |-> "failure"]].at # "none"
                                                             /\ ack[n] # "completed"
    BY DEF NoInventedOutcome
  <2>1. session[i].id \in Runs
    <3>1. session \in Seq(ToolCall) /\ i \in 1 .. Len(session)
      BY DEF TypeInv, LogOK
    <3>2. session[i] \in ToolCall
      BY <3>1, ElementOfSeq
    <3>. QED BY <3>2 DEF ToolCall
  <2>2. /\ session[i].status = "completed" => Request(session[i].id, "result") \in Made
        /\ session[i].status = "failed" => Request(session[i].id, "failure") \in Made
    BY DEF ClientInv, NothingInvented, StatusAsked
  <2>3. ack[session[i].id] = "completed" => Request(session[i].id, "failure") \notin Made
    BY <2>1 DEF ClientInv, AcksAreAnswers
  <2>. QED BY <2>2, <2>3 DEF Made, Request
<1>. QED BY <1>1, TypeInit, TypeStep, ClientInit, ClientStep, PTL DEF Spec

-----------------------------------------------------------------------------
(* The log while handlers do not overlap.                                    *)

\* A call is created once, at the end of the log.
LEMMA CreatedFits ==
  ASSUME NEW log, LogOK(log), NEW r \in Requests, r.kind = "create",
         NEW new, LogOK(new), Extends(new, log, r.run),
         NEW done \in SUBSET Requests, r \notin done, LogFits(log, done),
         \A q \in done : Request(q.run, "create") \in done
  PROVE  LogFits(new, done \cup {r})
<1>1. PICK d \in {0, 1} :
        /\ d = 1 <=> Len(log) = MaxLog
        /\ Len(new) = Len(log) + 1 - d
        /\ \A i \in 1 .. Len(log) - d : new[i] = log[i + d]
        /\ new[Len(new)] = Call(r.run)
  BY DEF Extends
<1>2. /\ Len(log) \in Nat /\ Len(new) \in Nat /\ d \in Int
      /\ DOMAIN log = 1 .. Len(log) /\ DOMAIN new = 1 .. Len(new)
  BY LenProperties DEF LogOK
<1>3. r = Request(r.run, "create")
  BY DEF Request
<1>4. \A i \in DOMAIN log : log[i].id # r.run
  BY <1>3 DEF LogFits
<1>5. \A q \in done : q.run # r.run
  BY <1>3
<1>6. Call(r.run).id = r.run
  BY DEF Call
<1>7. ASSUME NEW i \in DOMAIN new
      PROVE  \/ i = Len(new) /\ new[i].id = r.run
             \/ i # Len(new) /\ i + d \in DOMAIN log /\ new[i] = log[i + d]
  <2>1. CASE i = Len(new)
    BY <2>1, <1>1, <1>6
  <2>2. CASE i # Len(new)
    <3>1. i \in 1 .. Len(log) - d /\ i + d \in 1 .. Len(log)
      BY <1>1, <1>2, <2>2
    <3>. QED BY <3>1, <2>2, <1>1, <1>2
  <2>. QED BY <2>1, <2>2
<1>8. ASSUME NEW i \in DOMAIN new, NEW j \in DOMAIN new, new[i].id = new[j].id
      PROVE  i = j
  <2>1. CASE i = Len(new) \/ j = Len(new)
    BY <1>4, <1>7, <1>8, <2>1
  <2>2. CASE i # Len(new) /\ j # Len(new)
    <3>1. i + d = j + d
      BY <1>7, <1>8, <2>2 DEF LogFits
    <3>. QED BY <3>1, <1>2
  <2>. QED BY <2>1, <2>2
<1>9. \A i \in DOMAIN new : Request(new[i].id, "create") \in done \cup {r}
  BY <1>3, <1>7 DEF LogFits
<1>10. ASSUME NEW q \in done, q.kind # "create"
       PROVE  \/ \E i \in DOMAIN new : new[i].id = q.run /\ new[i].status = Outcome(q.kind)
              \/ Len(new) = MaxLog /\ \A i \in DOMAIN new : new[i].id # q.run
  <2>1. CASE Len(log) = MaxLog /\ \A i \in DOMAIN log : log[i].id # q.run
    <3>1. \A i \in DOMAIN new : new[i].id # q.run
      BY <2>1, <1>5, <1>7
    <3>. QED BY <3>1, <2>1, <1>1, <1>2
  <2>2. ASSUME NEW k \in DOMAIN log, log[k].id = q.run, log[k].status = Outcome(q.kind)
        PROVE  \/ \E i \in DOMAIN new : new[i].id = q.run /\ new[i].status = Outcome(q.kind)
               \/ Len(new) = MaxLog /\ \A i \in DOMAIN new : new[i].id # q.run
    <3>1. CASE k > d
      <4>1. k - d \in 1 .. Len(log) - d /\ k - d \in DOMAIN new /\ k - d + d = k
        BY <3>1, <1>1, <1>2
      <4>2. new[k - d] = log[k]
        BY <4>1, <1>1
      <4>. QED BY <2>2, <4>1, <4>2
    <3>2. CASE k = d
      <4>1. \A i \in DOMAIN new : i + d # k
        BY <3>2, <1>2
      <4>2. \A i \in DOMAIN new : new[i].id # q.run
        BY <4>1, <2>2, <1>5, <1>7 DEF LogFits
      <4>3. d = 1
        BY <3>2, <1>2
      <4>. QED BY <4>2, <4>3, <1>1, <1>2
    <3>. QED BY <3>1, <3>2, <1>2
  <2>. QED BY <2>1, <2>2, <1>10 DEF LogFits
<1>. QED BY <1>8, <1>9, <1>10 DEF LogFits

\* A call that is still open has no outcome on record, and gets this one.
LEMMA ResolvedFits ==
  ASSUME NEW log, LogOK(log), NEW r \in Requests, r.kind # "create",
         NEW new, LogOK(new), Resolves(new, log, r.run, r.kind),
         NEW done \in SUBSET Requests, LogFits(log, done)
  PROVE  /\ LogFits(new, done \cup {r})
         /\ \A q \in done : q.kind # "create" => q.run # r.run
<1>1. PICK i \in 1 .. Len(log) :
        /\ log[i] = Call(r.run)
        /\ Len(new) = Len(log)
        /\ new[i] = [id |-> r.run, status |-> Outcome(r.kind)]
        /\ \A j \in 1 .. Len(log) : j # i => new[j] = log[j]
  BY DEF Resolves
<1>2. /\ DOMAIN log = 1 .. Len(log) /\ DOMAIN new = DOMAIN log /\ Len(new) = Len(log)
  BY <1>1, LenProperties DEF LogOK
<1>3. log[i].id = r.run /\ log[i].status = "validated" /\ Outcome(r.kind) # "validated"
  BY <1>1 DEF Call, Outcome
<1>4. \A j \in DOMAIN log : new[j].id = log[j].id
  BY <1>1, <1>2, <1>3
<1>5. ASSUME NEW q \in done, q.kind # "create" PROVE q.run # r.run
  <2>1. ASSUME q.run = r.run PROVE FALSE
    <3>1. PICK j \in DOMAIN log : log[j].id = q.run /\ log[j].status = Outcome(q.kind)
      BY <1>2, <1>3, <1>5, <2>1 DEF LogFits
    <3>2. j = i
      BY <3>1, <2>1, <1>2, <1>3 DEF LogFits
    <3>. QED BY <3>1, <3>2, <1>3 DEF Outcome
  <2>. QED BY <2>1
<1>6. ASSUME NEW q \in done, q.kind # "create"
      PROVE  \/ \E j \in DOMAIN new : new[j].id = q.run /\ new[j].status = Outcome(q.kind)
             \/ Len(new) = MaxLog /\ \A j \in DOMAIN new : new[j].id # q.run
  <2>1. CASE Len(log) = MaxLog /\ \A j \in DOMAIN log : log[j].id # q.run
    BY <2>1, <1>2, <1>4
  <2>2. ASSUME NEW j \in DOMAIN log, log[j].id = q.run, log[j].status = Outcome(q.kind)
        PROVE  new[j].id = q.run /\ new[j].status = Outcome(q.kind)
    BY <2>2, <1>1, <1>2, <1>3, <1>5, <1>6
  <2>. QED BY <2>1, <2>2, <1>2, <1>6 DEF LogFits
<1>7. i \in DOMAIN new /\ new[i].id = r.run /\ new[i].status = Outcome(r.kind)
  BY <1>1, <1>2
<1>8. \A k, j \in DOMAIN new : new[k].id = new[j].id => k = j
  BY <1>2, <1>4 DEF LogFits
<1>9. \A k \in DOMAIN new : Request(new[k].id, "create") \in done \cup {r}
  BY <1>2, <1>4 DEF LogFits
<1>. QED BY <1>5, <1>6, <1>7, <1>8, <1>9 DEF LogFits

\* What a handler makes of a log that fits the requests done, fits them and the
\* request handled.
LEMMA HandledFits ==
  ASSUME TypeInv, ClientInv, NEW r \in Requests, r \notin Done, NEW new, Handles(r, new),
         LogFits(session, Done), OneOutcome(Done)
  PROVE  LogFits(new, Done \cup {r}) /\ OneOutcome(Done \cup {r})
<1>1. LogOK(session) /\ LogOK(new) /\ Done \in SUBSET Requests
  BY DEF Handles, TypeInv, Done
<1>2. \A n \in Runs, k \in Kinds : Request(n, k) = r <=> n = r.run /\ k = r.kind
  BY DEF Request
<1>3. CASE r.kind = "create"
  <2>1. ASSUME NEW q \in Done PROVE Request(q.run, "create") \in Done
    <3>1. q \in Requests /\ q \in Made
      BY DEF Done, Made, ClientInv, AnswersGiven
    <3>2. q = Request(q.run, q.kind) /\ q.run \in Runs /\ q.kind \in Kinds
      BY <3>1 DEF Request
    <3>. QED BY <3>1, <3>2, <2>1 DEF ClientInv, RequestsByPhase
  <2>2. LogFits(new, Done \cup {r})
    BY <1>1, <1>3, <2>1, CreatedFits DEF Handles
  <2>3. OneOutcome(Done \cup {r})
    BY <1>2, <1>3 DEF OneOutcome
  <2>. QED BY <2>2, <2>3
<1>4. CASE r.kind # "create"
  <2>1. /\ LogFits(new, Done \cup {r})
        /\ \A q \in Done : q.kind # "create" => q.run # r.run
    BY <1>1, <1>4, ResolvedFits DEF Handles
  <2>2. OneOutcome(Done \cup {r})
    <3>1. \A n \in Runs, k \in {"result", "failure"} : Request(n, k) \in Done => n # r.run
      BY <2>1 DEF Request
    <3>. QED BY <1>2, <3>1 DEF OneOutcome
  <2>. QED BY <2>1, <2>2
<1>. QED BY <1>3, <1>4

LEMMA LogInit == Init => LogInv
<1>. SUFFICES ASSUME Init PROVE LogInv
  OBVIOUS
<1>1. \A r \in Requests : req[r].at = "none" /\ req[r].answer = "none"
  BY DEF Init, NotMade
<1>2. Done = {} /\ MemoryIsAtomic /\ OutIsAwaited
  <2>. HIDE DEF Requests
  <2>. QED BY <1>1 DEF Done, MemoryIsAtomic, OutIsAwaited
<1>3. session = <<>> /\ \A n \in Runs : phase[n] = "idle"
  BY DEF Init
<1>4. LogFits(<<>>, {}) /\ OneOutcome({})
  BY DEF LogFits, OneOutcome
<1>. QED BY <1>1, <1>2, <1>3, <1>4 DEF LogInv, RunsInOrder

\* While handlers do not overlap, a request that is loaded is the only one out.
LEMMA OneLoaded ==
  ASSUME TypeInv, ClientInv, LogInv, Serial, NEW q \in Requests, NEW r \in Requests,
         req[q].at = "loaded", req[r].at \in {"sent", "loaded"}
  PROVE  q = r
<1>1. gaveUps = 0
  BY DEF LogInv, MemoryIsAtomic, Serial
<1>2. phase[q.run] = q.kind /\ phase[r.run] = r.kind
  BY <1>1 DEF LogInv, OutIsAwaited
<1>3. q.run \in Runs /\ r.run \in Runs /\ q.kind \in Kinds /\ r.kind \in Kinds
  OBVIOUS
<1>4. ~(q.run < r.run) /\ ~(r.run < q.run)
  BY <1>2, <1>3 DEF LogInv, RunsInOrder, Over
<1>5. q.run = r.run
  BY <1>3, <1>4
<1>. QED BY <1>2, <1>5

LEMMA ServeKeepsLog ==
  ASSUME TypeInv, ClientInv, LogInv, NEW r \in Requests, Serve(r)
  PROVE  LogInv'
<1>1. /\ UNCHANGED <<store, phase, gaveUps>>
      /\ r \notin Done /\ req[r].at \in {"sent", "loaded"}
      /\ \A q \in Requests \ {r} : req'[q] = req[q]
  BY ServeShape DEF ClientInv, clientVars
<1>2. /\ req'[r].at = "loaded" => store = "redis" /\ req[r].at = "sent"
      /\ req'[r].at # "sent"
  BY ServeShape DEF ClientInv
<1>3. RunsInOrder' /\ MemoryIsAtomic' /\ OutIsAwaited'
  <2>1. RunsInOrder'
    BY <1>1 DEF LogInv, RunsInOrder, Over
  <2>. HIDE DEF Requests
  <2>2. MemoryIsAtomic' /\ OutIsAwaited'
    BY <1>1, <1>2 DEF LogInv, MemoryIsAtomic, OutIsAwaited
  <2>. QED BY <2>1, <2>2
<1>4. ASSUME Serial'
      PROVE  /\ OneOutcome(Done')
             /\ session' # NoSession => LogFits(session', Done')
             /\ \A q \in Requests : req'[q].at = "loaded" =>
                  LogFits(req'[q].saves, Done' \cup {q}) /\ OneOutcome(Done' \cup {q})
  <2>1. Serial
    BY <1>1, <1>4 DEF Serial
  <2>2. /\ OneOutcome(Done)
        /\ session # NoSession => LogFits(session, Done)
        /\ \A q \in Requests : req[q].at = "loaded" =>
             LogFits(req[q].saves, Done \cup {q}) /\ OneOutcome(Done \cup {q})
    BY <2>1 DEF LogInv
  <2>3. ASSUME NEW new, Handles(r, new)
        PROVE  LogFits(new, Done \cup {r}) /\ OneOutcome(Done \cup {r})
    BY <1>1, <2>2, <2>3, HandledFits DEF Handles
  <2>4. CASE Done' = Done /\ UNCHANGED serverVars
    <3>1. session' = session
      BY <2>4 DEF serverVars
    <3>2. req'[r].at = "loaded" => Handles(r, req'[r].saves)
      BY ServeShape DEF ClientInv
    <3>3. ASSUME NEW q \in Requests, req'[q].at = "loaded"
          PROVE  LogFits(req'[q].saves, Done \cup {q}) /\ OneOutcome(Done \cup {q})
      BY <3>2, <3>3, <1>1, <2>2, <2>3
    <3>. QED BY <2>2, <2>4, <3>1, <3>3
  <2>5. CASE /\ \/ req[r].at = "loaded" /\ session' = req[r].saves
                \/ req[r].at = "sent" /\ store = "memory" /\ Handles(r, session')
             /\ req'[r].at = "answered" /\ Done' = Done \cup {r}
    <3>1. LogFits(session', Done') /\ OneOutcome(Done')
      BY <2>2, <2>3, <2>5
    <3>2. ASSUME NEW q \in Requests PROVE req'[q].at # "loaded"
      <4>1. CASE q = r
        BY <4>1, <2>5
      <4>2. CASE q # r
        BY <4>2, <1>1, <2>1, OneLoaded
      <4>. QED BY <4>1, <4>2
    <3>. QED BY <3>1, <3>2
  <2>6. AnswersGiven
    BY DEF ClientInv
  <2>. QED BY <2>4, <2>5, <2>6, ServeShape
<1>. QED BY <1>3, <1>4 DEF LogInv

LEMMA ClientKeepsLog ==
  ASSUME TypeInv, ClientInv, LogInv, NEW n \in Runs, Client(n) \/ Start(n) \/ GivesUp(n),
         UNCHANGED <<store, serverVars>>
  PROVE  LogInv'
<1>1. /\ Moves(n)
      /\ Done' = Done
      /\ gaveUps' >= gaveUps
      /\ gaveUps' = gaveUps /\ phase[n] \in Kinds => req[Request(n, phase[n])].at = "answered"
  BY ClientShape DEF ClientInv
<1>2. gaveUps \in Nat
  BY BoundsAssumption DEF TypeInv
<1>3. PICK how \in Kinds \cup {"executing", "acked", "threw"} :
        /\ phase' = [phase EXCEPT ![n] = how]
        /\ \/ how = "create" /\ phase[n] = "idle" /\ \A m \in Runs : m < n => Over(m)
           \/ phase[n] \notin {"idle", "acked", "threw"}
        /\ \/ how \in Kinds /\ req' = [req EXCEPT ![Request(n, how)] = SentOff]
           \/ how \notin Kinds /\ UNCHANGED req
  BY <1>1 DEF Moves
<1>4. \A m \in Runs : phase'[m] = IF m = n THEN how ELSE phase[m]
  BY <1>3 DEF TypeInv
<1>5. RunsInOrder'
  <2>1. \A m \in Runs : Over(m) => m # n /\ Over(m)'
    BY <1>3, <1>4 DEF Over
  <2>. QED BY <2>1, <1>3, <1>4 DEF LogInv, RunsInOrder, Over
<1>6. \A q \in Requests : req'[q] = IF how \in Kinds /\ q = Request(n, how) THEN SentOff ELSE req[q]
  BY <1>3 DEF TypeInv
<1>7. SentOff.at = "sent"
  BY DEF SentOff, NotMade
<1>8. \A q \in Requests : req'[q].at = "loaded" => req'[q] = req[q]
  <2>. HIDE DEF Requests
  <2>. QED BY <1>6, <1>7
<1>9. MemoryIsAtomic'
  <2>. HIDE DEF Requests
  <2>. QED BY <1>8 DEF LogInv, MemoryIsAtomic
<1>10. OutIsAwaited'
  <2>. SUFFICES ASSUME gaveUps' = 0, NEW q \in Requests, req'[q].at \in {"sent", "loaded"}
                PROVE  phase'[q.run] = q.kind
    BY DEF OutIsAwaited
  <2>1. gaveUps = 0
    BY <1>1, <1>2
  <2>2. CASE how \in Kinds /\ q = Request(n, how)
    BY <2>2, <1>4 DEF Request
  <2>3. CASE ~(how \in Kinds /\ q = Request(n, how))
    <3>1. req[q].at \in {"sent", "loaded"} /\ phase[q.run] = q.kind
      BY <2>1, <2>3, <1>6 DEF LogInv, OutIsAwaited
    <3>2. q = Request(q.run, q.kind) /\ q.kind \in Kinds /\ q.run \in Runs
      BY DEF Request
    <3>3. q.run # n
      BY <3>1, <3>2, <1>1, <2>1
    <3>. QED BY <3>1, <3>2, <3>3, <1>4
  <2>. QED BY <2>2, <2>3
<1>11. ASSUME Serial'
       PROVE  /\ OneOutcome(Done')
              /\ session' # NoSession => LogFits(session', Done')
              /\ \A q \in Requests : req'[q].at = "loaded" =>
                   LogFits(req'[q].saves, Done' \cup {q}) /\ OneOutcome(Done' \cup {q})
  <2>1. Serial /\ session' = session
    BY <1>1, <1>2, <1>11 DEF Serial, serverVars
  <2>. HIDE DEF Requests
  <2>. QED BY <2>1, <1>1, <1>8 DEF LogInv
<1>. QED BY <1>5, <1>9, <1>10, <1>11 DEF LogInv

LEMMA LogStep == TypeInv /\ ClientInv /\ LogInv /\ [Next]_vars => LogInv'
<1>. SUFFICES ASSUME TypeInv, ClientInv, LogInv, [Next]_vars PROVE LogInv'
  OBVIOUS
<1>1. CASE \E r \in Requests : Serve(r)
  BY <1>1, ServeKeepsLog
<1>2. ASSUME UNCHANGED <<store, req, phase, gaveUps>>, session' \in {NoSession, session}
      PROVE  LogInv'
  <2>1. Done' = Done
    BY <1>2 DEF Done
  <2>2. Serial' <=> Serial
    BY <1>2 DEF Serial
  <2>3. RunsInOrder' /\ MemoryIsAtomic' /\ OutIsAwaited'
    BY <1>2 DEF LogInv, RunsInOrder, Over, MemoryIsAtomic, OutIsAwaited
  <2>. QED BY <1>2, <2>1, <2>2, <2>3 DEF LogInv
<1>3. CASE Expire
  BY <1>2, <1>3 DEF Expire, clientVars
<1>4. ASSUME NEW n \in Runs,
             Client(n) \/ ((Start(n) \/ GivesUp(n)) /\ UNCHANGED <<store, serverVars>>)
      PROVE  LogInv'
  <2>1. (Client(n) \/ Start(n) \/ GivesUp(n)) /\ UNCHANGED <<store, serverVars>>
    BY <1>4 DEF Client
  <2>. QED BY <2>1, ClientKeepsLog
<1>5. CASE UNCHANGED vars
  BY <1>2, <1>5 DEF vars, serverVars, clientVars
<1>. QED BY <1>1, <1>3, <1>4, <1>5 DEF Next

\* AckIsRecorded: as long as handlers of the session do not overlap, the log
\* agrees with every status the task pane was told, unless the call has been
\* cut off the full log.
THEOREM AcksAreRecorded == Spec => []AckIsRecorded
<1>1. TypeInv /\ ClientInv /\ LogInv => AckIsRecorded
  <2>. SUFFICES ASSUME TypeInv, ClientInv, LogInv, Serial, NEW n \in Runs,
                       ack[n] # "none", session # NoSession
                PROVE  IF find_call(session, n) = 0 THEN Len(session) = MaxLog
                       ELSE session[find_call(session, n)].status = ack[n]
    BY DEF AckIsRecorded
  <2>1. LogFits(session, Done) /\ session \in Seq(ToolCall) /\ DOMAIN session = 1 .. Len(session)
    BY LenProperties DEF TypeInv, LogOK, LogInv
  <2>2. PICK q \in Done : q.run = n /\ q.kind # "create" /\ Outcome(q.kind) = ack[n]
    BY DEF ClientInv, AcksAreAnswers, Request, Outcome
  <2>3. \/ \E i \in 1 .. Len(session) : session[i].id = n /\ session[i].status = ack[n]
        \/ Len(session) = MaxLog /\ \A i \in 1 .. Len(session) : session[i].id # n
    BY <2>1, <2>2 DEF LogFits
  <2>4. \/ find_call(session, n) = 0 /\ \A i \in 1 .. Len(session) : session[i].id # n
        \/ find_call(session, n) \in 1 .. Len(session) /\ session[find_call(session, n)].id = n
    BY <2>1, FindCall
  <2>5. \A i, j \in 1 .. Len(session) : session[i].id = session[j].id => i = j
    BY <2>1 DEF LogFits
  <2>6. 0 \notin 1 .. Len(session)
    OBVIOUS
  <2>. QED BY <2>3, <2>4, <2>5, <2>6
<1>. QED BY <1>1, TypeInit, TypeStep, ClientInit, ClientStep, LogInit, LogStep, PTL DEF Spec

\* ResolvedOnce: as long as handlers of the session do not overlap, no call has
\* two outcomes put on record.
THEOREM ResolvedAtMostOnce == Spec => []ResolvedOnce
<1>1. TypeInv /\ ClientInv /\ LogInv => ResolvedOnce
  <2>. SUFFICES ASSUME TypeInv, ClientInv, LogInv, Serial, NEW n \in Runs
                PROVE  Cardinality(recorded[n]) <= 1
    BY DEF ResolvedOnce
  <2>1. recorded[n] \subseteq {"completed", "failed"}
    BY DEF TypeInv
  <2>2. ~("completed" \in recorded[n] /\ "failed" \in recorded[n])
    BY DEF ClientInv, RecordExact, LogInv, OneOutcome
  <2>3. recorded[n] = {} \/ recorded[n] = {"completed"} \/ recorded[n] = {"failed"}
    BY <2>1, <2>2
  <2>. QED BY <2>3, FS_EmptySet, FS_Singleton
<1>. QED BY <1>1, TypeInit, TypeStep, ClientInit, ClientStep, LogInit, LogStep, PTL DEF Spec
=============================================================================
