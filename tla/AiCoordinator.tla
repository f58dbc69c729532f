---------------------------- MODULE AiCoordinator ----------------------------
(***************************************************************************)
(* The coordinator behind the =AI.* worksheet functions: class            *)
(* AiCoordinator of engine/src/aifn/batch.ts, with the handler the add-in   *)
(* gives it (callBackend and unwrapAiResult of functions.ts).               *)
(*                                                                         *)
(* Excel calls request() once per cell.  A call is answered from the       *)
(* cache, joins the promise of an identical question already in flight, is *)
(* refused by the budget, or is queued behind a debounce timer.  flush()   *)
(* is a coroutine: it sends a batch and awaits the handler, and meanwhile  *)
(* cells keep calling, the timer can start a second flush, and a new       *)
(* recalculation cycle can reset the budget.                               *)
(*                                                                         *)
(* Every code path between two awaits is one action.  A promise is named   *)
(* by the call that created it.                                            *)
(***************************************************************************)
EXTENDS Integers, Sequences, FiniteSets, Functions

CONSTANTS
  MaxCalls,      \* bound: cell invocations in a behaviour, numbered in order
  Questions,     \* the AiRequest contents (fn, inputs, prompt, model)
  Keys,          \* the values contentHash can take
  contentHash,   \* [Questions -> Keys]; FNV-1a, so it need not be injective
  BUDGET,        \* options.budget
  BatchSize,     \* options.batchSize
  MaxCycles,     \* bound: recalculation cycles in a behaviour
  NoCall,        \* "no promise" / "no entry"
  NoValue        \* undefined: not asked, not cached or not settled

Calls == 1 .. MaxCalls

\* What a cell can end up showing, besides an answer.
BudgetError == [kind |-> "#AI_BUDGET!"]
AiError == [kind |-> "#AI_ERROR!"]
NotAvailable == [kind |-> "#N/A"]
Rejected == [kind |-> "rejected"]
Answer(q) == [kind |-> "answer", of |-> q]

Answers == {Answer(q) : q \in Questions}
Values == Answers \cup {BudgetError, AiError, NotAvailable, Rejected}

ASSUME BoundsAssumption == /\ MaxCalls \in Nat
                           /\ MaxCycles \in Nat \ {0}
ASSUME OptionsAssumption == /\ BUDGET \in Nat
                            /\ BatchSize \in Nat \ {0}
ASSUME HashAssumption == contentHash \in [Questions -> Keys]
ASSUME SentinelAssumption == /\ NoCall \notin Calls
                             /\ NoValue \notin Values
                             /\ NoValue \notin Questions

VARIABLES
  question,         \* question[c]: what call c asked, NoValue before it is made
  promise,          \* promise[c]: the call whose promise call c awaits
  settled,          \* settled[c]: the value c's own promise resolved with
  cache,            \* this.cache
  inflight,         \* this.inflight
  queue,            \* this.queue
  timer,            \* this.timer # null
  flights,          \* batches some flush() is awaiting the handler for
  llmCalls,         \* this.counts.llmCalls
  budgetRejections, \* this.counts.budgetRejections
  budgetNotified,   \* this.budgetNotified
  cycle,            \* history: which recalculation cycle it is
  sentIn            \* history: the cycle in which a call was sent, 0 for never

counters == <<llmCalls, budgetRejections, budgetNotified>>
history == <<cycle, sentIn>>
vars == <<question, promise, settled, cache, inflight, queue, timer, flights,
          counters, history>>

Init ==
  /\ question = [c \in Calls |-> NoValue]
  /\ promise = [c \in Calls |-> NoCall]
  /\ settled = [c \in Calls |-> NoValue]
  /\ cache = [k \in Keys |-> NoValue]
  /\ inflight = [k \in Keys |-> NoCall]
  /\ queue = <<>>
  /\ timer = FALSE
  /\ flights = {}
  /\ llmCalls = 0
  /\ budgetRejections = 0
  /\ budgetNotified = FALSE
  /\ cycle = 1
  /\ sentIn = [c \in Calls |-> 0]

-----------------------------------------------------------------------------
(* request(): one call, up to its first await.                              *)

\* Call c is the next one Excel makes, with question q.
Arrives(c, q) ==
  /\ question[c] = NoValue
  /\ \A d \in Calls : d < c => question[d] # NoValue
  /\ question' = [question EXCEPT ![c] = q]

RequestFromCache(c, q) ==
  /\ Arrives(c, q)
  /\ cache[contentHash[q]] # NoValue
  /\ promise' = [promise EXCEPT ![c] = c]
  /\ settled' = [settled EXCEPT ![c] = cache[contentHash[q]]]
  /\ UNCHANGED <<cache, inflight, queue, timer, flights, counters, history>>

RequestShares(c, q) ==
  /\ Arrives(c, q)
  /\ cache[contentHash[q]] = NoValue
  /\ inflight[contentHash[q]] # NoCall
  /\ promise' = [promise EXCEPT ![c] = inflight[contentHash[q]]]
  /\ UNCHANGED <<settled, cache, inflight, queue, timer, flights, counters,
                 history>>

\* Mutant: the breaker also counts what is only queued.
RequestRefusedEarly(c, q) ==
  /\ Arrives(c, q)
  /\ cache[contentHash[q]] = NoValue
  /\ inflight[contentHash[q]] = NoCall
  /\ llmCalls + Len(queue) >= BUDGET
  /\ promise' = [promise EXCEPT ![c] = c]
  /\ settled' = [settled EXCEPT ![c] = BudgetError]
  /\ budgetRejections' = budgetRejections + 1
  /\ budgetNotified' = TRUE
  /\ UNCHANGED <<cache, inflight, queue, timer, flights, llmCalls, history>>

RequestRefused(c, q) ==
  /\ Arrives(c, q)
  /\ cache[contentHash[q]] = NoValue
  /\ inflight[contentHash[q]] = NoCall
  /\ llmCalls >= BUDGET
  /\ promise' = [promise EXCEPT ![c] = c]
  /\ settled' = [settled EXCEPT ![c] = BudgetError]
  /\ budgetRejections' = budgetRejections + 1
  /\ budgetNotified' = TRUE
  /\ UNCHANGED <<cache, inflight, queue, timer, flights, llmCalls, history>>

Enqueue(c, q) ==
  /\ inflight[contentHash[q]] = NoCall
  /\ llmCalls < BUDGET
  /\ promise' = [promise EXCEPT ![c] = c]
  /\ queue' = Append(queue, c)
  /\ inflight' = [inflight EXCEPT ![contentHash[q]] = c]
  /\ UNCHANGED <<settled, cache, flights, counters, history>>

\* Mutant: the cache is not looked up first.
RequestQueuedUncached(c, q) == Arrives(c, q) /\ Enqueue(c, q) /\ timer' = TRUE

\* Mutant: the timer is armed for the second queued call only.
RequestQueuedUnarmed(c, q) ==
  /\ Arrives(c, q)
  /\ cache[contentHash[q]] = NoValue
  /\ Enqueue(c, q)
  /\ timer' = (timer \/ queue # <<>>)

RequestQueued(c, q) ==
  /\ Arrives(c, q)
  /\ cache[contentHash[q]] = NoValue
  /\ Enqueue(c, q)
  /\ timer' = TRUE

-----------------------------------------------------------------------------
(* flush(): the loop, from where it (re)starts to its next await.           *)

Lesser(m, n) == IF m <= n THEN m ELSE n

\* Mutant: the budget is not checked again per batch.
SendCountUnchecked == Lesser(BatchSize, Len(queue))

\* How many queued calls the budget still lets the next batch send.
SendCount == Lesser(Lesser(BatchSize, Len(queue)), BUDGET - llmCalls)

\* With the budget spent the loop refuses batch after batch until the queue
\* is empty; otherwise it stops at the handler call of one batch.
Exhausted == BUDGET - llmCalls <= 0

\* Mutant: splice leaves the last call of the batch in the queue.
TakenOneShort == IF Exhausted THEN Len(queue) ELSE Lesser(BatchSize, Len(queue)) - 1

Taken == IF Exhausted THEN Len(queue) ELSE Lesser(BatchSize, Len(queue))
Sent == IF Exhausted THEN <<>> ELSE SubSeq(queue, 1, SendCount)

\* Mutant: the rest of the batch is taken to be all of it.
RefusedWholeBatch == {queue[i] : i \in 1 .. Taken}

Refused == {queue[i] : i \in (Len(Sent) + 1) .. Taken}

KeyOf(c) == contentHash[question[c]]

\* Mutant: a refused call stays in the inflight map.
FlushLoopKeepsRefused(outcome, others) ==
  /\ settled' = [c \in Calls |-> IF c \in DOMAIN outcome THEN outcome[c]
                                 ELSE IF c \in Refused THEN BudgetError
                                 ELSE settled[c]]
  /\ inflight' = [k \in Keys |-> IF \E c \in DOMAIN outcome : KeyOf(c) = k
                                 THEN NoCall ELSE inflight[k]]
  /\ queue' = SubSeq(queue, Taken + 1, Len(queue))
  /\ flights' = IF Sent = <<>> THEN others ELSE others \cup {Sent}
  /\ llmCalls' = llmCalls + Len(Sent)
  /\ budgetRejections' = budgetRejections + Cardinality(Refused)
  /\ budgetNotified' = (budgetNotified \/ Refused # {})
  /\ UNCHANGED <<question, promise, history>>

\* The loop body, after the calls of `outcome` (the batch the handler just
\* settled, if any) got their values; `others` are the batches still awaited.
FlushLoop(outcome, others) ==
  LET done == DOMAIN outcome \cup Refused
  IN  /\ settled' = [c \in Calls |-> IF c \in DOMAIN outcome THEN outcome[c]
                                     ELSE IF c \in Refused THEN BudgetError
                                     ELSE settled[c]]
      /\ inflight' = [k \in Keys |-> IF \E c \in done : KeyOf(c) = k
                                     THEN NoCall ELSE inflight[k]]
      /\ queue' = SubSeq(queue, Taken + 1, Len(queue))
      /\ flights' = IF Sent = <<>> THEN others ELSE others \cup {Sent}
      /\ llmCalls' = llmCalls + Len(Sent)
      /\ budgetRejections' = budgetRejections + Cardinality(Refused)
      /\ budgetNotified' = (budgetNotified \/ Refused # {})
      /\ sentIn' = [c \in Calls |-> IF c \in Range(Sent) THEN cycle
                                    ELSE sentIn[c]]
      /\ UNCHANGED <<question, promise, cycle>>

TimerFires ==
  /\ timer
  /\ timer' = FALSE
  /\ FlushLoop(<<>>, flights)
  /\ UNCHANGED cache

\* flush() is public: the eval harness and shutdown call it directly, and
\* leave the armed timer alone.
FlushNow ==
  /\ queue # <<>>
  /\ FlushLoop(<<>>, flights)
  /\ UNCHANGED <<cache, timer>>

\* Mutant: the envelope itself reaches the grid ("[object Object]").
unwrapAiResultRaw(ok, q) == [ok |-> ok, value |-> q]

\* unwrapAiResult: one server envelope becomes one scalar.
unwrapAiResult(ok, q) == IF ok THEN Answer(q) ELSE AiError

\* Mutant: results are taken in reverse order.
HandlerAnswersReversed(f, m, oks) ==
  LET value(i) == IF i <= m THEN unwrapAiResult(i \in oks, question[f[m + 1 - i]])
                  ELSE NotAvailable
      at(c) == CHOOSE i \in 1 .. Len(f) : f[i] = c
  IN  /\ FlushLoop([c \in Range(f) |-> value(at(c))], flights \ {f})
      /\ UNCHANGED <<cache, timer>>

\* The handler resolves with results for the first m requests of batch f
\* (m < Len(f) is a handler that fell short); oks says which envelopes are ok.
HandlerAnswers(f, m, oks) ==
  LET value(i) == IF i <= m THEN unwrapAiResult(i \in oks, question[f[i]])
                  ELSE NotAvailable
      at(c) == CHOOSE i \in 1 .. Len(f) : f[i] = c
      stored == {f[i] : i \in 1 .. m}
  IN  /\ cache' = [k \in Keys |->
                     IF \E c \in stored : KeyOf(c) = k
                     THEN value(at(CHOOSE c \in stored : KeyOf(c) = k))
                     ELSE cache[k]]
      /\ FlushLoop([c \in Range(f) |-> value(at(c))], flights \ {f})
      /\ UNCHANGED timer

\* Mutant: the error is swallowed and the promises are left pending.
HandlerFailsSilently(f) ==
  /\ FlushLoop(<<>>, flights \ {f})
  /\ UNCHANGED <<cache, timer>>

\* The handler throws (transport failure, or callBackend's length check): the
\* whole batch is rejected and nothing is cached.
HandlerFails(f) ==
  /\ FlushLoop([c \in Range(f) |-> Rejected], flights \ {f})
  /\ UNCHANGED <<cache, timer>>

HandlerSettles(f) ==
  \/ \E m \in 0 .. Len(f) : \E oks \in SUBSET (1 .. m) : HandlerAnswers(f, m, oks)
  \/ HandlerFails(f)

-----------------------------------------------------------------------------
startRecalcCycle ==
  /\ cycle < MaxCycles
  /\ cycle' = cycle + 1
  /\ llmCalls' = 0
  /\ budgetRejections' = 0
  /\ budgetNotified' = FALSE
  /\ UNCHANGED <<question, promise, settled, cache, inflight, queue, timer,
                 flights, sentIn>>

clearCache ==
  /\ cache' = [k \in Keys |-> NoValue]
  /\ UNCHANGED <<question, promise, settled, inflight, queue, timer, flights,
                 counters, history>>

Request(c, q) ==
  \/ RequestFromCache(c, q)
  \/ RequestShares(c, q)
  \/ RequestRefused(c, q)
  \/ RequestQueued(c, q)

Next ==
  \/ \E c \in Calls, q \in Questions : Request(c, q)
  \/ TimerFires
  \/ FlushNow
  \/ \E f \in flights : HandlerSettles(f)
  \/ startRecalcCycle
  \/ clearCache

\* The event loop runs a due timer, and the handler's promise settles: the
\* request either completes or fails.  Excel owes no call, cycle or flush.
Fairness ==
  /\ WF_vars(TimerFires)
  /\ \A c \in Calls : WF_vars(\E f \in flights : c \in Range(f) /\ HandlerSettles(f))

Spec == Init /\ [][Next]_vars /\ Fairness

-----------------------------------------------------------------------------
TypeOK ==
  /\ question \in [Calls -> Questions \cup {NoValue}]
  /\ promise \in [Calls -> Calls \cup {NoCall}]
  /\ settled \in [Calls -> Values \cup {NoValue}]
  /\ cache \in [Keys -> Values \cup {NoValue}]
  /\ inflight \in [Keys -> Calls \cup {NoCall}]
  /\ queue \in Seq(Calls)
  /\ timer \in BOOLEAN
  /\ flights \in SUBSET Seq(Calls)
  /\ llmCalls \in Nat
  /\ budgetRejections \in Nat
  /\ budgetNotified \in BOOLEAN
  /\ cycle \in 1 .. MaxCycles
  /\ sentIn \in [Calls -> 0 .. MaxCycles]

\* A promise that was created and not settled yet.
Pending(c) == promise[c] = c /\ settled[c] = NoValue

Queued(c) == \E i \in 1 .. Len(queue) : queue[i] = c
InFlight(c) == \E f \in flights : \E i \in 1 .. Len(f) : f[i] = c

\* The inflight map names exactly the unsettled promises, under their own
\* question's hash.  A stale entry would make every later cell with that
\* question await a promise nobody settles; a missing one would pay twice.
InflightExact ==
  \A k \in Keys, c \in Calls :
    (inflight[k] = c) <=> (Pending(c) /\ KeyOf(c) = k)

\* Every unsettled promise is owned by the queue or by one awaited batch, and
\* by one of them only, so no flush forgets it and no two flushes send it.
OneOwner ==
  /\ \A c \in Calls : Pending(c) <=> (Queued(c) \/ InFlight(c))
  /\ \A c \in Calls : ~(Queued(c) /\ InFlight(c))
  /\ \A i, j \in 1 .. Len(queue) : queue[i] = queue[j] => i = j
  /\ \A f, g \in flights : \A i \in 1 .. Len(f), j \in 1 .. Len(g) :
       f[i] = g[j] => f = g /\ i = j

\* A question being paid for is not in the cache: a cached answer is never
\* bought again.
NoRepurchase == \A c \in Calls : Pending(c) => cache[KeyOf(c)] = NoValue

\* INV-7: one recalculation cycle sends at most BUDGET requests to the model,
\* counted over what was really sent and whatever flushes overlapped.
BudgetPerCycle ==
  \A n \in 1 .. MaxCycles : Cardinality({c \in Calls : sentIn[c] = n}) <= BUDGET

\* The banner is up exactly when some cell of this cycle was refused.
BannerMatchesRefusals == budgetNotified <=> budgetRejections > 0

\* Work that is queued is always going to be flushed: by the armed timer, or
\* by a flush that is awaiting the handler and will loop.
QueueIsDriven == queue # <<>> => timer \/ flights # {}

\* A cell that shows an answer shows one to a question with its own hash, also
\* when it came from the cache or from another cell's promise.
OwnAnswer ==
  /\ \A c \in Calls : settled[c] \in Answers => contentHash[settled[c].of] = KeyOf(c)
  /\ \A c \in Calls : promise[c] # NoCall => KeyOf(promise[c]) = KeyOf(c)
  /\ \A k \in Keys : cache[k] \in Answers => contentHash[cache[k].of] = k

\* A cell is refused only in a cycle that has spent its whole budget, never
\* while an unspent call was left for it.
RefusedOnlyWhenSpent ==
  [][\A c \in Calls : settled'[c] = BudgetError /\ settled[c] # BudgetError
        => llmCalls' = BUDGET]_vars

\* What a cell shows, and what it may show: an answer to a question with the
\* same hash, or one of the errors.
Shown == [c \in Calls |-> IF promise[c] = NoCall THEN NoValue ELSE settled[promise[c]]]
Allowed == [q \in Questions |->
              {Answer(p) : p \in {r \in Questions : contentHash[r] = contentHash[q]}}
                \cup (Values \ Answers)]

Service == INSTANCE AnswerService WITH asked <- question, shows <- Shown

\* The coordinator is such a service: whatever is shared, cached, batched,
\* refused or in flight, no cell shows a wrong value or changes the one it shows.
ImplementsService == Service!Spec

\* Every cell Excel evaluated eventually shows something, although batches
\* fail, fall short, overlap and run out of budget.
Shows(c) == promise[c] # NoCall /\ settled[promise[c]] # NoValue
EveryCellSettles == <>[](\A c \in Calls : question[c] # NoValue => Shows(c))

\* "does not cache a failed request" (engine/test/aifn/batch.test.ts): an
\* error is not an answer, so the next recalculation asks again.
FailuresNotCached == \A k \in Keys : cache[k] # AiError
=============================================================================
