------------------------- MODULE AiCoordinatorProofs -------------------------
(***************************************************************************)
(* Proofs about AiCoordinator, for every number of calls, questions and     *)
(* hashes, every budget and every batch size: types, who owns a promise      *)
(* (Owners), what was spent (Spending), and that AiCoordinator implements    *)
(* AnswerService.  All but the last rest on how one step of flush() divides  *)
(* the queue into sent, refused and left.                                   *)
(***************************************************************************)
EXTENDS AiCoordinator, FiniteSetTheorems, SequenceTheorems, TLAPS

USE DEF Calls

\* The calls a loop step sends are the head of the queue, the calls it refuses
\* follow them, and what it leaves is the rest (flush, batch.ts).
LEMMA LoopShape ==
  ASSUME queue \in Seq(Calls), llmCalls \in Nat
  PROVE  /\ Taken \in 0 .. Len(queue)
         /\ Sent \in Seq(Calls)
         /\ Len(Sent) \in 0 .. Taken
         /\ \A i \in 1 .. Len(Sent) : Sent[i] = queue[i]
         /\ Len(Sent) > 0 => llmCalls + Len(Sent) <= BUDGET
         /\ SubSeq(queue, Taken + 1, Len(queue)) \in Seq(Calls)
         /\ Len(SubSeq(queue, Taken + 1, Len(queue))) = Len(queue) - Taken
         /\ \A i \in 1 .. Len(queue) - Taken :
              SubSeq(queue, Taken + 1, Len(queue))[i] = queue[Taken + i]
<1>. USE OptionsAssumption
<1>1. /\ Len(queue) \in Nat
      /\ Taken \in 0 .. Len(queue)
  BY LenProperties DEF Taken, Lesser
<1>2. \A i \in 1 .. Len(queue) : queue[i] \in Calls
  BY ElementOfSeq
<1>3. /\ Sent \in Seq(Calls)
      /\ Len(Sent) \in 0 .. Taken
      /\ \A i \in 1 .. Len(Sent) : Sent[i] = queue[i]
      /\ Len(Sent) > 0 => llmCalls + Len(Sent) <= BUDGET
  <2>1. CASE Exhausted
    BY <2>1, <1>1, EmptySeq DEF Sent
  <2>2. CASE ~Exhausted
    <3>1. /\ SendCount \in 0 .. Taken
          /\ SendCount <= BUDGET - llmCalls
      BY <2>2, <1>1 DEF SendCount, Taken, Lesser, Exhausted
    <3>2. \A i \in 1 .. SendCount : queue[i] \in Calls
      BY <3>1, <1>1, <1>2
    <3>3. /\ SubSeq(queue, 1, SendCount) \in Seq(Calls)
          /\ Len(SubSeq(queue, 1, SendCount)) = SendCount
          /\ \A i \in 1 .. SendCount : SubSeq(queue, 1, SendCount)[i] = queue[i]
      BY <3>1, <3>2, <1>1, SubSeqProperties, Z3
    <3>. QED BY <2>2, <3>1, <3>3, <1>1 DEF Sent
  <2>. QED BY <2>1, <2>2
<1>4. /\ SubSeq(queue, Taken + 1, Len(queue)) \in Seq(Calls)
      /\ Len(SubSeq(queue, Taken + 1, Len(queue))) = Len(queue) - Taken
      /\ \A i \in 1 .. Len(queue) - Taken :
           SubSeq(queue, Taken + 1, Len(queue))[i] = queue[Taken + i]
  <2>1. \A i \in Taken + 1 .. Len(queue) : queue[i] \in Calls
    BY <1>1, <1>2
  <2>. QED BY <2>1, <1>1, SubSeqProperties
<1>. QED BY <1>1, <1>3, <1>4

-----------------------------------------------------------------------------
(* Types.  TypeOK alone is not inductive: the handler's answer is about the  *)
(* question of a sent call, so sent and queued calls must have been asked.   *)

Asked ==
  /\ \A c \in Calls : promise[c] # NoCall => question[c] # NoValue
  /\ \A c \in Calls : Queued(c) \/ InFlight(c) => promise[c] = c

TypeInv == TypeOK /\ Asked

LEMMA RefusedFinite ==
  ASSUME queue \in Seq(Calls), llmCalls \in Nat
  PROVE  Refused \subseteq Calls /\ Cardinality(Refused) \in Nat
<1>1. Refused \subseteq Calls
  <2>1. /\ Taken \in 0 .. Len(queue)
        /\ Len(Sent) \in 0 .. Taken
        /\ Len(queue) \in Nat
    BY LoopShape, LenProperties
  <2>2. \A i \in (Len(Sent) + 1) .. Taken : i \in 1 .. Len(queue)
    BY <2>1
  <2>. QED BY <2>2, ElementOfSeq DEF Refused
<1>2. IsFiniteSet(Calls)
  BY BoundsAssumption, FS_Interval
<1>. QED BY <1>1, <1>2, FS_Subset, FS_CardinalityType

\* One step of the loop keeps the types, whatever values the batch it resumes
\* with got.
LEMMA FlushTypes ==
  ASSUME TypeInv, NEW outcome, NEW others \in SUBSET flights,
         DOMAIN outcome \subseteq Calls,
         \A c \in DOMAIN outcome : outcome[c] \in Values,
         FlushLoop(outcome, others)
  PROVE  /\ settled' \in [Calls -> Values \cup {NoValue}]
         /\ inflight' \in [Keys -> Calls \cup {NoCall}]
         /\ queue' \in Seq(Calls)
         /\ flights' \in SUBSET Seq(Calls)
         /\ llmCalls' \in Nat
         /\ budgetRejections' \in Nat
         /\ budgetNotified' \in BOOLEAN
         /\ sentIn' \in [Calls -> 0 .. MaxCycles]
         /\ UNCHANGED <<question, promise, cycle>>
         /\ Asked'
<1>. USE DEF TypeInv, TypeOK
<1>1. BudgetError \in Values
  BY DEF Values
<1>2. settled' \in [Calls -> Values \cup {NoValue}]
  BY <1>1 DEF FlushLoop
<1>3. inflight' \in [Keys -> Calls \cup {NoCall}]
  BY DEF FlushLoop
<1>4. /\ queue' \in Seq(Calls)
      /\ flights' \in SUBSET Seq(Calls)
  BY LoopShape DEF FlushLoop
<1>5. llmCalls' \in Nat
  BY LoopShape, LenProperties DEF FlushLoop
<1>6. /\ budgetRejections' \in Nat
      /\ budgetNotified' \in BOOLEAN
  BY RefusedFinite DEF FlushLoop
<1>7. sentIn' \in [Calls -> 0 .. MaxCycles]
  BY BoundsAssumption DEF FlushLoop
<1>8. Asked'
  <2>. DEFINE rest == SubSeq(queue, Taken + 1, Len(queue))
  <2>0. /\ Taken \in 0 .. Len(queue)
        /\ Len(queue) \in Nat
        /\ Len(rest) = Len(queue) - Taken
        /\ \A i \in 1 .. Len(queue) - Taken : rest[i] = queue[Taken + i]
        /\ queue' = rest
    BY LoopShape, LenProperties DEF FlushLoop
  <2>. HIDE DEF rest
  <2>1. \A c \in Calls : Queued(c)' => Queued(c)
    <3>1. \A i \in 1 .. Len(queue) - Taken : Taken + i \in 1 .. Len(queue)
      BY <2>0
    <3>2. ASSUME NEW c \in Calls, NEW i \in 1 .. Len(queue'), queue'[i] = c
          PROVE  Queued(c)
      BY <3>1, <3>2, <2>0 DEF Queued
    <3>. QED BY <3>2 DEF Queued
  <2>2. \A c \in Calls : InFlight(c)' => InFlight(c) \/ Queued(c)
    <3>1. flights' \subseteq flights \cup {Sent}
      BY DEF FlushLoop
    <3>2. \A i \in 1 .. Len(Sent) : i \in 1 .. Len(queue) /\ Sent[i] = queue[i]
      BY <2>0, LoopShape
    <3>3. ASSUME NEW c \in Calls, NEW f \in flights', NEW i \in 1 .. Len(f), f[i] = c
          PROVE  InFlight(c) \/ Queued(c)
      BY <3>1, <3>2, <3>3 DEF InFlight, Queued
    <3>. QED BY <3>3 DEF InFlight
  <2>. QED BY <2>1, <2>2 DEF Asked, FlushLoop
<1>. QED BY <1>2, <1>3, <1>4, <1>5, <1>6, <1>7, <1>8 DEF FlushLoop

\* The loop goes on after batch f with one value for each of its calls; an
\* answer among them is to the call's own question, and the cache only takes
\* what a call of the batch got, under that call's hash.
SettlesWith(f, outcome) ==
  /\ DOMAIN outcome = Range(f)
  /\ Range(f) \subseteq Calls
  /\ \A c \in Range(f) : /\ outcome[c] \in Values
                         /\ outcome[c] # BudgetError
                         /\ outcome[c] \in Answers => outcome[c] = Answer(question[c])
  /\ FlushLoop(outcome, flights \ {f})
  /\ timer' = timer
  /\ cache' \in [Keys -> Values \cup {NoValue}]
  /\ \A k \in Keys : \/ cache'[k] = cache[k]
                     \/ \E c \in Range(f) : KeyOf(c) = k /\ cache'[k] = outcome[c]

\* Whatever the handler does with a batch, it settles it so.
LEMMA HandlerOutcome ==
  ASSUME TypeInv, NEW f \in flights, HandlerSettles(f)
  PROVE  \E outcome : SettlesWith(f, outcome)
<1>. USE SentinelAssumption DEF TypeInv
<1>0. \A q \in Questions : /\ Answer(q) \in Values
                           /\ Answer(q) # BudgetError
                           /\ Answer(q) # AiError
                           /\ Answer(q) # NotAvailable
                           /\ Answer(q) # Rejected
  BY DEF Answer, Answers, Values, BudgetError, AiError, NotAvailable, Rejected
<1>1. /\ {AiError, NotAvailable, Rejected} \subseteq Values
      /\ BudgetError \notin {AiError, NotAvailable, Rejected}
      /\ \A v \in {AiError, NotAvailable, Rejected} : v \notin Answers
  BY <1>0 DEF Answers, Values, BudgetError, AiError, NotAvailable, Rejected
<1>2. /\ f \in Seq(Calls)
      /\ Range(f) = {f[i] : i \in 1 .. Len(f)}
      /\ Range(f) \subseteq Calls
  <2>1. f \in Seq(Calls)
    BY DEF TypeOK
  <2>2. /\ DOMAIN f = 1 .. Len(f)
        /\ \A i \in 1 .. Len(f) : f[i] \in Calls
    BY <2>1, LenProperties, ElementOfSeq
  <2>. QED BY <2>1, <2>2 DEF Range
<1>3. \A c \in Range(f) : question[c] \in Questions
  <2>1. \A c \in Range(f) : c \in Calls /\ InFlight(c)
    BY <1>2 DEF InFlight
  <2>2. \A c \in Range(f) : promise[c] # NoCall
    BY <2>1 DEF Asked
  <2>. QED BY <2>1, <2>2 DEF Asked, TypeOK
<1>4. ASSUME NEW m \in 0 .. Len(f), NEW oks \in SUBSET (1 .. m),
             HandlerAnswers(f, m, oks)
      PROVE  \E outcome : SettlesWith(f, outcome)
  <2>. DEFINE value(i) == IF i <= m THEN unwrapAiResult(i \in oks, question[f[i]])
                          ELSE NotAvailable
              at(c) == CHOOSE i \in 1 .. Len(f) : f[i] = c
              stored == {f[i] : i \in 1 .. m}
              outcome == [c \in Range(f) |-> value(at(c))]
  <2>1. \A c \in Range(f) : at(c) \in 1 .. Len(f) /\ f[at(c)] = c
    BY <1>2
  <2>2. \A i : value(i) \in {Answer(question[f[i]]), AiError, NotAvailable}
    BY DEF unwrapAiResult
  <2>3. stored \subseteq Range(f)
    BY <1>2, LenProperties
  <2>4. /\ cache' = [k \in Keys |->
                       IF \E c \in stored : KeyOf(c) = k
                       THEN value(at(CHOOSE c \in stored : KeyOf(c) = k))
                       ELSE cache[k]]
        /\ FlushLoop([c \in Range(f) |-> value(at(c))], flights \ {f})
        /\ timer' = timer
    BY <1>4 DEF HandlerAnswers
  <2>. HIDE DEF value, at, stored
  <2>5. \A c \in Range(f) : outcome[c] \in {Answer(question[c]), AiError, NotAvailable}
    BY <2>1, <2>2
  <2>6. \A c \in Range(f) : /\ outcome[c] \in Values
                            /\ outcome[c] # BudgetError
                            /\ outcome[c] \in Answers => outcome[c] = Answer(question[c])
    BY <2>5, <1>0, <1>1, <1>3
  <2>7. \A k \in Keys : \/ cache'[k] = cache[k]
                         \/ \E c \in Range(f) : /\ KeyOf(c) = k
                                                 /\ cache'[k] = outcome[c]
    <3>1. ASSUME NEW k \in Keys, \E c \in stored : KeyOf(c) = k
          PROVE  \E c \in Range(f) : KeyOf(c) = k /\ cache'[k] = outcome[c]
      <4>. DEFINE c0 == CHOOSE c \in stored : KeyOf(c) = k
      <4>1. c0 \in stored /\ KeyOf(c0) = k
        BY <3>1
      <4>2. cache'[k] = value(at(c0))
        BY <2>4, <3>1
      <4>. HIDE DEF c0
      <4>. QED BY <4>1, <4>2, <2>3
    <3>. QED BY <2>4, <3>1
  <2>8. cache' \in [Keys -> Values \cup {NoValue}]
    <3>1. /\ DOMAIN cache' = Keys
          /\ cache' = [k \in Keys |-> cache'[k]]
      BY <2>4
    <3>2. \A k \in Keys : cache'[k] \in Values \cup {NoValue}
      BY <2>6, <2>7 DEF TypeOK
    <3>. QED BY <3>1, <3>2
  <2>9. DOMAIN outcome = Range(f)
    OBVIOUS
  <2>10. FlushLoop(outcome, flights \ {f})
    BY <2>4
  <2>. HIDE DEF outcome
  <2>11. SettlesWith(f, outcome)
    BY <1>2, <2>4, <2>6, <2>7, <2>8, <2>9, <2>10 DEF SettlesWith
  <2>. QED BY <2>11
<1>5. CASE HandlerFails(f)
  <2>. DEFINE outcome == [c \in Range(f) |-> Rejected]
  <2>1. /\ FlushLoop(outcome, flights \ {f})
        /\ UNCHANGED <<cache, timer>>
    BY <1>5 DEF HandlerFails
  <2>2. /\ DOMAIN outcome = Range(f)
        /\ \A c \in Range(f) : outcome[c] = Rejected
    OBVIOUS
  <2>. HIDE DEF outcome
  <2>3. cache' \in [Keys -> Values \cup {NoValue}]
    BY <2>1 DEF TypeOK
  <2>4. SettlesWith(f, outcome)
    BY <1>1, <1>2, <2>1, <2>2, <2>3 DEF SettlesWith
  <2>. QED BY <2>4
<1>. QED BY <1>4, <1>5 DEF HandlerSettles

\* Every action keeps the type invariant.
LEMMA TypeStep == TypeInv /\ [Next]_vars => TypeInv'
<1>. SUFFICES ASSUME TypeInv, [Next]_vars PROVE TypeInv'
  OBVIOUS
<1>. USE DEF TypeInv
<1>0. DOMAIN <<>> = {}
  OBVIOUS
<1>1. ASSUME NEW c \in Calls, NEW q \in Questions, Request(c, q) PROVE TypeInv'
  <2>. USE <1>1, HashAssumption, SentinelAssumption
       DEF TypeOK, Arrives, counters, history
  <2>1. CASE RequestFromCache(c, q)
    BY <2>1 DEF RequestFromCache, Asked, Queued, InFlight
  <2>2. CASE RequestShares(c, q)
    <3>1. promise[c] = NoCall
      BY DEF Asked, Request, RequestFromCache, RequestShares, RequestRefused, RequestQueued
    <3>2. TypeOK'
      BY <2>2 DEF RequestShares
    <3>3. Asked'
      BY <2>2, <3>1 DEF RequestShares, Asked, Queued, InFlight
    <3>. QED BY <3>2, <3>3
  <2>3. CASE RequestRefused(c, q)
    BY <2>3 DEF RequestRefused, Asked, Queued, InFlight, Values
  <2>4. CASE RequestQueued(c, q)
    <3>1. TypeOK'
      BY <2>4, AppendProperties DEF RequestQueued, Enqueue
    <3>2. \A d \in Calls : Queued(d)' => d = c \/ Queued(d)
      BY <2>4, AppendProperties, LenProperties DEF RequestQueued, Enqueue, Queued
    <3>3. Asked'
      BY <2>4, <3>2 DEF RequestQueued, Enqueue, Asked, InFlight
    <3>. QED BY <3>1, <3>3
  <2>. QED BY <2>1, <2>2, <2>3, <2>4 DEF Request
<1>2. CASE TimerFires
  <2>1. FlushLoop(<<>>, flights)
    BY <1>2 DEF TimerFires
  <2>. QED BY <1>2, <2>1, <1>0, FlushTypes DEF TimerFires, TypeOK
<1>3. CASE FlushNow
  BY <1>3, FlushTypes DEF FlushNow, TypeOK
<1>4. ASSUME NEW f \in flights, HandlerSettles(f) PROVE TypeInv'
  <2>1. PICK outcome : SettlesWith(f, outcome)
    BY <1>4, HandlerOutcome
  <2>2. /\ DOMAIN outcome = Range(f)
        /\ Range(f) \subseteq Calls
        /\ \A c \in Range(f) : outcome[c] \in Values
        /\ timer' = timer
        /\ cache' \in [Keys -> Values \cup {NoValue}]
    BY <2>1, Zenon DEF SettlesWith
  <2>3. FlushLoop(outcome, flights \ {f})
    BY <2>1, Zenon DEF SettlesWith
  <2>4. flights \ {f} \in SUBSET flights
    OBVIOUS
  <2>. QED BY <2>2, <2>3, <2>4, FlushTypes DEF TypeOK
<1>5. CASE startRecalcCycle
  <2>1. TypeOK'
    <3>1. budgetNotified' \in BOOLEAN
      BY <1>5 DEF startRecalcCycle
    <3>2. cycle' \in 1 .. MaxCycles /\ llmCalls' \in Nat /\ budgetRejections' \in Nat
      BY <1>5, BoundsAssumption DEF startRecalcCycle, TypeOK
    <3>. QED BY <1>5, <3>1, <3>2 DEF startRecalcCycle, TypeOK
  <2>2. Asked'
    BY <1>5 DEF startRecalcCycle, Asked, Queued, InFlight
  <2>. QED BY <2>1, <2>2
<1>6. CASE clearCache
  BY <1>6 DEF clearCache, TypeOK, Asked, Queued, InFlight, counters, history
<1>7. CASE UNCHANGED vars
  BY <1>7 DEF vars, TypeOK, Asked, Queued, InFlight, counters, history
<1>. QED BY <1>1, <1>2, <1>3, <1>4, <1>5, <1>6, <1>7 DEF Next

LEMMA TypeInit == Init => TypeInv
<1>1. Init => TypeOK
  <2>1. Init => timer \in BOOLEAN /\ budgetNotified \in BOOLEAN
    BY DEF Init
  <2>2. Init => queue \in Seq(Calls) /\ cycle \in 1 .. MaxCycles
    BY BoundsAssumption, EmptySeq DEF Init
  <2>. QED BY <2>1, <2>2, BoundsAssumption DEF Init, TypeOK
<1>2. Init => ~\E c \in Calls : Queued(c) \/ InFlight(c)
  BY EmptySeq DEF Init, Queued, InFlight
<1>. QED BY <1>1, <1>2 DEF Init, TypeInv, Asked

\* Type correctness of the coordinator, for every budget, batch size and hash:
\* every promise of a cell and every entry of inflight names a real call.
THEOREM TypeCorrect == Spec => []TypeOK
<1>1. TypeInv => TypeOK
  BY DEF TypeInv
<1>. QED BY <1>1, TypeInit, TypeStep, PTL DEF Spec

HIDE DEF Calls

-----------------------------------------------------------------------------
(* Who owns a promise.                                                       *)

\* A promise that settled was created by its own call.
SettledAreMade == \A c \in Calls : settled[c] # NoValue => promise[c] = c

\* A cell awaits its own promise or one that the call it joined had created.
SharedAreMade == \A c \in Calls : promise[c] # NoCall => promise[promise[c]] = promise[c]

Owners == TypeInv /\ SettledAreMade /\ SharedAreMade /\ InflightExact /\ OneOwner

\* One loop step divides the queued calls: the ones it sends, the ones it
\* refuses and the ones it leaves have nothing in common.
LEMMA QueueSplit ==
  ASSUME TypeInv, OneOwner
  PROVE  /\ \A c \in Calls : Queued(c) <=> \/ \E i \in 1 .. Len(Sent) : Sent[i] = c
                                           \/ c \in Refused
                                           \/ \E i \in Taken + 1 .. Len(queue) : queue[i] = c
         /\ \A c \in Calls : ~(c \in Refused /\ \E i \in 1 .. Len(Sent) : Sent[i] = c)
         /\ \A c \in Calls : ~(c \in Refused /\ \E i \in Taken + 1 .. Len(queue) : queue[i] = c)
         /\ \A c \in Calls : ~(/\ \E i \in 1 .. Len(Sent) : Sent[i] = c
                               /\ \E i \in Taken + 1 .. Len(queue) : queue[i] = c)
         /\ \A i, j \in 1 .. Len(Sent) : Sent[i] = Sent[j] => i = j
<1>1. /\ Len(queue) \in Nat
      /\ Taken \in 0 .. Len(queue)
      /\ Len(Sent) \in 0 .. Taken
      /\ \A i \in 1 .. Len(Sent) : Sent[i] = queue[i]
  BY LoopShape, LenProperties DEF TypeInv, TypeOK
<1>2. \A i, j \in 1 .. Len(queue) : queue[i] = queue[j] => i = j
  BY DEF OneOwner
<1>3. \A c : c \in Refused <=> \E i \in (Len(Sent) + 1) .. Taken : queue[i] = c
  BY DEF Refused
<1>4. \A i \in 1 .. Len(Sent) : i \in 1 .. Len(queue)
  BY <1>1
<1>5. \A i \in (Len(Sent) + 1) .. Taken : i \in 1 .. Len(queue)
  BY <1>1
<1>6. \A i \in Taken + 1 .. Len(queue) : i \in 1 .. Len(queue)
  BY <1>1
<1>7. \A i \in 1 .. Len(queue) : \/ i \in 1 .. Len(Sent)
                                 \/ i \in (Len(Sent) + 1) .. Taken
                                 \/ i \in Taken + 1 .. Len(queue)
  BY <1>1
<1>8. \A i \in 1 .. Len(Sent), j \in (Len(Sent) + 1) .. Taken : i # j
  BY <1>1
<1>9. \A i \in 1 .. Len(Sent), j \in Taken + 1 .. Len(queue) : i # j
  BY <1>1
<1>10. \A i \in (Len(Sent) + 1) .. Taken, j \in Taken + 1 .. Len(queue) : i # j
  BY <1>1
<1>. HIDE DEF Calls
<1>11. \A c \in Calls : Queued(c) <=> \/ \E i \in 1 .. Len(Sent) : Sent[i] = c
                                      \/ c \in Refused
                                      \/ \E i \in Taken + 1 .. Len(queue) : queue[i] = c
  BY <1>1, <1>3, <1>4, <1>5, <1>6, <1>7, Zenon DEF Queued
<1>12. \A c \in Calls : ~(c \in Refused /\ \E i \in 1 .. Len(Sent) : Sent[i] = c)
  BY <1>1, <1>2, <1>3, <1>4, <1>5, <1>8, Zenon
<1>13. \A c \in Calls : ~(c \in Refused /\ \E i \in Taken + 1 .. Len(queue) : queue[i] = c)
  BY <1>2, <1>3, <1>5, <1>6, <1>10, Zenon
<1>14. \A c \in Calls : ~(/\ \E i \in 1 .. Len(Sent) : Sent[i] = c
                          /\ \E i \in Taken + 1 .. Len(queue) : queue[i] = c)
  BY <1>1, <1>2, <1>4, <1>6, <1>9, Zenon
<1>15. \A i, j \in 1 .. Len(Sent) : Sent[i] = Sent[j] => i = j
  BY <1>1, <1>2, <1>4, Zenon
<1>. QED BY <1>11, <1>12, <1>13, <1>14, <1>15

\* What a loop step that settles the calls of D makes of the owners; the
\* batches still awaited hold the calls in flight that are not in D.
LEMMA FlushOwners ==
  ASSUME Owners, NEW outcome, NEW others \in SUBSET flights,
         DOMAIN outcome \subseteq Calls,
         \A c \in DOMAIN outcome : outcome[c] \in Values,
         \A c \in DOMAIN outcome : InFlight(c),
         \A c \in Calls : (\E g \in others : \E i \in 1 .. Len(g) : g[i] = c)
                            <=> InFlight(c) /\ c \notin DOMAIN outcome,
         FlushLoop(outcome, others)
  PROVE  /\ \A c \in Calls : Pending(c)' <=> Pending(c) /\ c \notin DOMAIN outcome
                                                         /\ c \notin Refused
         /\ \A c \in Calls : settled'[c] # NoValue => promise'[c] = c
         /\ InflightExact'
         /\ OneOwner'
<1>. USE SentinelAssumption
<1>. DEFINE D == DOMAIN outcome
            sent(c) == \E i \in 1 .. Len(Sent) : Sent[i] = c
            left(c) == \E i \in Taken + 1 .. Len(queue) : queue[i] = c
<1>1. /\ Refused \subseteq Calls
      /\ \A c \in Refused : Queued(c)
  BY RefusedFinite, QueueSplit DEF Owners, TypeInv, TypeOK
<1>2. \A c \in D \cup Refused : Pending(c)
  BY <1>1 DEF Owners, OneOwner
<1>3. \A c \in Calls : settled'[c] = IF c \in D THEN outcome[c]
                                     ELSE IF c \in Refused THEN BudgetError
                                     ELSE settled[c]
  BY DEF FlushLoop
<1>4. promise' = promise /\ question' = question
  BY DEF FlushLoop
<1>5. \A c \in Calls : Pending(c)' <=> Pending(c) /\ c \notin D /\ c \notin Refused
  BY <1>2, <1>3, <1>4 DEF Pending, Values
<1>6. \A c \in Calls : settled'[c] # NoValue => promise'[c] = c
  BY <1>2, <1>3, <1>4 DEF Pending, Owners, SettledAreMade
<1>7. InflightExact'
  <2>1. \A k \in Keys : inflight'[k] = IF \E d \in D \cup Refused : KeyOf(d) = k
                                       THEN NoCall ELSE inflight[k]
    BY DEF FlushLoop
  <2>2. \A c \in Calls : KeyOf(c)' = KeyOf(c)
    BY <1>4 DEF KeyOf
  <2>3. ASSUME NEW k \in Keys, NEW c \in Calls
        PROVE  (inflight'[k] = c) <=> (Pending(c)' /\ KeyOf(c)' = k)
    <3>1. NoCall # c
      OBVIOUS
    <3>2. \A d \in Calls : (inflight[k] = d) <=> (Pending(d) /\ KeyOf(d) = k)
      BY DEF Owners, InflightExact
    <3>3. D \cup Refused \subseteq Calls
      BY <1>1
    <3>. HIDE DEF Calls
    <3>4. CASE \E d \in D \cup Refused : KeyOf(d) = k
      <4>1. inflight'[k] # c
        BY <3>4, <2>1, <3>1
      <4>2. ~(Pending(c)' /\ KeyOf(c)' = k)
        BY <3>4, <3>2, <3>3, <1>2, <1>5, <2>2
      <4>. QED BY <4>1, <4>2
    <3>5. CASE ~\E d \in D \cup Refused : KeyOf(d) = k
      BY <3>5, <2>1, <3>2, <1>5, <2>2
    <3>. QED BY <3>4, <3>5
  <2>. QED BY <2>3 DEF InflightExact
<1>8. /\ \A c \in Calls : Queued(c)' <=> left(c)
      /\ \A i, j \in 1 .. Len(queue') : queue'[i] = queue'[j] => i = j
  <2>. DEFINE rest == SubSeq(queue, Taken + 1, Len(queue))
  <2>1. /\ queue' = rest
        /\ Len(queue) \in Nat
        /\ Taken \in 0 .. Len(queue)
        /\ Len(rest) = Len(queue) - Taken
        /\ \A i \in 1 .. Len(queue) - Taken : rest[i] = queue[Taken + i]
    BY LoopShape, LenProperties DEF FlushLoop, Owners, TypeInv, TypeOK
  <2>. HIDE DEF rest
  <2>2. \A i \in 1 .. Len(queue) - Taken : Taken + i \in Taken + 1 .. Len(queue)
    BY <2>1
  <2>3. \A j \in Taken + 1 .. Len(queue) : /\ j - Taken \in 1 .. Len(queue) - Taken
                                           /\ Taken + (j - Taken) = j
    BY <2>1
  <2>4. \A c \in Calls : Queued(c)' <=> left(c)
    <3>1. ASSUME NEW c \in Calls, NEW i \in 1 .. Len(queue'), queue'[i] = c PROVE left(c)
      BY <3>1, <2>1, <2>2
    <3>2. ASSUME NEW c \in Calls, NEW j \in Taken + 1 .. Len(queue), queue[j] = c
          PROVE  Queued(c)'
      BY <3>2, <2>1, <2>3 DEF Queued
    <3>. QED BY <3>1, <3>2 DEF Queued
  <2>5. ASSUME NEW i \in 1 .. Len(queue'), NEW j \in 1 .. Len(queue'),
               queue'[i] = queue'[j]
        PROVE  i = j
    <3>1. /\ Taken + i \in 1 .. Len(queue)
          /\ Taken + j \in 1 .. Len(queue)
          /\ queue[Taken + i] = queue[Taken + j]
      BY <2>1, <2>5
    <3>2. Taken + i = Taken + j
      BY <3>1 DEF Owners, OneOwner
    <3>. QED BY <3>2, <2>1
  <2>. QED BY <2>4, <2>5
<1>9. \A c \in Calls : InFlight(c)' <=> (InFlight(c) /\ c \notin D) \/ sent(c)
  <2>1. flights' = IF Sent = <<>> THEN others ELSE others \cup {Sent}
    BY DEF FlushLoop
  <2>2. Sent = <<>> => \A c : ~sent(c)
    BY EmptySeq
  <2>. QED BY <2>1, <2>2 DEF InFlight
<1>10. OneOwner'
  <2>0. \A c \in Calls : /\ Pending(c) <=> Queued(c) \/ InFlight(c)
                         /\ ~(Queued(c) /\ InFlight(c))
    BY DEF Owners, OneOwner
  <2>. DEFINE refused(c) == c \in Refused
              settles(c) == c \in D
  <2>1. \A c \in Calls : /\ Queued(c) <=> sent(c) \/ refused(c) \/ left(c)
                         /\ ~(refused(c) /\ sent(c))
                         /\ ~(refused(c) /\ left(c))
                         /\ ~(sent(c) /\ left(c))
    BY QueueSplit DEF Owners
  <2>2. \A c \in Calls : settles(c) => InFlight(c)
    OBVIOUS
  <2>3. \A c \in Calls : /\ Pending(c)' <=> Pending(c) /\ ~settles(c) /\ ~refused(c)
                         /\ Queued(c)' <=> left(c)
                         /\ InFlight(c)' <=> (InFlight(c) /\ ~settles(c)) \/ sent(c)
    BY <1>5, <1>8, <1>9
  <2>. HIDE DEF sent, left, refused, settles, D, Calls
  <2>4. \A c \in Calls : /\ Pending(c)' <=> (Queued(c)' \/ InFlight(c)')
                         /\ ~(Queued(c)' /\ InFlight(c)')
    BY <2>0, <2>1, <2>2, <2>3, Zenon
  <2>5. \A f, g \in flights' : \A i \in 1 .. Len(f), j \in 1 .. Len(g) :
          f[i] = g[j] => f = g /\ i = j
    <3>1. flights' \subseteq others \cup {Sent}
      BY DEF FlushLoop
    <3>2. \A f, g \in others : \A i \in 1 .. Len(f), j \in 1 .. Len(g) :
            f[i] = g[j] => f = g /\ i = j
      BY DEF Owners, OneOwner
    <3>3. \A i, j \in 1 .. Len(Sent) : Sent[i] = Sent[j] => i = j
      BY QueueSplit DEF Owners
    <3>4. ASSUME NEW g \in others, NEW i \in 1 .. Len(Sent), NEW j \in 1 .. Len(g),
                 Sent[i] = g[j]
          PROVE  FALSE
      <4>1. Sent[i] \in Calls
        BY LoopShape, ElementOfSeq, LenProperties DEF Owners, TypeInv, TypeOK
      <4>2. sent(Sent[i]) /\ InFlight(Sent[i])
        BY <3>4 DEF sent, InFlight
      <4>. QED BY <4>1, <4>2, <2>0, <2>1
    <3>. QED BY <3>1, <3>2, <3>3, <3>4
  <2>6. \A i, j \in 1 .. Len(queue') : queue'[i] = queue'[j] => i = j
    BY <1>8
  <2>. QED BY <2>4, <2>5, <2>6 DEF OneOwner
<1>. QED BY <1>5, <1>6, <1>7, <1>10

\* A batch the handler settles holds calls in flight; the other batches hold
\* the other calls in flight.
LEMMA BatchOwners ==
  ASSUME Owners, NEW f \in flights
  PROVE  /\ Range(f) = {f[i] : i \in 1 .. Len(f)}
         /\ Range(f) \subseteq Calls
         /\ \A c \in Range(f) : InFlight(c)
         /\ \A c \in Calls : (\E g \in flights \ {f} : \E i \in 1 .. Len(g) : g[i] = c)
                               <=> InFlight(c) /\ c \notin Range(f)
<1>1. f \in Seq(Calls)
  BY DEF Owners, TypeInv, TypeOK
<1>2. /\ DOMAIN f = 1 .. Len(f)
      /\ \A i \in 1 .. Len(f) : f[i] \in Calls
  BY <1>1, LenProperties, ElementOfSeq
<1>. HIDE DEF Calls
<1>3. Range(f) = {f[i] : i \in 1 .. Len(f)}
  BY <1>2 DEF Range
<1>4. \A g \in flights : \A i \in 1 .. Len(g), j \in 1 .. Len(f) : g[i] = f[j] => g = f
  BY DEF Owners, OneOwner
<1>. QED BY <1>2, <1>3, <1>4 DEF InFlight

\* So what FlushOwners says holds of every batch the handler settles.
LEMMA SettlesOwners ==
  ASSUME Owners, NEW f \in flights, NEW outcome, SettlesWith(f, outcome)
  PROVE  /\ Refused \subseteq Calls
         /\ \A c \in Calls : Pending(c)' <=> Pending(c) /\ c \notin Range(f)
                                                         /\ c \notin Refused
         /\ \A c \in Calls : settled'[c] # NoValue => promise'[c] = c
         /\ InflightExact'
         /\ OneOwner'
<1>1. /\ DOMAIN outcome = Range(f)
      /\ Range(f) \subseteq Calls
      /\ \A c \in Range(f) : outcome[c] \in Values
  BY Zenon DEF SettlesWith
<1>2. FlushLoop(outcome, flights \ {f})
  BY Zenon DEF SettlesWith
<1>3. /\ \A c \in DOMAIN outcome : InFlight(c)
      /\ \A c \in Calls : (\E g \in flights \ {f} : \E i \in 1 .. Len(g) : g[i] = c)
                            <=> InFlight(c) /\ c \notin DOMAIN outcome
  BY <1>1, BatchOwners
<1>4. flights \ {f} \in SUBSET flights
  OBVIOUS
<1>5. Refused \subseteq Calls
  BY RefusedFinite DEF Owners, TypeInv, TypeOK
<1>. QED BY <1>1, <1>2, <1>3, <1>4, <1>5, FlushOwners

\* No step takes a promise from its owner, gives it two, or leaves inflight
\* naming a settled one.
LEMMA OwnersStep == Owners /\ [Next]_vars => Owners'
<1>. SUFFICES ASSUME Owners, [Next]_vars PROVE Owners'
  OBVIOUS
<1>. USE SentinelAssumption
<1>0. TypeInv'
  BY TypeStep DEF Owners
<1>1. ASSUME NEW c \in Calls, NEW q \in Questions, Request(c, q) PROVE Owners'
  <2>1. /\ question[c] = NoValue
        /\ question' = [question EXCEPT ![c] = q]
        /\ flights' = flights
    BY <1>1 DEF Request, RequestFromCache, RequestShares, RequestRefused,
                RequestQueued, Enqueue, Arrives
  <2>2. /\ promise[c] = NoCall
        /\ settled[c] = NoValue
    BY <2>1 DEF Owners, TypeInv, Asked, SettledAreMade
  <2>3. \A d \in Calls : promise[d] # c
    BY <2>2 DEF Owners, SharedAreMade
  <2>4. /\ ~Pending(c)
        /\ ~Queued(c)
        /\ ~InFlight(c)
        /\ \A k \in Keys : inflight[k] # c
    BY <2>2 DEF Pending, Owners, OneOwner, InflightExact
  <2>5. /\ KeyOf(c)' = contentHash[q]
        /\ \A d \in Calls \ {c} : KeyOf(d)' = KeyOf(d)
        /\ contentHash[q] \in Keys
    BY <2>1, HashAssumption DEF KeyOf, Owners, TypeInv, TypeOK
  <2>6. CASE \/ RequestFromCache(c, q) \/ RequestRefused(c, q)
    <3>1. /\ promise' = [promise EXCEPT ![c] = c]
          /\ \E v \in Values : settled' = [settled EXCEPT ![c] = v]
          /\ UNCHANGED <<inflight, queue>>
      <4>1. /\ BudgetError \in Values
            /\ cache[contentHash[q]] # NoValue => cache[contentHash[q]] \in Values
        BY <2>5 DEF Values, Owners, TypeInv, TypeOK
      <4>. QED BY <2>6, <4>1 DEF RequestFromCache, RequestRefused
    <3>2. \A d \in Calls : Pending(d)' <=> Pending(d)
      BY <2>4, <3>1 DEF Pending, Owners, TypeInv, TypeOK
    <3>3. SettledAreMade' /\ SharedAreMade'
      BY <2>2, <2>3, <3>1 DEF SettledAreMade, SharedAreMade, Owners, TypeInv, TypeOK
    <3>4. InflightExact'
      BY <2>4, <2>5, <3>1, <3>2 DEF InflightExact, Owners
    <3>5. OneOwner'
      BY <2>1, <3>1, <3>2 DEF OneOwner, Owners, Queued, InFlight
    <3>. QED BY <1>0, <3>3, <3>4, <3>5 DEF Owners
  <2>7. CASE RequestShares(c, q)
    <3>1. /\ inflight[contentHash[q]] # NoCall
          /\ promise' = [promise EXCEPT ![c] = inflight[contentHash[q]]]
          /\ UNCHANGED <<settled, inflight, queue>>
      BY <2>7 DEF RequestShares
    <3>. DEFINE owner == inflight[contentHash[q]]
    <3>2. /\ owner \in Calls
          /\ Pending(owner)
          /\ owner # c
      BY <2>4, <2>5, <3>1 DEF Owners, TypeInv, TypeOK, InflightExact
    <3>3. \A d \in Calls : Pending(d)' <=> Pending(d)
      BY <2>4, <3>1, <3>2 DEF Pending, Owners, TypeInv, TypeOK
    <3>4. SettledAreMade' /\ SharedAreMade'
      BY <2>2, <2>3, <3>1, <3>2
         DEF SettledAreMade, SharedAreMade, Owners, TypeInv, TypeOK, Pending
    <3>5. InflightExact'
      BY <2>4, <2>5, <3>1, <3>3 DEF InflightExact, Owners
    <3>6. OneOwner'
      BY <2>1, <3>1, <3>3 DEF OneOwner, Owners, Queued, InFlight
    <3>. QED BY <1>0, <3>4, <3>5, <3>6 DEF Owners
  <2>8. CASE RequestQueued(c, q)
    <3>1. /\ inflight[contentHash[q]] = NoCall
          /\ promise' = [promise EXCEPT ![c] = c]
          /\ queue' = Append(queue, c)
          /\ inflight' = [inflight EXCEPT ![contentHash[q]] = c]
          /\ UNCHANGED settled
      BY <2>8 DEF RequestQueued, Enqueue
    <3>2. \A d \in Calls : Pending(d)' <=> Pending(d) \/ d = c
      BY <2>2, <3>1 DEF Pending, Owners, TypeInv, TypeOK
    <3>3. SettledAreMade' /\ SharedAreMade'
      BY <2>2, <2>3, <3>1 DEF SettledAreMade, SharedAreMade, Owners, TypeInv, TypeOK
    <3>4. InflightExact'
      <4>1. ASSUME NEW k \in Keys, NEW d \in Calls
            PROVE  (inflight'[k] = d) <=> (Pending(d)' /\ KeyOf(d)' = k)
        <5>1. (inflight[k] = d) <=> (Pending(d) /\ KeyOf(d) = k)
          BY DEF Owners, InflightExact
        <5>2. inflight'[k] = IF k = contentHash[q] THEN c ELSE inflight[k]
          BY <3>1 DEF Owners, TypeInv, TypeOK
        <5>3. d # NoCall
          OBVIOUS
        <5>. QED BY <5>1, <5>2, <5>3, <2>4, <2>5, <3>1, <3>2
      <4>. QED BY <4>1 DEF InflightExact
    <3>5. OneOwner'
      <4>1. /\ Len(queue) \in Nat
            /\ Len(queue') = Len(queue) + 1
            /\ \A i \in 1 .. Len(queue) : queue'[i] = queue[i]
            /\ queue'[Len(queue) + 1] = c
        BY <3>1, AppendProperties, LenProperties DEF Owners, TypeInv, TypeOK
      <4>2. \A i \in 1 .. Len(queue') : i \in 1 .. Len(queue) \/ i = Len(queue) + 1
        BY <4>1
      <4>3. \A i \in 1 .. Len(queue) : i \in 1 .. Len(queue')
        BY <4>1
      <4>4. Len(queue) + 1 \in 1 .. Len(queue')
        BY <4>1
      <4>5. \A d \in Calls : Queued(d)' <=> Queued(d) \/ d = c
        BY <4>1, <4>2, <4>3, <4>4 DEF Queued
      <4>6. \A d \in Calls : InFlight(d)' <=> InFlight(d)
        BY <2>1 DEF InFlight
      <4>7. \A i, j \in 1 .. Len(queue') : queue'[i] = queue'[j] => i = j
        <5>1. \A i \in 1 .. Len(queue) : queue[i] # c
          BY <2>4 DEF Queued
        <5>2. \A i, j \in 1 .. Len(queue) : queue[i] = queue[j] => i = j
          BY DEF Owners, OneOwner
        <5>. QED BY <4>1, <4>2, <5>1, <5>2
      <4>. QED BY <2>1, <2>4, <3>2, <4>5, <4>6, <4>7 DEF OneOwner, Owners
    <3>. QED BY <1>0, <3>3, <3>4, <3>5 DEF Owners
  <2>. QED BY <1>1, <2>6, <2>7, <2>8 DEF Request
<1>2. CASE TimerFires \/ FlushNow
  <2>1. FlushLoop(<<>>, flights)
    BY <1>2 DEF TimerFires, FlushNow
  <2>2. DOMAIN <<>> = {}
    OBVIOUS
  <2>. DEFINE outcome == <<>>
  <2>3. DOMAIN outcome = {}
    BY <2>2
  <2>4. FlushLoop(outcome, flights)
    BY <2>1
  <2>. HIDE DEF outcome
  <2>5. \A c \in Calls : (\E g \in flights : \E i \in 1 .. Len(g) : g[i] = c)
                            <=> InFlight(c) /\ c \notin DOMAIN outcome
    BY <2>3 DEF InFlight
  <2>6. SettledAreMade' /\ InflightExact' /\ OneOwner'
    BY <2>3, <2>4, <2>5, FlushOwners DEF SettledAreMade
  <2>7. SharedAreMade'
    BY <2>4 DEF FlushLoop, Owners, SharedAreMade
  <2>. QED BY <1>0, <2>6, <2>7 DEF Owners
<1>3. ASSUME NEW f \in flights, HandlerSettles(f) PROVE Owners'
  <2>1. PICK outcome : SettlesWith(f, outcome)
    BY <1>3, HandlerOutcome DEF Owners
  <2>2. SettledAreMade' /\ InflightExact' /\ OneOwner'
    BY <2>1, SettlesOwners DEF SettledAreMade
  <2>3. SharedAreMade'
    BY <2>1 DEF SettlesWith, FlushLoop, Owners, SharedAreMade
  <2>. QED BY <1>0, <2>2, <2>3 DEF Owners
<1>4. CASE startRecalcCycle \/ clearCache \/ UNCHANGED vars
  <2>1. UNCHANGED <<question, promise, settled, inflight, queue, flights>>
    BY <1>4 DEF startRecalcCycle, clearCache, vars
  <2>2. \A c \in Calls : /\ Pending(c)' <=> Pending(c)
                         /\ Queued(c)' <=> Queued(c)
                         /\ InFlight(c)' <=> InFlight(c)
                         /\ KeyOf(c)' = KeyOf(c)
    BY <2>1 DEF Pending, Queued, InFlight, KeyOf
  <2>3. InflightExact'
    BY <2>1, <2>2 DEF Owners, InflightExact
  <2>4. OneOwner'
    BY <2>1, <2>2 DEF Owners, OneOwner
  <2>5. SettledAreMade' /\ SharedAreMade'
    BY <2>1 DEF Owners, SettledAreMade, SharedAreMade
  <2>. QED BY <1>0, <2>3, <2>4, <2>5 DEF Owners
<1>. QED BY <1>1, <1>2, <1>3, <1>4 DEF Next

LEMMA OwnersInit == Init => Owners
<1>. SUFFICES ASSUME Init PROVE Owners
  OBVIOUS
<1>. USE SentinelAssumption
<1>1. \A c \in Calls : ~Pending(c) /\ ~Queued(c) /\ ~InFlight(c)
  BY EmptySeq DEF Init, Pending, Queued, InFlight
<1>2. InflightExact
  BY <1>1 DEF Init, InflightExact
<1>3. OneOwner
  BY <1>1, EmptySeq DEF Init, OneOwner
<1>4. SettledAreMade /\ SharedAreMade
  BY DEF Init, SettledAreMade, SharedAreMade
<1>. QED BY <1>2, <1>3, <1>4, TypeInit DEF Owners

\* The inflight map names exactly the unsettled promises, under their own
\* question's hash: no later cell waits on a settled call's stale entry.
THEOREM InflightCorrect == Spec => []InflightExact
<1>1. Owners => InflightExact
  BY DEF Owners
<1>. QED BY <1>1, OwnersInit, OwnersStep, PTL DEF Spec

\* Every unsettled promise is in the queue or in one awaited batch, in one
\* place only: no flush() forgets a call and no two of them send it.
THEOREM OwnerCorrect == Spec => []OneOwner
<1>1. Owners => OneOwner
  BY DEF Owners
<1>. QED BY <1>1, OwnersInit, OwnersStep, PTL DEF Spec

-----------------------------------------------------------------------------
(* What the cells show and what the cache holds.                             *)

\* What request() does with call c, as far as promises and values go.
LEMMA RequestShape ==
  ASSUME Owners, NEW c \in Calls, NEW q \in Questions, Request(c, q)
  PROVE  /\ promise[c] = NoCall
         /\ settled[c] = NoValue
         /\ \A d \in Calls : promise[d] # c
         /\ contentHash[q] \in Keys
         /\ KeyOf(c)' = contentHash[q]
         /\ \A d \in Calls \ {c} : /\ KeyOf(d)' = KeyOf(d)
                                  /\ promise'[d] = promise[d]
                                  /\ settled'[d] = settled[d]
         /\ cache' = cache
         /\ Pending(c)' => cache[contentHash[q]] = NoValue
         /\ \/ promise'[c] = c
            \/ /\ promise'[c] \in Calls \ {c}
               /\ KeyOf(promise'[c]) = contentHash[q]
         /\ settled'[c] \in {NoValue, BudgetError, cache[contentHash[q]]}
<1>. USE SentinelAssumption DEF Owners, TypeInv, TypeOK
<1>1. /\ question[c] = NoValue
      /\ question' = [question EXCEPT ![c] = q]
      /\ cache' = cache
  BY DEF Request, RequestFromCache, RequestShares, RequestRefused,
         RequestQueued, Enqueue, Arrives
<1>2. /\ promise[c] = NoCall
      /\ settled[c] = NoValue
      /\ \A d \in Calls : promise[d] # c
  BY <1>1 DEF Asked, SettledAreMade, SharedAreMade
<1>3. /\ KeyOf(c)' = contentHash[q]
      /\ \A d \in Calls \ {c} : KeyOf(d)' = KeyOf(d)
      /\ contentHash[q] \in Keys
  BY <1>1, HashAssumption DEF KeyOf
<1>4. \A d \in Calls \ {c} : /\ promise'[d] = promise[d]
                              /\ settled'[d] = settled[d]
  BY DEF Request, RequestFromCache, RequestShares, RequestRefused,
         RequestQueued, Enqueue
<1>5. /\ Pending(c)' => cache[contentHash[q]] = NoValue
      /\ settled'[c] \in {NoValue, BudgetError, cache[contentHash[q]]}
  BY <1>2, <1>3 DEF Request, RequestFromCache, RequestShares, RequestRefused,
                    RequestQueued, Enqueue, Pending, Values
<1>6. \/ promise'[c] = c
      \/ /\ promise'[c] \in Calls \ {c}
         /\ KeyOf(promise'[c]) = contentHash[q]
  <2>1. CASE RequestShares(c, q)
    <3>1. /\ inflight[contentHash[q]] \in Calls
          /\ promise'[c] = inflight[contentHash[q]]
      BY <2>1, <1>3 DEF RequestShares
    <3>. QED BY <3>1, <1>2, <1>3 DEF InflightExact, Pending
  <2>2. CASE ~RequestShares(c, q)
    BY <2>2 DEF Request, RequestFromCache, RequestRefused, RequestQueued, Enqueue
  <2>. QED BY <2>1, <2>2
<1>. QED BY <1>1, <1>2, <1>3, <1>4, <1>5, <1>6

\* What a step of flush() does, the first or one after a batch: outcome holds
\* what the batch's calls got.
LoopRuns(outcome) ==
  /\ DOMAIN outcome \subseteq Calls
  /\ \A c \in DOMAIN outcome :
       /\ InFlight(c)
       /\ outcome[c] # BudgetError
       /\ outcome[c] \in Answers => outcome[c] = Answer(question[c])
  /\ \A k \in Keys : \/ cache'[k] = cache[k]
                     \/ \E c \in DOMAIN outcome : KeyOf(c) = k /\ cache'[k] = outcome[c]
  /\ \A c \in Calls : Pending(c)' <=> Pending(c) /\ c \notin DOMAIN outcome
                                                   /\ c \notin Refused
  /\ settled' = [c \in Calls |-> IF c \in DOMAIN outcome THEN outcome[c]
                                 ELSE IF c \in Refused THEN BudgetError
                                 ELSE settled[c]]
  /\ queue' = SubSeq(queue, Taken + 1, Len(queue))
  /\ Sent = <<>> \/ Sent \in flights'
  /\ llmCalls' = llmCalls + Len(Sent)
  /\ budgetRejections' = budgetRejections + Cardinality(Refused)
  /\ budgetNotified' = (budgetNotified \/ Refused # {})
  /\ sentIn' = [c \in Calls |-> IF c \in Range(Sent) THEN cycle ELSE sentIn[c]]
  /\ UNCHANGED <<question, promise, cycle>>

LEMMA LoopStep ==
  ASSUME Owners, TimerFires \/ FlushNow \/ \E f \in flights : HandlerSettles(f)
  PROVE  \E outcome : LoopRuns(outcome)
<1>1. CASE TimerFires \/ FlushNow
  <2>. DEFINE outcome == <<>>
  <2>1. DOMAIN outcome = {}
    OBVIOUS
  <2>2. /\ FlushLoop(outcome, flights)
        /\ cache' = cache
    BY <1>1 DEF TimerFires, FlushNow
  <2>. HIDE DEF outcome
  <2>3. \A c \in Calls : (\E g \in flights : \E i \in 1 .. Len(g) : g[i] = c)
                            <=> InFlight(c) /\ c \notin DOMAIN outcome
    BY <2>1 DEF InFlight
  <2>4. \A c \in Calls : Pending(c)' <=> Pending(c) /\ c \notin DOMAIN outcome
                                                     /\ c \notin Refused
    BY <2>1, <2>2, <2>3, FlushOwners
  <2>5. LoopRuns(outcome)
    BY <2>1, <2>2, <2>4 DEF LoopRuns, FlushLoop
  <2>. QED BY <2>5
<1>2. ASSUME NEW f \in flights, HandlerSettles(f)
      PROVE  \E outcome : LoopRuns(outcome)
  <2>1. PICK outcome : SettlesWith(f, outcome)
    BY <1>2, HandlerOutcome DEF Owners
  <2>2. /\ DOMAIN outcome = Range(f)
        /\ Range(f) \subseteq Calls
        /\ \A c \in Range(f) :
             /\ outcome[c] # BudgetError
             /\ outcome[c] \in Answers => outcome[c] = Answer(question[c])
        /\ \A k \in Keys : \/ cache'[k] = cache[k]
                           \/ \E c \in Range(f) : KeyOf(c) = k /\ cache'[k] = outcome[c]
    BY <2>1 DEF SettlesWith
  <2>3. FlushLoop(outcome, flights \ {f})
    BY <2>1 DEF SettlesWith
  <2>4. \A c \in Range(f) : InFlight(c)
    BY BatchOwners
  <2>5. \A c \in Calls : Pending(c)' <=> Pending(c) /\ c \notin Range(f)
                                                     /\ c \notin Refused
    BY <2>1, SettlesOwners
  <2>6. LoopRuns(outcome)
    BY <2>2, <2>3, <2>4, <2>5 DEF LoopRuns, FlushLoop
  <2>. QED BY <2>6
<1>. QED BY <1>1, <1>2

LEMMA NoRepurchaseStep == Owners /\ NoRepurchase /\ [Next]_vars => NoRepurchase'
<1>. SUFFICES ASSUME Owners, NoRepurchase, [Next]_vars PROVE NoRepurchase'
  OBVIOUS
<1>1. ASSUME NEW c \in Calls, NEW q \in Questions, Request(c, q) PROVE NoRepurchase'
  <2>1. \A d \in Calls \ {c} : Pending(d)' => Pending(d)
    BY <1>1, RequestShape DEF Pending
  <2>. QED BY <1>1, <2>1, RequestShape DEF NoRepurchase
<1>2. CASE TimerFires \/ FlushNow \/ \E f \in flights : HandlerSettles(f)
  <2>1. PICK outcome : LoopRuns(outcome)
    BY <1>2, LoopStep
  <2>2. ASSUME NEW c \in Calls, Pending(c)' PROVE cache'[KeyOf(c)] = NoValue
    <3>1. Pending(c) /\ c \notin DOMAIN outcome
      BY <2>1, <2>2 DEF LoopRuns
    <3>2. KeyOf(c) \in Keys /\ inflight[KeyOf(c)] = c
      BY <3>1, HashAssumption, SentinelAssumption
         DEF Owners, TypeInv, TypeOK, Asked, InflightExact, KeyOf, Pending
    <3>3. \A d \in DOMAIN outcome : KeyOf(d) # KeyOf(c)
      BY <2>1, <3>1, <3>2 DEF LoopRuns, Owners, InflightExact, OneOwner
    <3>. QED BY <2>1, <3>1, <3>2, <3>3 DEF LoopRuns, NoRepurchase
  <2>3. \A c \in Calls : KeyOf(c)' = KeyOf(c)
    BY <2>1 DEF LoopRuns, KeyOf
  <2>. QED BY <2>2, <2>3 DEF NoRepurchase
<1>3. CASE startRecalcCycle \/ UNCHANGED vars
  BY <1>3 DEF startRecalcCycle, vars, NoRepurchase, Pending, KeyOf
<1>4. CASE clearCache
  BY <1>4, HashAssumption, SentinelAssumption
     DEF clearCache, NoRepurchase, Pending, KeyOf, Owners, TypeInv, TypeOK, Asked
<1>. QED BY <1>1, <1>2, <1>3, <1>4 DEF Next

\* A question being paid for is never also in the cache, so no flush() buys an
\* answer the coordinator already holds.
THEOREM NoRepurchaseCorrect == Spec => []NoRepurchase
<1>1. Init => NoRepurchase
  BY SentinelAssumption DEF Init, NoRepurchase, Pending
<1>. QED BY <1>1, OwnersInit, OwnersStep, NoRepurchaseStep, PTL DEF Spec

LEMMA AnswerShape ==
  /\ \A q \in Questions : Answer(q).of = q
  /\ BudgetError \notin Answers
BY DEF Answer, Answers, BudgetError

LEMMA OwnAnswerStep == Owners /\ OwnAnswer /\ [Next]_vars => OwnAnswer'
<1>. SUFFICES ASSUME Owners, OwnAnswer, [Next]_vars PROVE OwnAnswer'
  OBVIOUS
<1>. USE SentinelAssumption
<1>0. NoValue \notin Answers
  BY DEF Values
<1>1. ASSUME NEW c \in Calls, NEW q \in Questions, Request(c, q) PROVE OwnAnswer'
  <2>1. \A d \in Calls : settled'[d] \in Answers => contentHash[settled'[d].of] = KeyOf(d)'
    BY <1>0, <1>1, RequestShape, AnswerShape DEF OwnAnswer
  <2>2. ASSUME NEW d \in Calls, promise'[d] # NoCall
        PROVE  KeyOf(promise[d])' = KeyOf(d)'
    <3>1. CASE d = c
      BY <1>1, <2>2, <3>1, RequestShape DEF KeyOf
    <3>2. CASE d # c
      <4>1. /\ promise'[d] = promise[d]
            /\ promise[d] \in Calls \ {c}
        BY <1>1, <2>2, <3>2, RequestShape DEF Owners, TypeInv, TypeOK
      <4>2. KeyOf(promise[d]) = KeyOf(d)
        BY <2>2, <4>1 DEF OwnAnswer
      <4>3. \A e \in Calls \ {c} : KeyOf(e)' = KeyOf(e)
        BY <1>1, RequestShape
      <4>. QED BY <3>2, <4>1, <4>2, <4>3 DEF KeyOf
    <3>. QED BY <3>1, <3>2
  <2>3. \A k \in Keys : cache'[k] \in Answers => contentHash[cache'[k].of] = k
    BY <1>1, RequestShape DEF OwnAnswer
  <2>. QED BY <2>1, <2>2, <2>3 DEF OwnAnswer
<1>2. CASE TimerFires \/ FlushNow \/ \E f \in flights : HandlerSettles(f)
  <2>1. PICK outcome : LoopRuns(outcome)
    BY <1>2, LoopStep
  <2>2. UNCHANGED <<question, promise>>
    BY <2>1 DEF LoopRuns
  <2>3. \A c \in DOMAIN outcome :
          outcome[c] \in Answers => contentHash[outcome[c].of] = KeyOf(c)
    <3>1. ASSUME NEW c \in DOMAIN outcome, outcome[c] \in Answers
          PROVE  contentHash[outcome[c].of] = KeyOf(c)
      <4>1. /\ c \in Calls
            /\ InFlight(c)
            /\ outcome[c] = Answer(question[c])
        BY <2>1, <3>1 DEF LoopRuns
      <4>2. question[c] \in Questions
        BY <4>1 DEF Owners, TypeInv, TypeOK, Asked
      <4>. QED BY <4>1, <4>2, AnswerShape DEF KeyOf
    <3>. QED BY <3>1
  <2>4. \A c \in Calls : settled'[c] \in Answers => contentHash[settled'[c].of] = KeyOf(c)
    BY <2>1, <2>3, AnswerShape DEF LoopRuns, OwnAnswer
  <2>5. \A k \in Keys : cache'[k] \in Answers => contentHash[cache'[k].of] = k
    BY <2>1, <2>3 DEF LoopRuns, OwnAnswer
  <2>. QED BY <2>2, <2>4, <2>5 DEF OwnAnswer, KeyOf
<1>3. CASE startRecalcCycle \/ clearCache \/ UNCHANGED vars
  BY <1>0, <1>3 DEF startRecalcCycle, clearCache, vars, OwnAnswer, KeyOf
<1>. QED BY <1>1, <1>2, <1>3 DEF Next

\* An answer a cell shows, its own, shared or cached, answers a question with
\* the hash of the cell's question, whatever the handler's batches did.
THEOREM OwnAnswerCorrect == Spec => []OwnAnswer
<1>1. Init => OwnAnswer
  BY SentinelAssumption DEF Init, OwnAnswer, Values
<1>. QED BY <1>1, OwnersInit, OwnersStep, OwnAnswerStep, PTL DEF Spec

-----------------------------------------------------------------------------
(* What was spent.                                                           *)

SpentIn(n) == {c \in Calls : sentIn[c] = n}

\* BudgetPerCycle alone is not inductive: the calls sent in this cycle must be
\* covered by llmCalls, the counter the breaker reads.
Spending ==
  /\ llmCalls <= BUDGET
  /\ \A c \in Calls : sentIn[c] <= cycle
  /\ Cardinality(SpentIn(cycle)) <= llmCalls
  /\ \A n \in 1 .. MaxCycles : Cardinality(SpentIn(n)) <= BUDGET

LEMMA SpentFinite ==
  /\ IsFiniteSet(Calls)
  /\ \A S \in SUBSET Calls : IsFiniteSet(S) /\ Cardinality(S) \in Nat
  /\ \A S \in SUBSET Calls : \A T \in SUBSET S : Cardinality(T) <= Cardinality(S)
<1>1. IsFiniteSet(Calls)
  BY BoundsAssumption, FS_Interval DEF Calls
<1>. QED BY <1>1, FS_Subset, FS_CardinalityType

\* A loop step sends at most as many different calls as it counts.
LEMMA SentCounted ==
  ASSUME TypeInv
  PROVE  /\ Range(Sent) \subseteq Calls
         /\ Cardinality(Range(Sent)) <= Len(Sent)
         /\ Len(Sent) \in Nat
<1>1. /\ Sent \in Seq(Calls)
      /\ Len(Sent) \in Nat
      /\ DOMAIN Sent = 1 .. Len(Sent)
      /\ \A i \in 1 .. Len(Sent) : Sent[i] \in Calls
  BY LoopShape, LenProperties, ElementOfSeq DEF TypeInv, TypeOK
<1>2. Range(Sent) = {Sent[i] : i \in 1 .. Len(Sent)}
  BY <1>1 DEF Range
<1>3. Sent \in Surjection(1 .. Len(Sent), Range(Sent))
  <2>1. Sent \in [1 .. Len(Sent) -> Range(Sent)]
    BY <1>1, <1>2, LenProperties
  <2>. QED BY <1>2, <2>1 DEF Surjection
<1>4. Cardinality(Range(Sent)) <= Len(Sent)
  BY <1>1, <1>3, FS_SurjCardinalityBound DEF ExistsSurjection
<1>. QED BY <1>1, <1>2, <1>4

LEMMA SpendingStep == Owners /\ Spending /\ [Next]_vars => Spending'
<1>. SUFFICES ASSUME Owners, Spending, [Next]_vars PROVE Spending'
  OBVIOUS
<1>. USE BoundsAssumption, OptionsAssumption
<1>0. /\ llmCalls \in Nat
      /\ cycle \in 1 .. MaxCycles
      /\ sentIn \in [Calls -> 0 .. MaxCycles]
      /\ TypeInv
  BY DEF Owners, TypeInv, TypeOK
<1>1. CASE TimerFires \/ FlushNow \/ \E f \in flights : HandlerSettles(f)
  <2>1. PICK outcome : LoopRuns(outcome)
    BY <1>1, LoopStep
  <2>2. /\ llmCalls' = llmCalls + Len(Sent)
        /\ \A c \in Calls : sentIn'[c] = IF c \in Range(Sent) THEN cycle ELSE sentIn[c]
        /\ cycle' = cycle
    BY <2>1 DEF LoopRuns
  <2>3. /\ Range(Sent) \subseteq Calls
        /\ Cardinality(Range(Sent)) <= Len(Sent)
        /\ Len(Sent) \in Nat
    BY <1>0, SentCounted
  <2>4. llmCalls' <= BUDGET
    BY <1>0, <2>2, <2>3, LoopShape DEF Spending, Owners, TypeInv, TypeOK
  <2>5. Cardinality(SpentIn(cycle)') <= llmCalls'
    <3>1. SpentIn(cycle)' \subseteq SpentIn(cycle) \cup Range(Sent)
      BY <2>2 DEF SpentIn
    <3>2. /\ SpentIn(cycle) \subseteq Calls
          /\ Cardinality(SpentIn(cycle)) <= llmCalls
      BY DEF SpentIn, Spending
    <3>3. /\ Cardinality(SpentIn(cycle)) \in Nat
          /\ Cardinality(Range(Sent)) \in Nat
          /\ IsFiniteSet(SpentIn(cycle))
          /\ IsFiniteSet(Range(Sent))
          /\ SpentIn(cycle) \cup Range(Sent) \in SUBSET Calls
          /\ Cardinality(SpentIn(cycle) \cap Range(Sent)) \in Nat
      BY <2>3, <3>2, SpentFinite
    <3>4. Cardinality(SpentIn(cycle) \cup Range(Sent))
            = Cardinality(SpentIn(cycle)) + Cardinality(Range(Sent))
                - Cardinality(SpentIn(cycle) \cap Range(Sent))
      BY <3>3, FS_Union
    <3>5. /\ Cardinality(SpentIn(cycle)') \in Nat
          /\ Cardinality(SpentIn(cycle)') <= Cardinality(SpentIn(cycle) \cup Range(Sent))
      BY <3>1, <3>3, SpentFinite
    <3>. QED BY <1>0, <2>2, <2>3, <3>2, <3>3, <3>4, <3>5
  <2>6. ASSUME NEW n \in 1 .. MaxCycles PROVE Cardinality(SpentIn(n)') <= BUDGET
    <3>1. CASE n = cycle
      <4>1. SpentIn(n)' = SpentIn(cycle)'
        BY <2>2, <3>1 DEF SpentIn
      <4>2. Cardinality(SpentIn(cycle)') \in Nat
        BY SpentFinite DEF SpentIn
      <4>. QED BY <1>0, <2>2, <2>3, <2>4, <2>5, <4>1, <4>2
    <3>2. CASE n # cycle
      <4>1. SpentIn(n)' \subseteq SpentIn(n) /\ SpentIn(n) \subseteq Calls
        BY <2>2, <3>2 DEF SpentIn
      <4>2. /\ Cardinality(SpentIn(n)') <= Cardinality(SpentIn(n))
            /\ Cardinality(SpentIn(n)') \in Nat
            /\ Cardinality(SpentIn(n)) \in Nat
        BY <4>1, SpentFinite
      <4>3. Cardinality(SpentIn(n)) <= BUDGET
        BY DEF Spending
      <4>. QED BY <4>2, <4>3
    <3>. QED BY <3>1, <3>2
  <2>7. \A c \in Calls : sentIn'[c] <= cycle'
    BY <1>0, <2>2 DEF Spending
  <2>. QED BY <2>2, <2>4, <2>5, <2>6, <2>7 DEF Spending, SpentIn
<1>2. CASE startRecalcCycle
  <2>1. /\ llmCalls' = 0
        /\ cycle' = cycle + 1
        /\ sentIn' = sentIn
    BY <1>2 DEF startRecalcCycle
  <2>2. \A c \in Calls : sentIn[c] # cycle'
    BY <1>0, <2>1 DEF Spending
  <2>3. SpentIn(cycle)' = {}
    BY <2>1, <2>2 DEF SpentIn
  <2>4. \A c \in Calls : sentIn'[c] <= cycle'
    BY <1>0, <2>1 DEF Spending
  <2>. QED BY <1>0, <2>1, <2>3, <2>4, FS_EmptySet DEF Spending, SpentIn
<1>3. CASE clearCache \/ UNCHANGED vars \/ \E c \in Calls, q \in Questions : Request(c, q)
  <2>1. UNCHANGED <<llmCalls, cycle, sentIn>>
    BY <1>3 DEF clearCache, vars, counters, history, Request, RequestFromCache,
                RequestShares, RequestRefused, RequestQueued, Enqueue
  <2>. QED BY <2>1 DEF Spending, SpentIn
<1>. QED BY <1>1, <1>2, <1>3 DEF Next

LEMMA SpendingInit == Init => Spending
<1>. SUFFICES ASSUME Init PROVE Spending
  OBVIOUS
<1>1. \A n \in 1 .. MaxCycles : SpentIn(n) = {}
  BY DEF Init, SpentIn
<1>2. cycle \in 1 .. MaxCycles
  BY BoundsAssumption DEF Init
<1>3. /\ llmCalls = 0
      /\ cycle = 1
      /\ \A c \in Calls : sentIn[c] = 0
  BY DEF Init
<1>. QED BY <1>1, <1>2, <1>3, OptionsAssumption, FS_EmptySet DEF Spending

\* INV-7 of the repository: one recalculation cycle sends the model at most
\* BUDGET requests, however many flushes overlap in it.
THEOREM BudgetCorrect == Spec => []BudgetPerCycle
<1>1. Spending => BudgetPerCycle
  BY DEF Spending, SpentIn, BudgetPerCycle
<1>. QED BY <1>1, OwnersInit, OwnersStep, SpendingInit, SpendingStep, PTL DEF Spec

\* What a loop step refuses, and that it leaves queued calls only to a batch.
LEMMA LoopBudget ==
  ASSUME TypeInv
  PROVE  /\ Refused # {} => llmCalls + Len(Sent) >= BUDGET
         /\ SubSeq(queue, Taken + 1, Len(queue)) # <<>> => Sent # <<>>
         /\ Cardinality(Refused) \in Nat
         /\ Cardinality(Refused) > 0 <=> Refused # {}
<1>. USE OptionsAssumption
<1>1. /\ llmCalls \in Nat
      /\ Len(queue) \in Nat
      /\ \A i \in 1 .. Len(queue) : queue[i] \in Calls
  BY LenProperties, ElementOfSeq DEF TypeInv, TypeOK
<1>2. /\ IsFiniteSet(Refused)
      /\ Cardinality(Refused) \in Nat
  BY RefusedFinite, SpentFinite DEF TypeInv, TypeOK
<1>3. CASE Exhausted
  <2>1. Sent = <<>> /\ Taken = Len(queue) /\ Len(Sent) = 0
    BY <1>3, EmptySeq DEF Sent, Taken
  <2>2. SubSeq(queue, Taken + 1, Len(queue)) = <<>>
    <3>1. /\ SubSeq(queue, Taken + 1, Len(queue)) \in Seq(Calls)
          /\ Len(SubSeq(queue, Taken + 1, Len(queue))) = 0
      BY <1>1, <2>1, LoopShape DEF TypeInv, TypeOK
    <3>. QED BY <3>1, EmptySeq
  <2>. QED BY <1>1, <1>2, <1>3, <2>1, <2>2, FS_EmptySet DEF Exhausted
<1>4. CASE ~Exhausted
  <2>0. BUDGET - llmCalls \in Nat \ {0}
    BY <1>1, <1>4 DEF Exhausted
  <2>1. /\ BUDGET - llmCalls \in Nat \ {0}
        /\ Taken = Lesser(BatchSize, Len(queue))
        /\ Sent = SubSeq(queue, 1, SendCount)
    BY <1>4, <2>0, Zenon DEF Taken, Sent
  <2>2. /\ SendCount = Lesser(Taken, BUDGET - llmCalls)
        /\ SendCount \in 0 .. Len(queue)
    BY <1>1, <2>1 DEF SendCount, Lesser
  <2>3. Len(Sent) = SendCount
    <3>1. \A i \in 1 .. SendCount : queue[i] \in Calls
      BY <1>1, <2>2
    <3>. QED BY <1>1, <2>1, <2>2, <3>1, SubSeqProperties, Z3
  <2>4. Refused # {} => llmCalls + Len(Sent) >= BUDGET
    <3>1. Refused # {} => Len(Sent) < Taken
      BY <1>1, <2>1, <2>2, <2>3 DEF Refused, Lesser
    <3>. QED BY <1>1, <2>1, <2>2, <2>3, <3>1 DEF Lesser
  <2>5. SubSeq(queue, Taken + 1, Len(queue)) # <<>> => Sent # <<>>
    <3>1. SubSeq(queue, Taken + 1, Len(queue)) # <<>> => Len(queue) > 0
      BY <1>1, LoopShape, EmptySeq DEF TypeInv, TypeOK
    <3>2. Len(queue) > 0 => Len(Sent) > 0
      BY <1>1, <2>1, <2>2, <2>3 DEF Lesser
    <3>. QED BY <3>1, <3>2, EmptySeq
  <2>. QED BY <1>2, <2>4, <2>5, FS_EmptySet
<1>. QED BY <1>3, <1>4

-----------------------------------------------------------------------------
(* The banner, the flush that is owed, and who is refused.                   *)

LEMMA BannerStep ==
  Owners /\ BannerMatchesRefusals /\ [Next]_vars => BannerMatchesRefusals'
<1>. SUFFICES ASSUME Owners, BannerMatchesRefusals, [Next]_vars
              PROVE  BannerMatchesRefusals'
  OBVIOUS
<1>0. /\ TypeInv
      /\ budgetRejections \in Nat
  BY DEF Owners, TypeInv, TypeOK
<1>1. CASE TimerFires \/ FlushNow \/ \E f \in flights : HandlerSettles(f)
  <2>1. PICK outcome : LoopRuns(outcome)
    BY <1>1, LoopStep
  <2>2. budgetRejections' = budgetRejections + Cardinality(Refused)
    BY <2>1 DEF LoopRuns
  <2>3. budgetNotified' = (budgetNotified \/ Refused # {})
    BY <2>1 DEF LoopRuns
  <2>4. budgetRejections' > 0 <=> budgetRejections > 0 \/ Refused # {}
    BY <1>0, <2>2, LoopBudget
  <2>. QED BY <2>3, <2>4 DEF BannerMatchesRefusals
<1>2. ASSUME NEW c \in Calls, NEW q \in Questions, Request(c, q)
      PROVE  BannerMatchesRefusals'
  <2>1. CASE RequestRefused(c, q)
    <3>1. budgetNotified' = TRUE
      BY <2>1 DEF RequestRefused
    <3>2. budgetRejections' > 0
      BY <1>0, <2>1 DEF RequestRefused
    <3>. QED BY <3>1, <3>2 DEF BannerMatchesRefusals
  <2>2. CASE ~RequestRefused(c, q)
    BY <1>2, <2>2 DEF Request, RequestFromCache, RequestShares, RequestQueued,
                      Enqueue, counters, BannerMatchesRefusals
  <2>. QED BY <2>1, <2>2
<1>3. CASE startRecalcCycle
  <2>1. budgetNotified' = FALSE
    BY <1>3 DEF startRecalcCycle
  <2>2. ~(budgetRejections' > 0)
    BY <1>3 DEF startRecalcCycle
  <2>. QED BY <2>1, <2>2 DEF BannerMatchesRefusals
<1>4. CASE clearCache \/ UNCHANGED vars
  BY <1>4 DEF clearCache, vars, counters, BannerMatchesRefusals
<1>. QED BY <1>1, <1>2, <1>3, <1>4 DEF Next

\* The budget banner is up exactly when this cycle refused a cell, in request()
\* or in a later flush().
THEOREM BannerCorrect == Spec => []BannerMatchesRefusals
<1>1. Init => BannerMatchesRefusals
  <2>1. Init => ~(budgetRejections > 0)
    BY DEF Init
  <2>. QED BY <2>1 DEF Init, BannerMatchesRefusals
<1>. QED BY <1>1, OwnersInit, OwnersStep, BannerStep, PTL DEF Spec

LEMMA QueueIsDrivenStep == Owners /\ QueueIsDriven /\ [Next]_vars => QueueIsDriven'
<1>. SUFFICES ASSUME Owners, QueueIsDriven, [Next]_vars PROVE QueueIsDriven'
  OBVIOUS
<1>1. CASE TimerFires \/ FlushNow \/ \E f \in flights : HandlerSettles(f)
  <2>1. PICK outcome : LoopRuns(outcome)
    BY <1>1, LoopStep
  <2>2. queue' # <<>> => flights' # {}
    BY <2>1, LoopBudget DEF LoopRuns, Owners
  <2>. QED BY <2>2 DEF QueueIsDriven
<1>2. ASSUME NEW c \in Calls, NEW q \in Questions, Request(c, q)
      PROVE  QueueIsDriven'
  <2>1. CASE RequestQueued(c, q)
    BY <2>1 DEF RequestQueued, QueueIsDriven
  <2>2. CASE ~RequestQueued(c, q)
    BY <1>2, <2>2 DEF Request, RequestFromCache, RequestShares, RequestRefused,
                      QueueIsDriven
  <2>. QED BY <2>1, <2>2
<1>3. CASE startRecalcCycle \/ clearCache \/ UNCHANGED vars
  BY <1>3 DEF startRecalcCycle, clearCache, vars, QueueIsDriven
<1>. QED BY <1>1, <1>2, <1>3 DEF Next

\* Queued work always has somebody to flush it: the armed timer, or a flush()
\* awaiting the handler, which loops.
THEOREM QueueCorrect == Spec => []QueueIsDriven
<1>1. Init => QueueIsDriven
  BY DEF Init, QueueIsDriven
<1>. QED BY <1>1, OwnersInit, OwnersStep, QueueIsDrivenStep, PTL DEF Spec

\* The cache never holds a refusal: a cell cannot be refused by a look-up.
NoCachedRefusal == \A k \in Keys : cache[k] # BudgetError

LEMMA NoCachedRefusalStep ==
  Owners /\ NoCachedRefusal /\ [Next]_vars => NoCachedRefusal'
<1>. SUFFICES ASSUME Owners, NoCachedRefusal, [Next]_vars PROVE NoCachedRefusal'
  OBVIOUS
<1>1. CASE TimerFires \/ FlushNow \/ \E f \in flights : HandlerSettles(f)
  BY <1>1, LoopStep DEF LoopRuns, NoCachedRefusal
<1>2. CASE clearCache
  BY <1>2, SentinelAssumption DEF clearCache, NoCachedRefusal, Values
<1>3. CASE startRecalcCycle \/ UNCHANGED vars
           \/ \E c \in Calls, q \in Questions : Request(c, q)
  <2>1. cache' = cache
    BY <1>3 DEF startRecalcCycle, vars, Request, RequestFromCache, RequestShares,
                RequestRefused, RequestQueued, Enqueue
  <2>. QED BY <2>1 DEF NoCachedRefusal
<1>. QED BY <1>1, <1>2, <1>3 DEF Next

LEMMA RefusalStep ==
  Owners /\ Spending /\ Spending' /\ NoCachedRefusal /\ [Next]_vars
    => [\A c \in Calls : settled'[c] = BudgetError /\ settled[c] # BudgetError
          => llmCalls' = BUDGET]_vars
<1>. SUFFICES ASSUME Owners, Spending, Spending', NoCachedRefusal, Next,
                     NEW c \in Calls,
                     settled'[c] = BudgetError, settled[c] # BudgetError
              PROVE  llmCalls' = BUDGET
  OBVIOUS
<1>. USE OptionsAssumption, SentinelAssumption
<1>0. /\ llmCalls \in Nat
      /\ llmCalls <= BUDGET
      /\ llmCalls' <= BUDGET
      /\ BudgetError # NoValue
      /\ TypeInv
      /\ settled \in [Calls -> Values \cup {NoValue}]
  BY DEF Owners, TypeInv, TypeOK, Spending, Values
<1>1. CASE TimerFires \/ FlushNow \/ \E f \in flights : HandlerSettles(f)
  <2>1. PICK outcome : LoopRuns(outcome)
    BY <1>1, LoopStep
  <2>2. c \in Refused
    BY <2>1 DEF LoopRuns
  <2>3. llmCalls' >= BUDGET
    BY <1>0, <2>1, <2>2, LoopBudget DEF LoopRuns
  <2>4. llmCalls' \in Int
    BY <1>0, <2>1, SentCounted DEF LoopRuns
  <2>. QED BY <1>0, <2>3, <2>4
<1>2. ASSUME NEW d \in Calls, NEW q \in Questions, Request(d, q)
      PROVE  llmCalls' = BUDGET
  <2>1. CASE RequestRefused(d, q)
    BY <1>0, <2>1 DEF RequestRefused
  <2>2. CASE RequestFromCache(d, q)
    BY <1>0, <2>2, HashAssumption DEF RequestFromCache, NoCachedRefusal
  <2>3. CASE RequestShares(d, q) \/ RequestQueued(d, q)
    BY <2>3 DEF RequestShares, RequestQueued, Enqueue
  <2>. QED BY <1>2, <2>1, <2>2, <2>3 DEF Request
<1>3. CASE startRecalcCycle \/ clearCache
  BY <1>3 DEF startRecalcCycle, clearCache
<1>. QED BY <1>1, <1>2, <1>3 DEF Next

\* A cell is shown the budget error only in a step that leaves the whole budget
\* spent, never while a call was left for it.
THEOREM RefusalCorrect == Spec => RefusedOnlyWhenSpent
<1>1. Init => NoCachedRefusal
  BY SentinelAssumption DEF Init, NoCachedRefusal, Values
<1>. QED BY <1>1, OwnersInit, OwnersStep, SpendingInit, SpendingStep,
            NoCachedRefusalStep, RefusalStep, PTL DEF Spec, RefusedOnlyWhenSpent

-----------------------------------------------------------------------------
(* The refinement: a call of request() is an Ask, a step of flush() a Settle, *)
(* and a new cycle or a cleared cache changes nothing a worksheet can see.   *)

\* Whatever a cell shows is allowed for its question.
ShownFits ==
  \A c \in Calls : Shown[c] # NoValue => /\ question[c] \in Questions
                                         /\ Shown[c] \in Allowed[question[c]]

LEMMA AllowedValue ==
  ASSUME NEW q \in Questions, NEW v \in Values,
         v \in Answers => contentHash[v.of] = contentHash[q]
  PROVE  v \in Allowed[q]
<1>1. CASE v \in Answers
  <2>1. PICK r \in Questions : v = Answer(r)
    BY <1>1 DEF Answers
  <2>2. contentHash[r] = contentHash[q]
    BY <1>1, <2>1, AnswerShape
  <2>. QED BY <2>1, <2>2 DEF Allowed
<1>2. CASE v \notin Answers
  BY <1>2 DEF Allowed
<1>. QED BY <1>1, <1>2

LEMMA FitsInv == Owners /\ OwnAnswer => ShownFits
<1>. SUFFICES ASSUME Owners, OwnAnswer, NEW c \in Calls, Shown[c] # NoValue
              PROVE  /\ question[c] \in Questions
                     /\ Shown[c] \in Allowed[question[c]]
  BY DEF ShownFits
<1>1. /\ promise[c] \in Calls
      /\ Shown[c] = settled[promise[c]]
  BY DEF Shown, Owners, TypeInv, TypeOK
<1>2. question[c] \in Questions
  BY <1>1, SentinelAssumption DEF Owners, TypeInv, TypeOK, Asked
<1>3. Shown[c] \in Values
  BY <1>1 DEF Owners, TypeInv, TypeOK
<1>4. Shown[c] \in Answers => contentHash[Shown[c].of] = contentHash[question[c]]
  BY <1>1, SentinelAssumption DEF OwnAnswer, KeyOf
<1>. QED BY <1>2, <1>3, <1>4, AllowedValue

LEMMA ServiceInit == Init => Service!Init
BY DEF Init, Service!Init, Shown

LEMMA ServiceStep ==
  Owners /\ ShownFits' /\ [Next]_vars => [Service!Next]_(Service!vars)
<1>. SUFFICES ASSUME Owners, ShownFits', [Next]_vars
              PROVE  [Service!Next]_(Service!vars)
  OBVIOUS
<1>. USE SentinelAssumption
<1>1. ASSUME NEW c \in Calls, NEW q \in Questions, Request(c, q)
      PROVE  Service!Ask(c, q)
  <2>1. /\ question[c] = NoValue
        /\ question' = [question EXCEPT ![c] = q]
        /\ question'[c] = q
    BY <1>1 DEF Request, RequestFromCache, RequestShares, RequestRefused,
                RequestQueued, Arrives, Owners, TypeInv, TypeOK
  <2>2. Shown'[c] \in Allowed[q] \cup {NoValue}
    BY <2>1 DEF ShownFits
  <2>3. ASSUME NEW d \in Calls, d # c PROVE Shown'[d] = Shown[d]
    <3>1. /\ promise'[d] = promise[d]
          /\ promise[d] \in Calls \ {c} \/ promise[d] = NoCall
      BY <1>1, <2>3, RequestShape DEF Owners, TypeInv, TypeOK
    <3>2. promise[d] \in Calls => settled'[promise[d]] = settled[promise[d]]
      BY <1>1, <3>1, RequestShape
    <3>. QED BY <3>1, <3>2 DEF Shown
  <2>4. Shown' = [Shown EXCEPT ![c] = Shown'[c]]
    BY <2>3 DEF Shown
  <2>. QED BY <2>1, <2>2, <2>4 DEF Service!Ask
<1>2. CASE TimerFires \/ FlushNow \/ \E f \in flights : HandlerSettles(f)
  <2>1. PICK outcome : LoopRuns(outcome)
    BY <1>2, LoopStep
  <2>2. /\ question' = question
        /\ promise' = promise
    BY <2>1 DEF LoopRuns
  <2>3. ASSUME NEW p \in Calls, settled'[p] # settled[p] PROVE settled[p] = NoValue
    <3>1. p \in DOMAIN outcome \/ p \in Refused
      BY <2>1, <2>3 DEF LoopRuns
    <3>2. InFlight(p) \/ Queued(p)
      BY <2>1, <3>1, QueueSplit DEF LoopRuns, Owners
    <3>. QED BY <3>2 DEF Owners, OneOwner, Pending
  <2>4. ASSUME NEW c \in Calls, Shown'[c] # Shown[c]
        PROVE  /\ question[c] \in Questions
               /\ Shown[c] = NoValue
               /\ Shown'[c] \in Allowed[question[c]]
    <3>1. /\ promise[c] \in Calls
          /\ Shown[c] = settled[promise[c]]
          /\ Shown'[c] = settled'[promise[c]]
      BY <2>2, <2>4 DEF Shown, Owners, TypeInv, TypeOK
    <3>2. Shown[c] = NoValue
      BY <2>3, <2>4, <3>1
    <3>. QED BY <2>2, <2>4, <3>2 DEF ShownFits
  <2>5. Shown' = [c \in Calls |-> Shown'[c]]
    BY DEF Shown
  <2>. QED BY <2>2, <2>4, <2>5 DEF Service!Next, Service!Settle
<1>3. CASE startRecalcCycle \/ clearCache \/ UNCHANGED vars
  BY <1>3 DEF startRecalcCycle, clearCache, vars, Shown, Service!vars
<1>. QED BY <1>1, <1>2, <1>3 DEF Next, Service!Next

\* The coordinator keeps the promise the =AI.* functions make to a worksheet,
\* with any hash, budget, batch size, failures and overlapping flushes: a cell
\* shows nothing until it shows a value that fits its question, and keeps it.
THEOREM ServiceCorrect == Spec => ImplementsService
<1>1. Init => OwnAnswer
  BY SentinelAssumption DEF Init, OwnAnswer, Values
<1>. QED BY <1>1, OwnersInit, OwnersStep, OwnAnswerStep, FitsInv, ServiceInit,
            ServiceStep, PTL DEF Spec, ImplementsService, Service!Spec
=============================================================================
