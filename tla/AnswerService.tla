---------------------------- MODULE AnswerService ----------------------------
(***************************************************************************)
(* What the =AI.* functions promise a worksheet, whatever batches, caches,  *)
(* flights and budgets are behind them: a cell asks once, and shows nothing *)
(* until it shows a value that fits its question, which it then keeps.      *)
(***************************************************************************)
CONSTANTS
  Calls,      \* the cell invocations
  Questions,  \* what they may ask
  Allowed,    \* [Questions -> sets of values]: what may be shown for a question
  NoValue     \* not asked, or nothing shown yet

VARIABLES asked, shows

vars == <<asked, shows>>

Init ==
  /\ asked = [c \in Calls |-> NoValue]
  /\ shows = [c \in Calls |-> NoValue]

\* A cell asks, and may be answered or refused at once.
Ask(c, q) ==
  /\ asked[c] = NoValue
  /\ asked' = [asked EXCEPT ![c] = q]
  /\ \E v \in Allowed[q] \cup {NoValue} : shows' = [shows EXCEPT ![c] = v]

\* Any cells that wait are answered together.
Settle ==
  /\ asked' = asked
  /\ shows' = [c \in Calls |-> shows'[c]]
  /\ \A c \in Calls : \/ shows'[c] = shows[c]
                      \/ /\ asked[c] \in Questions
                         /\ shows[c] = NoValue
                         /\ shows'[c] \in Allowed[asked[c]]

Next == (\E c \in Calls, q \in Questions : Ask(c, q)) \/ Settle

Spec == Init /\ [][Next]_vars
=============================================================================
