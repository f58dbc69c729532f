--------------------------- MODULE MCAiCoordinator ---------------------------
(* TLC instance of AiCoordinator: three questions with distinct hashes.      *)
EXTENDS AiCoordinator, TLC

CONSTANTS q1, q2, q3

MCQuestions == {q1, q2, q3}
MCKeys == {1, 2, 3}
MCHash == (q1 :> 1) @@ (q2 :> 2) @@ (q3 :> 3)
=============================================================================
