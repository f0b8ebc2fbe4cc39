--------------------------- MODULE MCAnswerChannel ---------------------------
(* Instances of AnswerChannel for TLC: one task that asks in sequence. *)
EXTENDS AnswerChannel

CONSTANTS task1

OneTask == [q \in Questions |-> task1]
=============================================================================
