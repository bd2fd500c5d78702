---------------------------- MODULE MCAttention ----------------------------
(* One question, of a hook or of the command line, and one plain request.  *)
EXTENDS Attention

CONSTANTS q1, q2

AQuestionAndARequest ==
  {[q \in {q1, q2} |-> IF q = q1 THEN c ELSE "plain"] : c \in {"hook", "mail"}}
AnyFault == FaultNames
=============================================================================
