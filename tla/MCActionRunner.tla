--------------------------- MODULE MCActionRunner ---------------------------
(* A program of one turn, for the question when a turn counts as done.       *)
EXTENDS ActionRunner

FewPrograms == {<<[op |-> "turn", next |-> 0, other |-> 0]>>}
=============================================================================
