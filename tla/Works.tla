------------------------------- MODULE Works --------------------------------
(* One work of an algorithm: it is chosen, then done, once.                *)

VARIABLES work, result

Pending == [pending |-> TRUE]

Done(op) == work.op = op /\ result # Pending
=============================================================================
