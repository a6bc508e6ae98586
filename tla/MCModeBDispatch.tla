-------------------------- MODULE MCModeBDispatch --------------------------
(* Instances of ModeBDispatch: a SERP surface that may need a second search *)
(* and a browser surface. Work lists are grouped by surface, as in the code. *)
EXTENDS ModeBDispatch, TLC

CONSTANTS a1, a2, a3, b1, aio, web

On == [i \in Items |-> IF i = b1 THEN web ELSE aio]
Prices == (aio :> 1 @@ web :> 2)
Token == (aio :> 1 @@ web :> 0)

\* A question may be paused between two attempts.
Edited == {<<a1, a2, a3, b1>>, <<a1, a3, b1>>}
=============================================================================
