---------------------------- MODULE MCCoroutine -----------------------------
(* Coroutine.tla with a task that awaits a task, a second task beside them, *)
(* and every mix of plain and awaiting cleanups.                            *)
EXTENDS Coroutine

CONSTANTS a, b, c, la, lb, lc, lx

MCCallee == [t \in {a, b, c} |-> CASE t = a -> b [] t = b -> lb [] t = c -> lc]

MCPrograms ==
  {[t \in {a, b, c} |-> CASE t = a -> p [] t = b -> q [] t = c -> r] :
     p \in {<<>>, <<Plain>>, <<la>>, <<Plain, la>>},
     q \in {<<>>, <<Plain>>, <<lx, Plain>>, <<Plain, lx>>},
     r \in {<<>>, <<Plain>>}}
=============================================================================
