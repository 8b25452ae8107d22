--------------------------- MODULE MCCombinators ---------------------------
(* Combinators.tla for TLC: a combinator j over leaves a, b and one over j  *)
(* and a third leaf, in both orders.                                        *)
EXTENDS Combinators

CONSTANTS a, b, c, j, r

MCTrees      == {[n \in {j, r} |-> IF n = j THEN <<a, b>> ELSE t] : t \in {<<j, c>>, <<c, j>>}}
MCOneTree    == {t \in MCTrees : t[r] = <<j, c>>}
MCErased     == {"select2", "join2"}
MCKinds      == {"select2", "join2", "select2v", "join2v"}
MCNoCleanup  == [l \in Leaves |-> None]
MCCompletesB == [l \in Leaves |-> IF l = a THEN b ELSE None]
=============================================================================
