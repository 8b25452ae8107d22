------------------------------ MODULE MCFuture ------------------------------
(* Future.tla for TLC. Producers named h* run on the home loop, producers   *)
(* named t* on threads of their own.                                        *)
EXTENDS Future, TLC

CONSTANTS f1, f2, f3, h1, h2, h3, t1, t2, t3

ThreeFutures == {f1, f2, f3}
OneFuture    == {f1}

(* Three futures completed by threads, never dropped.                       *)
Threads      == {t1, t2, t3}
ThreadTarget == (t1 :> f1) @@ (t2 :> f2) @@ (t3 :> f3)

(* Two futures completed by loop callbacks, which may be dropped, and one   *)
(* completed by a thread, which may not.                                    *)
Mixed        == {h1, h2, t3}
MixedForeign == {t3}
MixedDrop    == {f1, f2}
MixedTarget  == (h1 :> f1) @@ (h2 :> f2) @@ (t3 :> f3)

(* One future completed by a thread while its owner may drop it.            *)
Racer        == {t1}
RacerTarget  == (t1 :> f1)

(* One future completed twice, by two threads.                              *)
Twice        == {t1, t2}
TwiceTarget  == (t1 :> f1) @@ (t2 :> f1)
None         == {}
=============================================================================
