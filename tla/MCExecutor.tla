----------------------------- MODULE MCExecutor -----------------------------
(* Executor.tla for TLC: a waker can be linked by a foreign thread, by main *)
(* around Executor_run, by another callback and by another waker. The pipe  *)
(* holds two bytes, so OneToken is not true for lack of room.               *)
EXTENDS Executor

CONSTANTS t1, t2, w1, w2, w3, w4

MCWakers     == {w1, w2, w3, w4}
MCSchedulers == {t1, t2}
=============================================================================
