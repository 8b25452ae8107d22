----------------------------- MODULE WakerQueue -----------------------------
(***************************************************************************)
(* What an Executor promises, with no threads, lock or pipe: a waker that  *)
(* has been scheduled waits in one queue, wakers leave it in the order in  *)
(* which they were scheduled, one at a time, and a waker still in it when  *)
(* the executor is freed is dropped without being run.  Executor.tla is    *)
(* shown to implement this module.                                         *)
(***************************************************************************)
EXTENDS Sequences

CONSTANT Wakers            \* the escaping closures handed to Executor_schedule

VARIABLES
  pending,                 \* wakers scheduled and not yet started, oldest first
  ran                      \* wakers started, in order

vars == <<pending, ran>>

Init ==
  /\ pending = <<>>
  /\ ran = <<>>

Schedule(w) ==
  /\ pending' = Append(pending, w)
  /\ UNCHANGED ran

Run ==
  /\ pending # <<>>
  /\ ran' = Append(ran, Head(pending))
  /\ pending' = Tail(pending)

Drop ==
  /\ pending' = <<>>
  /\ UNCHANGED ran

Next == (\E w \in Wakers : Schedule(w)) \/ Run \/ Drop

Spec == Init /\ [][Next]_vars
=============================================================================
