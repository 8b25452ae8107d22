--------------------------- MODULE ExecutorProofs ---------------------------
(***************************************************************************)
(* Proofs about Executor.tla, for any sets of wakers and threads and any   *)
(* pipe capacity.  IInv is the inductive invariant: the checked invariants *)
(* are conjuncts of it, and Control adds where each thread may be and what *)
(* it holds there.                                                         *)
(***************************************************************************)
EXTENDS Executor, SequenceTheorems, TLAPS

(* Facts about queues kept as sequences. *)

(* Appending to the back of the second of two sequences appends to both.    *)
LEMMA ConcatAppend ==
  ASSUME NEW S, NEW s \in Seq(S), NEW t \in Seq(S), NEW e \in S
  PROVE  s \o Append(t, e) = Append(s \o t, e)
<1>1. s \o Append(t, e) \in Seq(S) /\ Append(s \o t, e) \in Seq(S)
  BY ConcatProperties
<1>2. Len(s \o Append(t, e)) = Len(Append(s \o t, e))
  BY ConcatProperties
<1>3. ASSUME NEW i \in 1 .. Len(s \o Append(t, e))
      PROVE  (s \o Append(t, e))[i] = Append(s \o t, e)[i]
  OBVIOUS
<1> QED
  BY <1>1, <1>2, <1>3, SeqEqual

(* Moving the head of the second sequence to the back of the first changes  *)
(* nothing: what is dequeued on one side is recorded on the other.          *)
LEMMA MoveHead ==
  ASSUME NEW S, NEW s \in Seq(S), NEW t \in Seq(S), t # <<>>
  PROVE  Append(s, Head(t)) \o Tail(t) = s \o t
<1>1. /\ Head(t) \in S /\ Tail(t) \in Seq(S) /\ Head(t) = t[1]
      /\ Len(Tail(t)) = Len(t) - 1
      /\ \A i \in 1 .. Len(Tail(t)) : Tail(t)[i] = t[i + 1]
  BY HeadTailProperties
<1>2. Append(s, Head(t)) \in Seq(S)
  BY <1>1
<1>3. Append(s, Head(t)) \o Tail(t) \in Seq(S) /\ s \o t \in Seq(S)
  BY <1>1, <1>2, ConcatProperties
<1>4. Len(Append(s, Head(t)) \o Tail(t)) = Len(s \o t)
  BY <1>1, <1>2, ConcatProperties
<1>5. ASSUME NEW i \in 1 .. Len(s \o t)
      PROVE  (Append(s, Head(t)) \o Tail(t))[i] = (s \o t)[i]
  BY <1>1, <1>2
<1> QED
  BY <1>3, <1>4, <1>5, SeqEqual

(* Removing the head of a non-empty first part of a concatenation.          *)
LEMMA HeadTailConcat ==
  ASSUME NEW S, NEW s \in Seq(S), NEW t \in Seq(S), s # <<>>
  PROVE  Head(s \o t) = Head(s) /\ Tail(s \o t) = Tail(s) \o t /\ s \o t # <<>>
<1>1. /\ s \o t \in Seq(S) /\ Len(s \o t) = Len(s) + Len(t) /\ Len(s) > 0
      /\ \A i \in 1 .. Len(s \o t) : (s \o t)[i] = IF i <= Len(s) THEN s[i] ELSE t[i - Len(s)]
  BY ConcatProperties, EmptySeq
<1>2. s \o t # <<>> /\ Head(s \o t) = Head(s)
  BY <1>1
<1>3. /\ Tail(s) \in Seq(S) /\ Tail(s \o t) \in Seq(S)
      /\ Len(Tail(s)) = Len(s) - 1 /\ Len(Tail(s \o t)) = Len(s \o t) - 1
      /\ \A i \in 1 .. Len(Tail(s)) : Tail(s)[i] = s[i + 1]
      /\ \A i \in 1 .. Len(Tail(s \o t)) : Tail(s \o t)[i] = (s \o t)[i + 1]
  BY <1>1, <1>2, HeadTailProperties
<1>4. Tail(s) \o t \in Seq(S) /\ Len(Tail(s \o t)) = Len(Tail(s) \o t)
  BY <1>1, <1>3, ConcatProperties
<1>5. ASSUME NEW i \in 1 .. Len(Tail(s \o t))
      PROVE  Tail(s \o t)[i] = (Tail(s) \o t)[i]
  BY <1>1, <1>3
<1>6. Tail(s \o t) = Tail(s) \o t
  BY <1>3, <1>4, <1>5, SeqEqual
<1> QED
  BY <1>2, <1>6

-----------------------------------------------------------------------------

(* The loop thread is outside Executor_schedule while it is inside          *)
(* _ex_drain, and `queue` is empty between its two steps in the critical    *)
(* section; a thread on its way to the list has a waker to link.            *)
Control ==
  /\ pc[Loop] # "out" => lpc \in {"idle", "wait", "waker"}
  /\ \A t \in Threads : pc[t] \in {"lock", "link"} => arg[t] \in Wakers
  /\ lpc = "clear" => queue = <<>>

IInv ==
  /\ TypeOK
  /\ Control
  /\ LockHeld
  /\ OneToken
  /\ NoLostWake
  /\ RecvNeverBlocks

-----------------------------------------------------------------------------
LEMMA InitInv == Init => IInv
  BY NoneAssumption, PipeAssumption
  DEF Init, IInv, TypeOK, Control, LockHeld, Critical, OneToken, Sending,
      Draining, NoLostWake, RecvNeverBlocks, Threads

(* Every step keeps the invariant. SMT is given the whole of IInv and one   *)
(* action at a time; the conjuncts that need more are split below it.       *)
LEMMA NextInv == IInv /\ [Next]_vars => IInv'
<1> SUFFICES ASSUME IInv, [Next]_vars PROVE IInv'
  OBVIOUS
<1> USE PipeAssumption, NoneAssumption
    DEF IInv, TypeOK, Control, LockHeld, Critical, OneToken, Sending, Draining,
        NoLostWake, RecvNeverBlocks,
        exVars, callVars, loopVars, hist, Goto, At, LoopTo, Threads,
        LockFree, NeedsWake, Link, Readable, AfterRead, NextNode, StillRunning
<1>1. ASSUME NEW t \in Threads, NEW w \in Wakers, Executor_schedule(t, w) PROVE IInv'
  BY <1>1 DEF Executor_schedule
<1>2. ASSUME NEW t \in Threads, ScheduleLock(t) PROVE IInv'
  BY <1>2 DEF ScheduleLock
<1>3. ASSUME NEW t \in Threads, ScheduleLink(t) PROVE IInv'
  BY <1>3 DEF ScheduleLink
<1>4. ASSUME NEW t \in Threads, ScheduleSignal(t) PROVE IInv'
  BY <1>4 DEF ScheduleSignal
<1>5. ASSUME NEW t \in Threads, ScheduleSend(t) PROVE IInv'
  BY <1>5 DEF ScheduleSend
<1>6. CASE Wake
  BY <1>6 DEF Wake
<1>7. CASE DrainRecv
  BY <1>7 DEF DrainRecv
<1>8. CASE DrainLock
  BY <1>8 DEF DrainLock
<1>9. CASE DrainTake
  BY <1>9 DEF DrainTake
<1>10. CASE DrainClear
  BY <1>10 DEF DrainClear
<1>11. CASE RunWaker
  BY <1>11 DEF RunWaker
<1>12. CASE WakerReturn
  BY <1>12 DEF WakerReturn
<1>13. CASE LoopTest
  BY <1>13 DEF LoopTest
<1>14. CASE Executor_run
  BY <1>14 DEF Executor_run
<1>15. CASE Executor_stop
  BY <1>15 DEF Executor_stop
<1>16. CASE Executor_free
  BY <1>16 DEF Executor_free
<1>17. CASE UNCHANGED vars
  BY <1>17 DEF vars
<1> QED
  BY <1>1, <1>2, <1>3, <1>4, <1>5, <1>6, <1>7, <1>8, <1>9, <1>10, <1>11, <1>12, <1>13, <1>14, <1>15, <1>16, <1>17 DEF Next, CallStep, LoopStep

(* The inductive invariant holds in every reachable state.                  *)
LEMMA InvariantHolds == Spec => []IInv
<1>1. Init => IInv
  BY InitInv
<1>2. IInv /\ [Next]_vars => IInv'
  BY NextInv
<1> QED
  BY <1>1, <1>2, PTL DEF Spec

(* Type correctness.                                                        *)
THEOREM TypeCorrect == Spec => []TypeOK
  BY InvariantHolds, PTL DEF IInv

(* ex.lock excludes: no two threads are inside its critical sections.       *)
THEOREM MutualExclusion == Spec => []LockHeld
  BY InvariantHolds, PTL DEF IInv

(* One wake byte covers the whole queue, so the pipe never fills.           *)
THEOREM SingleToken == Spec => []OneToken
  BY InvariantHolds, PTL DEF IInv

(* The loop never sleeps through a linked waker.                            *)
THEOREM NoLostWakeup == Spec => []NoLostWake
  BY InvariantHolds, PTL DEF IInv

(* The blocking read of _ex_drain finds a byte.                             *)
THEOREM DrainNeverBlocks == Spec => []RecvNeverBlocks
  BY InvariantHolds, PTL DEF IInv

(* The four together.                                                       *)
THEOREM PipeSoundness == Spec => []PipeSound
  BY TypeCorrect, MutualExclusion, SingleToken, DrainNeverBlocks, PTL DEF PipeSound

-----------------------------------------------------------------------------
(* Order. A drain takes the list only when its batch is empty, and nothing  *)
(* is dropped, or linked after a drop, before the executor is freed.        *)
OrderInv ==
  /\ Fifo
  /\ lpc \notin {"clear", "batch", "waker"} => batch = <<>>
  /\ lpc # "freed" => dropped = <<>>
  /\ lpc = "freed" => \A t \in Threads : pc[t] = "out"

LEMMA InitOrder == Init => OrderInv
  BY EmptySeq DEF Init, OrderInv, Fifo

LEMMA NextOrder == IInv /\ OrderInv /\ [Next]_vars => OrderInv'
<1> SUFFICES ASSUME IInv, OrderInv, [Next]_vars PROVE OrderInv'
  OBVIOUS
<1> USE DEF IInv, TypeOK, Control, OrderInv, Fifo, exVars, callVars, loopVars, hist,
            Goto, At, LoopTo, Threads, LockFree, NeedsWake, Link, Readable, AfterRead,
            NextNode, StillRunning
<1>1. ASSUME NEW t \in Threads, NEW w \in Wakers, Executor_schedule(t, w) PROVE OrderInv'
  BY <1>1 DEF Executor_schedule
<1>2. ASSUME NEW t \in Threads, ScheduleLock(t) PROVE OrderInv'
  BY <1>2 DEF ScheduleLock
<1>3. ASSUME NEW t \in Threads, ScheduleLink(t) PROVE OrderInv'
  <2> DEFINE done == ran \o batch
  <2>1. done \in Seq(Wakers) /\ arg[t] \in Wakers /\ dropped = <<>>
    BY <1>3, ConcatProperties DEF ScheduleLink
  <2>2. linked = done \o queue
    BY <2>1, ConcatProperties, ConcatEmptySeq
  <2>3. done \o Append(queue, arg[t]) = Append(linked, arg[t])
    BY <2>1, <2>2, ConcatAppend
  <2>4. linked' = done \o queue' /\ done' = done /\ dropped' = <<>>
    BY <1>3, <2>1, <2>3 DEF ScheduleLink
  <2>5. done \o queue' \in Seq(Wakers)
    BY <1>3, <2>1, ConcatProperties DEF ScheduleLink
  <2>6. Fifo'
    BY <2>4, <2>5, ConcatEmptySeq
  <2> QED
    BY <1>3, <2>1, <2>6 DEF ScheduleLink
<1>4. ASSUME NEW t \in Threads, ScheduleSignal(t) PROVE OrderInv'
  BY <1>4 DEF ScheduleSignal
<1>5. ASSUME NEW t \in Threads, ScheduleSend(t) PROVE OrderInv'
  BY <1>5 DEF ScheduleSend
<1>6. CASE Wake
  BY <1>6 DEF Wake
<1>7. CASE DrainRecv
  BY <1>7 DEF DrainRecv
<1>8. CASE DrainLock
  BY <1>8 DEF DrainLock
<1>9. CASE DrainTake
  <2>1. batch = <<>> /\ batch' = queue /\ queue' = <<>> /\ ran' = ran /\ linked' = linked
    BY <1>9 DEF DrainTake
  <2>2. ran \o batch \o queue = ran \o batch' \o queue'
    BY <2>1, ConcatEmptySeq, ConcatProperties
  <2> QED
    BY <1>9, <2>1, <2>2 DEF DrainTake
<1>10. CASE DrainClear
  BY <1>10 DEF DrainClear
<1>11. CASE RunWaker
  <2>1. ran' \o batch' = ran \o batch
    BY <1>11, MoveHead DEF RunWaker
  <2> QED
    BY <1>11, <2>1 DEF RunWaker
<1>12. CASE WakerReturn
  BY <1>12 DEF WakerReturn
<1>13. CASE LoopTest
  BY <1>13 DEF LoopTest
<1>14. CASE Executor_run
  BY <1>14 DEF Executor_run
<1>15. CASE Executor_stop
  BY <1>15 DEF Executor_stop
<1>16. CASE Executor_free
  <2>1. dropped = <<>> /\ dropped' = queue /\ queue' = <<>> /\ UNCHANGED <<ran, batch, linked>>
    BY <1>16 DEF Executor_free
  <2>2. ran \o batch \in Seq(Wakers)
    BY ConcatProperties
  <2>3. ran \o batch \o queue \o dropped = ran \o batch \o queue' \o dropped'
    BY <2>1, <2>2, ConcatEmptySeq, ConcatProperties
  <2> QED
    BY <1>16, <2>1, <2>3 DEF Executor_free
<1>17. CASE UNCHANGED vars
  BY <1>17 DEF vars
<1> QED
  BY <1>1, <1>2, <1>3, <1>4, <1>5, <1>6, <1>7, <1>8, <1>9, <1>10, <1>11, <1>12,
     <1>13, <1>14, <1>15, <1>16, <1>17 DEF Next, CallStep, LoopStep

(* Wakers start in the order in which they were linked, whatever the        *)
(* threads and batches; none is lost, skipped or run twice.                 *)
THEOREM FifoHolds == Spec => []Fifo
<1>1. Init => IInv /\ OrderInv
  BY InitInv, InitOrder
<1>2. (IInv /\ OrderInv) /\ [Next]_vars => (IInv /\ OrderInv)'
  BY NextInv, NextOrder
<1>3. OrderInv => Fifo
  BY DEF OrderInv
<1> QED
  BY <1>1, <1>2, <1>3, PTL DEF Spec

-----------------------------------------------------------------------------
(* Refinement: linking a waker is Schedule, starting one is Run, freeing    *)
(* the executor is Drop, and every other step leaves the abstract queue     *)
(* batch \o queue as it is.                                                 *)
LEMMA StepRefines ==
  IInv /\ OrderInv /\ [Next]_vars => [WQ!Next]_(WQ!vars)
<1> SUFFICES ASSUME IInv, OrderInv, [Next]_vars PROVE [WQ!Next]_(WQ!vars)
  OBVIOUS
<1> DEFINE pending == batch \o queue
<1>0. /\ queue \in Seq(Wakers) /\ batch \in Seq(Wakers)
      /\ \A t \in Threads : pc[t] = "link" => arg[t] \in Wakers
      /\ lpc \notin {"clear", "batch", "waker"} => batch = <<>>
  BY DEF IInv, TypeOK, Control, OrderInv
<1> USE DEF exVars, callVars, loopVars, hist, At, LoopTo, Link, NextNode
<1>1. ASSUME NEW t \in Threads, ScheduleLink(t) PROVE WQ!Next
  <2>1. /\ batch' = batch /\ queue' = Append(queue, arg[t]) /\ ran' = ran
        /\ arg[t] \in Wakers
    BY <1>0, <1>1 DEF ScheduleLink
  <2>2. pending' = Append(pending, arg[t])
    BY <1>0, <2>1, ConcatAppend
  <2>3. WQ!Schedule(arg[t])
    BY <2>1, <2>2 DEF WQ!Schedule
  <2> QED
    BY <2>1, <2>3 DEF WQ!Next
<1>2. CASE RunWaker
  <2>1. /\ batch # <<>> /\ batch' = Tail(batch) /\ queue' = queue
        /\ ran' = Append(ran, Head(batch))
    BY <1>2 DEF RunWaker
  <2>2. /\ pending # <<>> /\ pending' = Tail(pending)
        /\ ran' = Append(ran, Head(pending))
    BY <1>0, <2>1, HeadTailConcat
  <2> QED
    BY <2>2 DEF WQ!Run, WQ!Next
<1>3. CASE Executor_free
  <2>1. batch' = <<>> /\ queue' = <<>> /\ ran' = ran
    BY <1>0, <1>3 DEF Executor_free
  <2>2. pending' = <<>>
    BY <2>1, EmptySeq, ConcatEmptySeq
  <2> QED
    BY <2>1, <2>2 DEF WQ!Drop, WQ!Next
<1>4. CASE DrainTake
  <2>1. batch = <<>> /\ batch' = queue /\ queue' = <<>> /\ ran' = ran
    BY <1>0, <1>4 DEF DrainTake
  <2>2. pending' = pending
    BY <1>0, <2>1, ConcatEmptySeq
  <2> QED
    BY <2>1, <2>2 DEF WQ!vars
<1>5. CASE \/ \E t \in Threads, w \in Wakers : Executor_schedule(t, w)
           \/ \E t \in Threads : ScheduleLock(t) \/ ScheduleSignal(t) \/ ScheduleSend(t)
           \/ Wake \/ DrainRecv \/ DrainLock \/ DrainClear \/ WakerReturn
           \/ LoopTest \/ Executor_run \/ Executor_stop \/ UNCHANGED vars
  <2>1. UNCHANGED <<batch, queue, ran>>
    BY <1>5 DEF Executor_schedule, ScheduleLock, ScheduleSignal, ScheduleSend,
                Wake, DrainRecv, DrainLock, DrainClear, WakerReturn, LoopTest,
                Executor_run, Executor_stop, vars
  <2> QED
    BY <2>1 DEF WQ!vars
<1> QED
  BY <1>1, <1>2, <1>3, <1>4, <1>5 DEF Next, CallStep, LoopStep

(* The executor, with its lock, pipe and threads, implements the abstract   *)
(* queue of wakers.                                                         *)
THEOREM Implementation == Spec => ImplementsWakerQueue
<1>1. Init => IInv /\ OrderInv
  BY InitInv, InitOrder
<1>2. (IInv /\ OrderInv) /\ [Next]_vars => (IInv /\ OrderInv)'
  BY NextInv, NextOrder
<1>3. Init => WQ!Init
  BY ConcatEmptySeq, EmptySeq DEF Init, WQ!Init
<1>4. IInv /\ OrderInv /\ [Next]_vars => [WQ!Next]_(WQ!vars)
  BY StepRefines
<1> QED
  BY <1>1, <1>2, <1>3, <1>4, PTL DEF Spec, ImplementsWakerQueue, WQ!Spec
=============================================================================
