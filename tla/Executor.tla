------------------------------ MODULE Executor ------------------------------
(***************************************************************************)
(* stdlib/executor.esk: a thread that owns an event loop and a queue of    *)
(* wakers.  Any thread may call Executor_schedule, which links a node      *)
(* under ex.lock and writes one byte to the self-pipe when none is         *)
(* outstanding (ex.signaled).  That byte wakes the loop thread, which      *)
(* takes the whole list under the lock and runs it outside the lock.       *)
(*                                                                         *)
(* The list head/tail is a sequence; the loop's other descriptors and      *)
(* timers appear only as callbacks that schedule or stop (EventLoop.tla    *)
(* models them).  Each access inside a critical section is a step.         *)
(***************************************************************************)
EXTENDS Integers, Sequences

CONSTANTS
  Wakers,        \* the closures passed to Executor_schedule
  Schedulers,    \* threads other than the executor's own
  Loop,          \* the executor's own thread
  NoThread,      \* value of ex.lock when it is free
  NoWaker,       \* a thread's argument outside Executor_schedule
  PipeCap        \* bytes the pipe holds before a non-blocking write fails

Threads == Schedulers \cup {Loop}

ASSUME NoneAssumption == NoThread \notin Threads /\ NoWaker \notin Wakers
ASSUME PipeAssumption == PipeCap \in Nat \ {0}

VARIABLES
  queue,      \* ex.head .. ex.tail
  signaled,   \* ex.signaled
  lock,       \* the owner of ex.lock
  pipe,       \* bytes in the self-pipe
  running,    \* lp.running
  pc,         \* per thread, where it is in Executor_schedule ("out": not in it)
  arg,        \* per thread, the waker it is scheduling
  lpc,        \* where the loop thread is in EventLoop_run / _ex_drain
  batch,      \* the list _ex_drain has taken and not yet run
  fresh,      \* wakers not passed to Executor_schedule yet
  linked,     \* history: wakers in the order they were linked
  ran,        \* history: wakers in the order they were started
  dropped     \* history: wakers Executor_free released unrun

exVars   == <<queue, signaled, lock, pipe>>
callVars == <<pc, arg, fresh>>
loopVars == <<running, lpc, batch>>
hist     == <<linked, ran, dropped>>
vars     == <<exVars, callVars, loopVars, hist>>

Init ==
  /\ queue = <<>> /\ signaled = 0 /\ lock = NoThread /\ pipe = 0
  /\ running = 0 /\ lpc = "idle" /\ batch = <<>>
  /\ pc = [t \in Threads |-> "out"]
  /\ arg = [t \in Threads |-> NoWaker]
  /\ fresh = Wakers
  /\ linked = <<>> /\ ran = <<>> /\ dropped = <<>>

-----------------------------------------------------------------------------
(* Executor_schedule. The loop thread calls it from main before or after    *)
(* Executor_run ("idle"), from another descriptor's callback or a timer     *)
(* ("wait"), or from a waker.                                               *)

Goto(t, l) == pc' = [pc EXCEPT ![t] = l]

(* Mutants of the operators below: lock() dropped, the wake test always     *)
(* true or always false, a node linked at the head.                         *)
Yes     == TRUE
No      == FALSE
Push(w) == <<w>> \o queue

LockFree  == lock = NoThread
NeedsWake == signaled = 0
Link(w)   == Append(queue, w)

Executor_schedule(t, w) ==
  /\ pc[t] = "out" /\ lpc # "freed"
  /\ t = Loop => lpc \in {"idle", "wait", "waker"}
  /\ w \in fresh /\ fresh' = fresh \ {w}
  /\ arg' = [arg EXCEPT ![t] = w]
  /\ Goto(t, "lock")
  /\ UNCHANGED <<exVars, loopVars, hist>>

ScheduleLock(t) ==
  /\ pc[t] = "lock"
  /\ LockFree /\ lock' = t
  /\ Goto(t, "link")
  /\ UNCHANGED <<queue, signaled, pipe, arg, fresh, loopVars, hist>>

ScheduleLink(t) ==
  /\ pc[t] = "link"
  /\ queue' = Link(arg[t])
  /\ linked' = Append(linked, arg[t])
  /\ arg' = [arg EXCEPT ![t] = NoWaker]
  /\ Goto(t, "signal")
  /\ UNCHANGED <<signaled, lock, pipe, fresh, loopVars, ran, dropped>>

(* wake = (ex.signaled == 0) decides whether this thread owes a byte.       *)
ScheduleSignal(t) ==
  /\ pc[t] = "signal"
  /\ signaled' = 1
  /\ lock' = NoThread
  /\ Goto(t, IF NeedsWake THEN "send" ELSE "out")
  /\ UNCHANGED <<queue, pipe, arg, fresh, loopVars, hist>>

(* _ex_wake_send: the write end is O_NONBLOCK and the result is ignored, so *)
(* a byte that does not fit is lost.                                        *)
ScheduleSend(t) ==
  /\ pc[t] = "send"
  /\ pipe' = IF pipe < PipeCap THEN pipe + 1 ELSE pipe
  /\ Goto(t, "out")
  /\ UNCHANGED <<queue, signaled, lock, arg, fresh, loopVars, hist>>

-----------------------------------------------------------------------------
(* The loop thread. It takes no step of its own inside Executor_schedule.   *)

(* Mutants: 64 bytes counted out of the pipe, `n = next` forgotten.         *)
Minus64 == pipe - 64
Same    == batch

Readable     == pipe > 0
AfterRead    == IF pipe > 64 THEN pipe - 64 ELSE 0
NextNode     == Tail(batch)
StillRunning == running # 0

At(l)     == lpc = l /\ pc[Loop] = "out"
LoopTo(l) == lpc' = l

Executor_run ==
  /\ At("idle") /\ LoopTo("wait")
  /\ running' = 1
  /\ UNCHANGED <<exVars, callVars, batch, hist>>

(* _el_wait reports wake_r readable; EventLoop_run calls _ex_drain.         *)
Wake ==
  /\ At("wait") /\ LoopTo("recv")
  /\ Readable
  /\ UNCHANGED <<exVars, callVars, running, batch, hist>>

(* _ex_wake_recv: one blocking read, of up to 64 bytes.                     *)
DrainRecv ==
  /\ At("recv") /\ LoopTo("dlock")
  /\ pipe > 0
  /\ pipe' = AfterRead
  /\ UNCHANGED <<queue, signaled, lock, callVars, running, batch, hist>>

DrainLock ==
  /\ At("dlock") /\ LoopTo("take")
  /\ LockFree /\ lock' = Loop
  /\ UNCHANGED <<queue, signaled, pipe, callVars, running, batch, hist>>

DrainTake ==
  /\ At("take") /\ LoopTo("clear")
  /\ batch' = queue
  /\ queue' = <<>>
  /\ UNCHANGED <<signaled, lock, pipe, callVars, running, hist>>

DrainClear ==
  /\ At("clear") /\ LoopTo("batch")
  /\ signaled' = 0
  /\ lock' = NoThread
  /\ UNCHANGED <<queue, pipe, callVars, running, batch, hist>>

RunWaker ==
  /\ At("batch") /\ LoopTo("waker")
  /\ batch # <<>>
  /\ ran' = Append(ran, Head(batch))
  /\ batch' = NextNode
  /\ UNCHANGED <<exVars, callVars, running, linked, dropped>>

WakerReturn ==
  /\ At("waker") /\ LoopTo("batch")
  /\ UNCHANGED <<exVars, callVars, running, batch, hist>>

(* A waker, or another callback of the loop, calls Executor_stop. After     *)
(* another callback the rest of the iteration leads to the test.            *)
Executor_stop ==
  /\ \/ At("waker") /\ LoopTo("waker")
     \/ At("wait") /\ LoopTo("batch")
  /\ running' = 0
  /\ UNCHANGED <<exVars, callVars, batch, hist>>

(* The batch is done: EventLoop_run tests lp.running.                       *)
LoopTest ==
  /\ At("batch") /\ LoopTo(IF StillRunning THEN "wait" ELSE "idle")
  /\ batch = <<>>
  /\ UNCHANGED <<exVars, callVars, running, batch, hist>>

(* Executor_free, once Executor_run has returned and no thread is inside    *)
(* Executor_schedule: it takes no lock.                                     *)
Executor_free ==
  /\ At("idle") /\ LoopTo("freed")
  /\ \A t \in Threads : pc[t] = "out"
  /\ dropped' = queue
  /\ queue' = <<>>
  /\ UNCHANGED <<signaled, lock, pipe, callVars, running, batch, linked, ran>>

-----------------------------------------------------------------------------
CallStep(t) ==
  \/ ScheduleLock(t) \/ ScheduleLink(t) \/ ScheduleSignal(t) \/ ScheduleSend(t)

LoopStep ==
  \/ Wake \/ DrainRecv \/ DrainLock \/ DrainTake \/ DrainClear
  \/ RunWaker \/ WakerReturn \/ LoopTest

Next ==
  \/ \E t \in Threads, w \in Wakers : Executor_schedule(t, w)
  \/ \E t \in Threads : CallStep(t)
  \/ LoopStep
  \/ Executor_run \/ Executor_stop \/ Executor_free

Spec == Init /\ [][Next]_vars

(* A thread inside Executor_schedule and the loop thread inside             *)
(* EventLoop_run keep running, and a thread that waits for ex.lock, which   *)
(* is held for a few instructions, gets it in the end. Nobody has to call   *)
(* Executor_schedule, Executor_run, Executor_stop or Executor_free.         *)
FairSpec ==
  /\ Spec
  /\ WF_vars(LoopStep) /\ SF_vars(DrainLock)
  /\ \A t \in Threads : WF_vars(CallStep(t)) /\ SF_vars(ScheduleLock(t))

-----------------------------------------------------------------------------
TypeOK ==
  /\ queue \in Seq(Wakers)
  /\ signaled \in {0, 1}
  /\ lock \in Threads \cup {NoThread}
  /\ pipe \in 0..PipeCap
  /\ running \in {0, 1}
  /\ pc \in [Threads -> {"out", "lock", "link", "signal", "send"}]
  /\ arg \in [Threads -> Wakers \cup {NoWaker}]
  /\ lpc \in {"idle", "wait", "recv", "dlock", "take", "clear", "batch", "waker", "freed"}
  /\ batch \in Seq(Wakers)
  /\ fresh \subseteq Wakers
  /\ linked \in Seq(Wakers) /\ ran \in Seq(Wakers) /\ dropped \in Seq(Wakers)

(* ex.lock protects head, tail and signaled: at most one thread is inside   *)
(* a critical section of Executor_schedule or _ex_drain.                    *)
Critical(t) ==
  pc[t] \in {"link", "signal"} \/ (t = Loop /\ lpc \in {"take", "clear"})

LockHeld == \A t \in Threads : Critical(t) => lock = t

(* The wake byte is a single token, worth `signaled`: it is owed by one     *)
(* scheduler past its critical section, or in the pipe, or read by a drain  *)
(* that has not yet cleared `signaled`. So "the pipe never fills"           *)
(* (executor.esk:81) and no byte is ever lost in it.                        *)
Sending(t) == pc[t] = "send"
Draining   == lpc \in {"dlock", "take", "clear"}

OneToken ==
  /\ pipe <= 1
  /\ signaled = 0 => pipe = 0 /\ ~Draining /\ \A t \in Threads : ~Sending(t)
  /\ signaled = 1 => pipe = 1 \/ Draining \/ \E t \in Threads : Sending(t)
  /\ pipe = 1 => ~Draining
  /\ \A t \in Threads : Sending(t) => pipe = 0 /\ ~Draining
  /\ \A s, t \in Threads : Sending(s) /\ Sending(t) => s = t

(* No lost wake-up: a linked waker that no drain has taken is covered by    *)
(* the token, or by the thread that linked it and is about to raise it, so  *)
(* the loop cannot sleep through it.                                        *)
NoLostWake ==
  queue # <<>> => signaled = 1 \/ \E t \in Threads : pc[t] = "signal"

(* _ex_drain's read is blocking: the loop thread enters it only with a byte *)
(* in the pipe, so it never hangs inside that callback.                     *)
RecvNeverBlocks == lpc = "recv" => pipe > 0

(* The lock, the flag and the pipe agree: the critical sections exclude     *)
(* each other, there is one wake byte at most and no drain waits for one.   *)
PipeSound == TypeOK /\ LockHeld /\ OneToken /\ RecvNeverBlocks

(* Wakers start in the order their nodes were linked, across threads and    *)
(* batches; none is skipped, duplicated or lost, and those Executor_free    *)
(* releases are the ones that never started.                                *)
Fifo == linked = ran \o batch \o queue \o dropped

(* A linked waker is started, unless the loop is stopped: the loop never    *)
(* parks for good with work in the queue.                                   *)
InSeq(w, s) == \E i \in DOMAIN s : s[i] = w

EventuallyRun ==
  \A w \in Wakers : InSeq(w, linked) ~> (InSeq(w, ran) \/ lpc \in {"idle", "freed"})

(* Executor_stop called on the loop thread makes Executor_run return, even  *)
(* when other threads keep scheduling.                                      *)
EventuallyStops == running = 0 ~> lpc \in {"idle", "freed"}

WQ == INSTANCE WakerQueue WITH pending <- batch \o queue

(* The executor implements the abstract FIFO queue of wakers.               *)
ImplementsWakerQueue == WQ!Spec
=============================================================================
