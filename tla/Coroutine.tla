----------------------------- MODULE Coroutine ------------------------------
(***************************************************************************)
(* What sema/async_transform.cpp makes of an async function, over the      *)
(* futures of stdlib/future.esk.  A task's body awaits one future (a leaf  *)
(* or another task) with cleanups pending (defers and finally blocks, the  *)
(* innermost last); after it they run in reverse and the future completes. *)
(* A cleanup may await a leaf itself.  Dropping a suspended task cascades  *)
(* to what it awaits, then runs the cleanups still pending; when one of    *)
(* them awaits, the frame is handed over (DETACHED, ORPHANED, CLEANED).    *)
(*                                                                         *)
(* `k` is the frame's `st`: 0 once no cleanup is left, k inside cleanup k, *)
(* and one more than the number of cleanups at the body's await.  One      *)
(* thread; `todo` is its call stack, as in Combinators.tla.                *)
(***************************************************************************)
EXTENDS Integers, Sequences

CONSTANTS
  Tasks, Leaves, Roots,   \* calls of async functions, the awaited leaf
                          \* futures, and the tasks the program itself calls
  Callee,                 \* per task, what its body awaits
  Programs,               \* the possible cleanups of the tasks
  Plain,                  \* a cleanup without an await
  None

Nodes == Tasks \cup Leaves

ASSUME CalleeAssumption   == Roots \subseteq Tasks /\ Tasks \cap Leaves = {} /\ Callee \in [Tasks -> Nodes]
ASSUME ProgramsAssumption == \A p \in Programs : p \in [Tasks -> Seq(Leaves \cup {Plain})]
ASSUME NoneAssumption     == {Plain, None} \cap Nodes = {}

(* A node is one call: it is made at one place, a root by the program only, *)
(* and a task does not await itself, through however many others.           *)
Site(p, t, k) == IF k > Len(p[t]) THEN Callee[t] ELSE p[t][k]
ASSUME ForestAssumption ==
  /\ \A p \in Programs : \A t, u \in Tasks : \A j \in 1 .. Len(p[t]) + 1, k \in 1 .. Len(p[u]) + 1 :
       /\ Site(p, t, j) \notin Roots
       /\ Site(p, t, j) = Site(p, u, k) /\ Site(p, t, j) \in Nodes => t = u /\ j = k
  /\ \A S \in SUBSET Tasks : S # {} => \E t \in S : Callee[t] \notin S

PENDING   == 0
WAITING   == 1
READY     == 2
CANCELLED == 3
DETACHED  == 4
ORPHANED  == 5
CLEANED   == 6

VARIABLES
  cleanups,  \* per task, its pending cleanups at the body's await
  fut,       \* per future: state and waker
  frame,     \* per task: k, mode, awaiting
  live,      \* blocks allocated and not freed
  reg,       \* leaves the event loop will complete
  fresh,     \* roots not called yet
  mine,      \* futures the program holds
  ran,       \* per task, the cleanups it began, in order
  todo       \* operations still to run

vars == <<cleanups, fut, frame, live, reg, fresh, mine, ran, todo>>

Fut(n)     == <<"fut", n>>      \* a future; a task's is embedded in its frame
Drp(n)     == <<"drp", n>>      \* the env of its on_drop
Resume(n)  == <<"resume", n>>   \* the closure that resumes the awaiter of n
Reap(n)    == <<"reap", n>>     \* spawn's waker
Closure(t) == <<"env", t>>      \* a closure local owned by the frame
Env(w)     == {w} \ {None}

ASSUME NullAssumption == \A n \in Nodes : None \notin {Fut(n), Drp(n), Resume(n), Reap(n), Closure(n)}

Last(t)    == Len(cleanups[t])
Awaited(t) == IF frame[t].k > Last(t) THEN Callee[t] ELSE cleanups[t][frame[t].k]
Awaiter(n) == CHOOSE t \in Tasks : frame[t].awaiting = n

Init ==
  /\ cleanups \in Programs
  /\ fut = [n \in Nodes |-> [state |-> PENDING, waker |-> None]]
  /\ frame = [t \in Tasks |-> [k |-> Len(cleanups[t]) + 1, mode |-> "new", awaiting |-> None]]
  /\ live = {} /\ reg = {}
  /\ fresh = Roots /\ mine = {}
  /\ ran = [t \in Tasks |-> <<>>]
  /\ todo = <<>>

-----------------------------------------------------------------------------
Op(name, x)   == <<name, x>>
Running(name) == todo # <<>> /\ Head(todo)[1] = name
Arg           == Head(todo)[2]
Then(ops)     == todo' = ops \o Tail(todo)
InUser        == todo = <<>> \/ Running("user")
Start(ops)    == todo' = ops \o todo
SetState(n, s) == fut' = [fut EXCEPT ![n].state = s]

(* The blocks an operation reads, writes or frees.                          *)
Uses(op) ==
  LET n == op[2] IN
  CASE op[1] = "poll"      -> {Fut(n), Fut(Awaited(n))}
    [] op[1] = "extract"   -> {Fut(n), Fut(Awaited(n)), Drp(Awaited(n))} \cup Env(fut[Awaited(n)].waker)
    [] op[1] = "run"       -> {Fut(n)} \cup IF frame[n].k = 0 THEN {Closure(n)} ELSE {}
    [] op[1] \in {"publish", "complete", "end", "drop"} -> {Fut(n)}
    [] op[1] \in {"on_drop", "cleanup"} -> {Fut(n), Drp(n)}
    [] op[1] = "release"   -> {Fut(n), Drp(n)} \cup Env(fut[n].waker)
    [] op[1] = "reap"      -> {Fut(n), Drp(n), Reap(n)}
    [] OTHER -> {}

(* Mutants: the interrupted cleanup is run again by a drop, a detached      *)
(* cleanup never frees its frame, Future_drop frees every frame, the        *)
(* cancelled path publishes, the closure locals are not freed, a plain      *)
(* cleanup leaves the state one too far.                                    *)
FromCurrent(t)   == IF frame[t].k > Last(t) THEN Last(t) ELSE frame[t].k
NeverFrees(t)    == TRUE
FreesAlways(n)   == FALSE
PublishesToo(t)  == <<Op("publish", t)>>
KeepsClosure(t)  == {}
SkipsOne(t)      == frame[t].k - 2

(* `let x = await E`: E makes the future, which is then polled.             *)
Await(t, n) == <<Op("call", n), Op("poll", t)>>

(* The constructor of an async function runs the body up to its await.      *)
CallTask ==
  /\ Running("call") /\ Arg \in Tasks
  /\ live' = live \cup {Fut(Arg), Drp(Arg), Closure(Arg)}
  /\ frame' = [frame EXCEPT ![Arg].mode = "running"]
  /\ Then(Await(Arg, Callee[Arg]))
  /\ UNCHANGED <<cleanups, fut, reg, fresh, mine, ran>>

(* A leaf is registered with the loop, or READY at once.                    *)
CallLeaf ==
  /\ Running("call") /\ Arg \in Leaves
  /\ live' = live \cup {Fut(Arg), Drp(Arg)}
  /\ \/ reg' = reg \cup {Arg} /\ UNCHANGED fut
     \/ SetState(Arg, READY) /\ UNCHANGED reg
  /\ Then(<<>>)
  /\ UNCHANGED <<cleanups, frame, fresh, mine, ran>>

Poll ==
  /\ Running("poll")
  /\ LET n == Awaited(Arg) IN
       /\ live' = live \cup {Resume(n)}
       /\ IF fut[n].state = PENDING
            THEN /\ fut' = [fut EXCEPT ![n] = [state |-> WAITING, waker |-> Resume(n)]]
                 /\ frame' = [frame EXCEPT ![Arg].awaiting = n]
                 /\ Then(<<>>)
            ELSE /\ fut' = [fut EXCEPT ![n].waker = Resume(n)]
                 /\ Then(<<Op("extract", Arg)>>)
                 /\ UNCHANGED frame
  /\ UNCHANGED <<cleanups, reg, fresh, mine, ran>>

(* The state after an await: take the value, free the resume closure and    *)
(* the future, and go on to the cleanups.                                   *)
Extract ==
  /\ Running("extract")
  /\ live' = live \ {Fut(Awaited(Arg)), Drp(Awaited(Arg)), fut[Awaited(Arg)].waker}
  /\ frame' = [frame EXCEPT ![Arg].awaiting = None, ![Arg].k = @ - 1]
  /\ Then(<<Op("run", Arg)>>)
  /\ UNCHANGED <<cleanups, fut, reg, fresh, mine, ran>>

(* A cleanup without an await runs in place, calling what it likes; one     *)
(* that awaits suspends the frame.                                          *)
NextCleanup(t) == frame[t].k - 1

Run ==
  /\ Running("run") /\ frame[Arg].k > 0
  /\ ran' = [ran EXCEPT ![Arg] = Append(@, frame[Arg].k)]
  /\ IF Awaited(Arg) = Plain
       THEN /\ frame' = [frame EXCEPT ![Arg].k = NextCleanup(Arg)]
            /\ Then(<<Op("user", Arg), Op("run", Arg)>>)
       ELSE /\ Then(Await(Arg, Awaited(Arg)))
            /\ UNCHANGED frame
  /\ UNCHANGED <<cleanups, fut, live, reg, fresh, mine>>

(* What excFree releases.                                                   *)
OwnedBy(t) == {Closure(t)}

(* The end of the frame releases what it owns, then completes its future,   *)
(* or, on the cancelled path, returns to Future_drop or ends the detached   *)
(* cleanup.                                                                 *)
CancelledEnd(t) == IF frame[t].mode = "detached" THEN <<Op("end", t)>> ELSE <<>>

Finish ==
  /\ Running("run") /\ frame[Arg].k = 0
  /\ live' = live \ OwnedBy(Arg)
  /\ Then(IF frame[Arg].mode = "running" THEN <<Op("publish", Arg)>> ELSE CancelledEnd(Arg))
  /\ UNCHANGED <<cleanups, fut, frame, reg, fresh, mine, ran>>

(* What a waker does: resume the awaiting task, or free a spawned one.      *)
Wake(n) == IF fut[n].waker = Reap(n) THEN <<Op("reap", n)>> ELSE <<Op("extract", Awaiter(n))>>

(* Completion: a swap in the generated code; Future_complete of a leaf      *)
(* leaves a future that is already terminal alone.                          *)
Completed(n) == IF Running("complete") /\ fut[n].state \notin {PENDING, WAITING}
                THEN fut[n].state ELSE READY

Publish ==
  /\ Running("publish") \/ Running("complete")
  /\ SetState(Arg, Completed(Arg))
  /\ Then(IF fut[Arg].state = WAITING THEN Wake(Arg) ELSE <<>>)
  /\ UNCHANGED <<cleanups, frame, live, reg, fresh, mine, ran>>

RunReap ==
  /\ Running("reap")
  /\ live' = live \ Uses(Head(todo))
  /\ Then(<<>>)
  /\ UNCHANGED <<cleanups, fut, frame, reg, fresh, mine, ran>>

-----------------------------------------------------------------------------
(* Future_drop, up to on_drop: a drop of a frame whose cleanup runs is a    *)
(* no-op.                                                                   *)
Future_drop ==
  /\ Running("drop")
  /\ IF fut[Arg].state >= DETACHED
       THEN Then(<<>>) /\ UNCHANGED fut
       ELSE /\ SetState(Arg, CANCELLED)
            /\ Then((IF fut[Arg].state = READY THEN <<>> ELSE <<Op("on_drop", Arg)>>)
                    \o <<Op("release", Arg)>>)
  /\ UNCHANGED <<cleanups, frame, live, reg, fresh, mine, ran>>

Deregister ==
  /\ Running("on_drop") /\ Arg \in Leaves
  /\ reg' = reg \ {Arg}
  /\ Then(<<>>)
  /\ UNCHANGED <<cleanups, fut, frame, live, fresh, mine, ran>>

Cascade ==
  /\ Running("on_drop") /\ Arg \in Tasks
  /\ Then((IF frame[Arg].awaiting = None THEN <<>> ELSE <<Op("drop", frame[Arg].awaiting)>>)
          \o <<Op("cleanup", Arg)>>)
  /\ UNCHANGED <<cleanups, fut, frame, live, reg, fresh, mine, ran>>

(* The cleanups pending where the frame is parked: those below the one it   *)
(* is in.                                                                   *)
Pending(t) == frame[t].k - 1
CleanupMode(t) == IF \E i \in 1 .. Pending(t) : cleanups[t][i] # Plain THEN "detached" ELSE "cancelled"

Cleanup ==
  /\ Running("cleanup")
  /\ IF Pending(Arg) = 0
       THEN /\ live' = live \ OwnedBy(Arg)
            /\ Then(<<>>)
            /\ UNCHANGED <<fut, frame>>
       ELSE /\ IF CleanupMode(Arg) = "detached" THEN SetState(Arg, DETACHED) ELSE UNCHANGED fut
            /\ frame' = [frame EXCEPT ![Arg].k = Pending(Arg), ![Arg].mode = CleanupMode(Arg)]
            /\ Then(<<Op("run", Arg)>>)
            /\ UNCHANGED live
  /\ UNCHANGED <<cleanups, reg, fresh, mine, ran>>

(* The rest of Future_drop: the closures, and the future unless a detached  *)
(* cleanup still runs.                                                      *)
HandsOver(n) == fut[n].state = DETACHED

Release ==
  /\ Running("release")
  /\ live' = live \ ({Drp(Arg), fut[Arg].waker} \cup IF HandsOver(Arg) THEN {} ELSE {Fut(Arg)})
  /\ IF HandsOver(Arg) THEN SetState(Arg, ORPHANED) ELSE UNCHANGED fut
  /\ Then(<<>>)
  /\ UNCHANGED <<cleanups, frame, reg, fresh, mine, ran>>

(* The end of a detached cleanup: still inside Future_drop, or on its own.  *)
InsideDrop(t) == fut[t].state = DETACHED

End ==
  /\ Running("end")
  /\ IF InsideDrop(Arg)
       THEN SetState(Arg, CLEANED) /\ UNCHANGED live
       ELSE live' = live \ {Fut(Arg)} /\ UNCHANGED fut
  /\ Then(<<>>)
  /\ UNCHANGED <<cleanups, frame, reg, fresh, mine, ran>>

UserReturn ==
  /\ Running("user")
  /\ Then(<<>>)
  /\ UNCHANGED <<cleanups, fut, frame, live, reg, fresh, mine, ran>>

-----------------------------------------------------------------------------
(* The program and the loop, at top level or inside a plain cleanup.        *)
Call(t) ==
  /\ todo = <<>>
  /\ t \in fresh /\ fresh' = fresh \ {t}
  /\ mine' = mine \cup {t}
  /\ Start(<<Op("call", t)>>)
  /\ UNCHANGED <<cleanups, fut, frame, live, reg, ran>>

(* A task is spawned or dropped while it and all it awaits are suspended.   *)
Busy == {todo[i][2] : i \in 1 .. Len(todo)}
Chain[n \in Nodes \cup {None}] ==
  IF n \in Tasks THEN {n} \cup Chain[frame[n].awaiting] ELSE {}

Spawn(t) ==
  /\ InUser
  /\ Chain[t] \cap Busy = {}
  /\ t \in mine /\ mine' = mine \ {t}
  /\ IF fut[t].state = PENDING
       THEN /\ fut' = [fut EXCEPT ![t] = [state |-> WAITING, waker |-> Reap(t)]]
            /\ live' = live \cup {Reap(t)}
            /\ UNCHANGED todo
       ELSE /\ live' = live \ {Fut(t), Drp(t)}
            /\ UNCHANGED <<fut, todo>>
  /\ UNCHANGED <<cleanups, frame, reg, fresh, ran>>

Drop(t) ==
  /\ InUser
  /\ t \in mine /\ mine' = mine \ {t}
  /\ Chain[t] \cap Busy = {}
  /\ Start(<<Op("drop", t)>>)
  /\ UNCHANGED <<cleanups, fut, frame, live, reg, fresh, ran>>

(* A second drop while the detached cleanup runs.                           *)
DropAgain(t) ==
  /\ InUser
  /\ fut[t].state \in {DETACHED, ORPHANED} /\ Fut(t) \in live
  /\ Start(<<Op("drop", t)>>)
  /\ UNCHANGED <<cleanups, fut, frame, live, reg, fresh, mine, ran>>

Fire(l) ==
  /\ InUser
  /\ l \in reg /\ reg' = reg \ {l}
  /\ Start(<<Op("complete", l)>>)
  /\ UNCHANGED <<cleanups, fut, frame, live, fresh, mine, ran>>

Execute ==
  \/ CallTask \/ CallLeaf \/ Poll \/ Extract \/ Run \/ Finish \/ Publish \/ RunReap
  \/ Future_drop \/ Deregister \/ Cascade \/ Cleanup \/ Release \/ End \/ UserReturn

Next ==
  \/ Execute
  \/ \E t \in Tasks : Call(t) \/ Spawn(t) \/ Drop(t) \/ DropAgain(t)
  \/ \E l \in Leaves : Fire(l)

Spec == Init /\ [][Next]_vars

(* Calls return, and a registered leaf completes in the end, whatever else  *)
(* the program does each time the loop calls it.                            *)
FairSpec ==
  /\ Spec /\ WF_vars(Execute) /\ SF_vars(UserReturn)
  /\ \A l \in Leaves : SF_vars(Fire(l))

-----------------------------------------------------------------------------
TypeOK ==
  /\ fut \in [Nodes -> [state : PENDING .. CLEANED,
                        waker : {None} \cup {Resume(n) : n \in Nodes} \cup {Reap(n) : n \in Nodes}]]
  /\ \A t \in Tasks : frame[t] \in [k : 0 .. Last(t) + 1, awaiting : Nodes \cup {None},
                                    mode : {"new", "running", "cancelled", "detached"}]
  /\ \A l \in Leaves : fut[l].state < DETACHED
  /\ reg \subseteq Leaves /\ mine \subseteq Roots /\ fresh \subseteq Roots

(* No block is read, written or freed after its free, however completions,  *)
(* drops, cascades and cleanups nest.                                       *)
NoUseAfterFree == todo # <<>> => Uses(Head(todo)) \subseteq live

(* Once the program holds nothing and no leaf is pending, all is freed.     *)
NoLeak == todo = <<>> /\ mine \cup reg = {} => live = {}

(* "the defers and finally blocks pending at that await run exactly once,   *)
(* innermost first, before the frame is freed" (docs/dev/async-design.md).  *)
Descending(s, from) == \A i \in 1 .. Len(s) : s[i] = from + 1 - i

CleanupsOnce ==
  \A t \in Tasks :
    /\ Descending(ran[t], Last(t))
    /\ frame[t].mode # "new" /\ Fut(t) \notin live /\ todo = <<>> => Len(ran[t]) = Last(t)

(* A frame is let go only with its cleanups done, each once, and then       *)
(* nothing of it stays allocated.                                           *)
Released == TypeOK /\ CleanupsOnce /\ NoLeak

(* "A coroutine's own normal path never runs after a drop, so no completion *)
(* can follow it" (docs/dev/async-design.md): a dropped future never        *)
(* becomes READY.                                                           *)
NoCompletionAfterDrop ==
  [][\A n \in Nodes : fut[n].state >= CANCELLED => fut'[n].state >= CANCELLED]_vars

(* A task the program does not hold is freed in the end: awaited, spawned,  *)
(* or dropped, with its cleanup done.                                       *)
EventuallyFreed ==
  \A t \in Tasks : Fut(t) \in live /\ t \notin mine ~> Fut(t) \notin live
=============================================================================
