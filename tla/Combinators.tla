---------------------------- MODULE Combinators ----------------------------
(***************************************************************************)
(* select2, join2 (stdlib/future.esk), select2v, join2v (futureval.esk)    *)
(* and spawn: who owns which heap block.  Leaf futures complete from the   *)
(* event loop; a combinator over two futures hooks their wakers; the       *)
(* program awaits, spawns or drops what it owns.                           *)
(*                                                                         *)
(* Everything runs on one thread, but nested: completing a leaf runs its   *)
(* waker, which drops the loser, completes the combinator, resumes the     *)
(* awaiter, which frees what it was given, and only then returns through   *)
(* all of them.  `todo` is that call stack: the primitive operations still *)
(* to run, in the order the code runs them.  A block is a future, the heap *)
(* env of a closure or a join's counter.                                   *)
(***************************************************************************)
EXTENDS Integers, Sequences, FiniteSets

CONSTANTS
  Leaves, Combs,  \* futures the loop completes, futures built from others
  Trees,          \* the possible inputs of the combinators: [Combs -> <<a, b>>]
  Kinds,          \* the combinators used
  Nop,            \* the empty closure, which has no env
  None,           \* no future
  Cleanup         \* leaf -> the leaf that its on_drop completes, or None

Nodes == Leaves \cup Combs

ASSUME KindsAssumption == Kinds \subseteq {"select2", "join2", "select2v", "join2v"}
ASSUME CleanupAssumption == Cleanup \in [Leaves -> Leaves \cup {None}] /\ None \notin Nodes \cup 0 .. 2

(* A combinator is built from two futures, which were there before it: in   *)
(* any set of combinators one is the first built, and one is the last.      *)
ASSUME TreesAssumption ==
  /\ Leaves \cap Combs = {} /\ Trees \subseteq [Combs -> Nodes \X Nodes]
  /\ \A t \in Trees : \A n \in Combs : t[n][1] # t[n][2]
  /\ \A t \in Trees : \A S \in SUBSET Combs : S # {} =>
       /\ \E n \in S : {t[n][1], t[n][2]} \cap S = {}
       /\ \E n \in S : \A m \in S : n \notin {t[m][1], t[m][2]}

PENDING   == 0
WAITING   == 1
READY     == 2
CANCELLED == 3

VARIABLES
  kind,     \* what each combinator is
  inputs,   \* its two inputs
  fut,      \* per node: state, waker, on_drop, value
  cnt,      \* per join: its counter
  live,     \* blocks allocated and not freed
  reg,      \* leaves the event loop will complete
  todo,     \* operations still to run
  mine,     \* futures the program holds
  held,     \* futures held by a suspended await or by spawn
  done,     \* leaves that completed
  taken     \* futures whose awaiter took what they resolved to

vars == <<kind, inputs, fut, cnt, live, reg, todo, mine, held, done, taken>>

Fut(n)    == <<"fut", n>>
Cnt(n)    == <<"cnt", n>>
On(n, s)  == <<"on", n, s>>       \* onA and onB: the waker hooked on input s
Cas(n)    == <<"cas", n>>         \* the on_drop that cascades
Drp(l)    == <<"drp", l>>         \* a leaf's on_drop
Cb(l)     == <<"cb", l>>          \* a leaf's callback, registered with the loop
Resume(n) == <<"resume", n>>      \* the awaiter's resume closure
Reap(n)   == <<"reap", n>>        \* spawn's waker

ASSUME NopAssumption ==
  \A n \in Nodes : Nop \notin {Fut(n), Cnt(n), On(n, 0), On(n, 1), Cas(n), Drp(n), Cb(n), Resume(n), Reap(n)}

In(n, s)  == inputs[n][s + 1]
IsJoin(n) == kind[n] \in {"join2", "join2v"}
Env(c)    == {c} \ {Nop}

NoFuture == [state |-> PENDING, waker |-> Nop, on_drop |-> Nop, value |-> None]

Init ==
  /\ kind \in [Combs -> Kinds]
  /\ inputs \in Trees
  /\ reg \in SUBSET Leaves
  /\ fut = [n \in Nodes |->
              IF n \in reg THEN [NoFuture EXCEPT !.on_drop = Drp(n)]
              ELSE IF n \in Leaves THEN [NoFuture EXCEPT !.state = READY]
              ELSE NoFuture]
  /\ cnt = [n \in Combs |-> 0]
  /\ live = {Fut(l) : l \in Leaves} \cup {Drp(l) : l \in reg} \cup {Cb(l) : l \in reg}
  /\ todo = <<>>
  /\ mine = Leaves /\ held = {}
  /\ done = Leaves \ reg
  /\ taken = {}

-----------------------------------------------------------------------------
(* Operations, and the blocks each reads, writes or frees.                  *)
Op(name, x)      == <<name, x>>
Complete(n, v)   == <<"complete", n, v>>
Arm(n, s)        == <<"arm", n, s>>
FreeAll(envs)    == Op("free", envs)

Uses(op) ==
  LET n == op[2] IN
  CASE op[1] \in {"complete", "drop"} -> {Fut(n)}
    [] op[1] = "release"     -> {Fut(n)} \cup Env(fut[n].waker) \cup Env(fut[n].on_drop)
    [] op[1] = "Future_free" -> {Fut(n)} \cup Env(fut[n].on_drop)
    [] op[1] = "free"        -> n \ {Nop}
    [] op[1] = "call"        -> Env(n) \cup IF n[1] = "on" THEN {Fut(In(n[2], n[3]))} ELSE {}
    [] op[1] = "tally"       -> {Cnt(n)}
    [] op[1] = "arm"         -> {Fut(n), Fut(In(n, op[3]))} \cup IF IsJoin(n) THEN {Cnt(n)} ELSE {}
    [] op[1] = "hook"        -> {Fut(n)} \cup IF IsJoin(n) THEN {Cnt(n)} ELSE {}
    [] OTHER                 -> {}

Running(name) == todo # <<>> /\ Head(todo)[1] = name
Then(ops)     == todo' = ops \o Tail(todo)
Idle          == todo = <<>>
Start(ops)    == todo' = ops
Arg           == Head(todo)[2]

(* Mutants: a select's waker forgets to free itself, reports the wrong      *)
(* index, or frees its loser without a drop; a join counts twice; the       *)
(* cascade forgets input b; input b is never hooked.                        *)
Leaks(n, s, self)     == <<Op("drop", In(n, 1 - s)), Complete(n, s)>>
Swapped(n, s, self)   == <<Op("drop", In(n, 1 - s)), Complete(n, 1 - s), FreeAll({self})>>
FreesOnly(n, s, self) == <<Op("Future_free", In(n, 1 - s)), Complete(n, s), FreeAll({self})>>
Twice(n, self)        == <<Op("tally", n), Op("tally", n), FreeAll({self})>>
First(n)              == <<Op("drop", In(n, 0))>>
Unhooked(n, s)        == <<Op("hook", n)>>

(* The waker hooked on input s of n, once the input completed.              *)
OnSelect(n, s, self) ==
  <<Op("drop", In(n, 1 - s))>>
  \o (IF kind[n] = "select2v" THEN <<Op("Future_free", In(n, s))>> ELSE <<>>)
  \o <<Complete(n, s), FreeAll({self})>>

OnJoin(n, self) == <<Op("tally", n), FreeAll({self})>>

Cascade(n) ==
  (IF IsJoin(n) THEN <<FreeAll({Cnt(n)})>> ELSE <<>>)
  \o <<Op("drop", In(n, 0)), Op("drop", In(n, 1))>>

(* Future_complete: publish, and call the waker of a parked awaiter.        *)
Future_complete ==
  /\ Running("complete")
  /\ LET n == Arg IN
       /\ fut' = [fut EXCEPT ![n].value = Head(todo)[3],
                             ![n].state = IF @ \in {PENDING, WAITING} THEN READY ELSE @]
       /\ Then(IF fut[n].state = WAITING THEN <<Op("call", fut[n].waker)>> ELSE <<>>)
  /\ UNCHANGED <<kind, inputs, cnt, live, reg, mine, held, done, taken>>

(* Future_drop up to the return of on_drop, then the three frees.           *)
Future_drop ==
  /\ Running("drop")
  /\ fut' = [fut EXCEPT ![Arg].state = CANCELLED]
  /\ Then((IF fut[Arg].state = READY THEN <<>> ELSE <<Op("call", fut[Arg].on_drop)>>)
          \o <<Op("release", Arg)>>)
  /\ UNCHANGED <<kind, inputs, cnt, live, reg, mine, held, done, taken>>

Free ==
  /\ \/ Running("release") \/ Running("Future_free") \/ Running("free")
  /\ live' = live \ Uses(Head(todo))
  /\ Then(<<>>)
  /\ UNCHANGED <<kind, inputs, fut, cnt, reg, mine, held, done, taken>>

(* A call of a closure, by what the closure is.                             *)
Calling(what) == Running("call") /\ Arg[1] = what

(* onA, onB of a select and of a join.                                      *)
CallOn ==
  /\ Calling("on")
  /\ LET n == Arg[2]  s == Arg[3]  self == fut[In(n, s)].waker IN
       IF IsJoin(n)
         THEN /\ Then(OnJoin(n, self))
              /\ fut' = [fut EXCEPT ![In(n, s)].waker = Nop]
         ELSE /\ Then(OnSelect(n, s, self))
              /\ UNCHANGED fut
  /\ UNCHANGED <<kind, inputs, cnt, live, reg, mine, held, done, taken>>

Tally ==
  /\ Running("tally")
  /\ cnt' = [cnt EXCEPT ![Arg] = @ + 1]
  /\ Then(IF cnt[Arg] + 1 = 2 THEN <<FreeAll({Cnt(Arg)}), Complete(Arg, 2)>> ELSE <<>>)
  /\ UNCHANGED <<kind, inputs, fut, live, reg, mine, held, done, taken>>

CallCascade ==
  /\ Calling("cas")
  /\ Then(Cascade(Arg[2]))
  /\ UNCHANGED <<kind, inputs, fut, cnt, live, reg, mine, held, done, taken>>

(* A leaf's on_drop: deregister, which frees the callback, and whatever     *)
(* else the producer cleans up, which may complete another leaf.            *)
CallLeafDrop ==
  /\ Calling("drp")
  /\ LET l == Arg[2]  k == Cleanup[l] IN
       /\ reg' = reg \ {l, k}
       /\ done' = IF k \in reg \ {l} THEN done \cup {k} ELSE done
       /\ Then((IF l \in reg THEN <<FreeAll({Cb(l)})>> ELSE <<>>)
               \o (IF k \in reg \ {l} THEN <<Complete(k, 0), FreeAll({Cb(k)})>> ELSE <<>>))
  /\ UNCHANGED <<kind, inputs, fut, cnt, live, mine, held, taken>>

(* The awaiter takes the value, frees its waker and then what it was given. *)
CallResume ==
  /\ Calling("resume")
  /\ LET n == Arg[2] IN
       /\ held' = held \ {n}
       /\ Then(<<FreeAll({fut[n].waker}), Op("settle", n), Op("Future_free", n)>>)
  /\ UNCHANGED <<kind, inputs, fut, cnt, live, reg, mine, done, taken>>

(* What it was given besides n: both inputs of a join, a select2's winner,  *)
(* nothing of a select2v; and what was left of a winner already freed.      *)
Winner(n) == In(n, fut[n].value)

Left(n) ==
  IF n \in Leaves THEN <<>>
  ELSE IF IsJoin(n)
    THEN <<Op("settle", In(n, 0)), Op("settle", In(n, 1)), Op("Future_free", In(n, 0)), Op("Future_free", In(n, 1))>>
  ELSE <<Op("settle", Winner(n))>>
       \o IF kind[n] = "select2" THEN <<Op("Future_free", Winner(n))>> ELSE <<>>

Settle ==
  /\ Running("settle")
  /\ taken' = taken \cup {Arg}
  /\ Then(Left(Arg))
  /\ UNCHANGED <<kind, inputs, fut, cnt, live, reg, mine, held, done>>

CallReap ==
  /\ Calling("reap")
  /\ LET f == Arg[2] IN
       /\ held' = held \ {f}
       /\ Then(<<Op("Future_free", f), FreeAll({fut[f].waker})>>)
  /\ UNCHANGED <<kind, inputs, fut, cnt, live, reg, mine, done, taken>>

-----------------------------------------------------------------------------
(* The constructors: hook input a, then input b, then the cascade.          *)
Closures(n) == {On(n, 0), On(n, 1)}

(* Input s of a select is READY already: it wins.  Of the two closures, the *)
(* one of an input not looked at yet and its own are freed.                 *)
AlreadyWon(n, s) ==
  LET own   == IF kind[n] = "select2v" THEN <<Op("Future_free", In(n, s))>> ELSE <<>>
      loser == <<Op("drop", In(n, 1 - s))>>
  IN  <<FreeAll({On(n, s), On(n, 1)})>>
      \o (IF s = 0 THEN own \o loser ELSE loser \o own) \o <<Complete(n, s)>>

Next1(n, s) == IF s = 0 THEN <<Arm(n, 1)>> ELSE <<Op("hook", n)>>

Create(n) ==
  /\ Idle
  /\ Fut(n) \notin live /\ n \notin mine \cup held
  /\ {In(n, 0), In(n, 1)} \subseteq mine
  /\ mine' = (mine \ {In(n, 0), In(n, 1)}) \cup {n}
  /\ live' = live \cup {Fut(n)} \cup Closures(n) \cup IF IsJoin(n) THEN {Cnt(n)} ELSE {}
  /\ Start(<<Arm(n, 0)>>)
  /\ UNCHANGED <<kind, inputs, fut, cnt, reg, held, done, taken>>

ArmSelect ==
  /\ Running("arm") /\ ~IsJoin(Arg)
  /\ LET n == Arg  s == Head(todo)[3]  f == In(n, s) IN
       /\ fut' = [fut EXCEPT ![f].waker = On(n, s),
                             ![f].state = IF @ = PENDING THEN WAITING ELSE @]
       /\ Then(IF fut[f].state = PENDING THEN Next1(n, s) ELSE AlreadyWon(n, s))
  /\ UNCHANGED <<kind, inputs, cnt, live, reg, mine, held, done, taken>>

ArmJoin ==
  /\ Running("arm") /\ IsJoin(Arg)
  /\ LET n == Arg  s == Head(todo)[3]  f == In(n, s) IN
       IF fut[f].state = PENDING
         THEN /\ fut' = [fut EXCEPT ![f].waker = On(n, s), ![f].state = WAITING]
              /\ Then(Next1(n, s))
              /\ UNCHANGED cnt
         ELSE /\ fut' = [fut EXCEPT ![f].waker = Nop]
              /\ Then(<<FreeAll({On(n, s)})>> \o Next1(n, s))
              /\ cnt' = [cnt EXCEPT ![n] = @ + 1]
  /\ UNCHANGED <<kind, inputs, live, reg, mine, held, done, taken>>

Hook ==
  /\ Running("hook")
  /\ IF IsJoin(Arg) /\ cnt[Arg] = 2
       THEN /\ Then(<<FreeAll({Cnt(Arg)}), Complete(Arg, 2)>>)
            /\ UNCHANGED <<fut, live>>
       ELSE /\ fut' = [fut EXCEPT ![Arg].on_drop = Cas(Arg)]
            /\ live' = live \cup {Cas(Arg)}
            /\ Then(<<>>)
  /\ UNCHANGED <<kind, inputs, cnt, reg, mine, held, done, taken>>

-----------------------------------------------------------------------------
(* The program and the loop.                                                *)

(* await n: Future_poll, and the value at once if n is READY.               *)
Await(n) ==
  /\ Idle /\ n \in mine
  /\ mine' = mine \ {n} /\ held' = held \cup {n}
  /\ live' = live \cup {Resume(n)}
  /\ fut' = [fut EXCEPT ![n].waker = Resume(n), ![n].state = IF @ = PENDING THEN WAITING ELSE @]
  /\ Start(IF fut[n].state = PENDING THEN <<>> ELSE <<Op("call", Resume(n))>>)
  /\ UNCHANGED <<kind, inputs, cnt, reg, done, taken>>

(* spawn(n): a waker that frees n and nothing else.                          *)
Spawn(n) ==
  /\ Idle /\ n \in mine
  /\ mine' = mine \ {n}
  /\ live' = live \cup {Reap(n)}
  /\ fut' = [fut EXCEPT ![n].waker = Reap(n), ![n].state = IF @ = PENDING THEN WAITING ELSE @]
  /\ IF fut[n].state = PENDING
       THEN /\ Start(<<>>) /\ held' = held \cup {n}
       ELSE /\ Start(<<FreeAll({Reap(n)}), Op("Future_free", n)>>) /\ UNCHANGED held
  /\ UNCHANGED <<kind, inputs, cnt, reg, done, taken>>

(* The program drops a future, or the coroutine awaiting it one that has    *)
(* not resolved; a spawned one has no owner to drop it.                     *)
Drop(n) ==
  /\ Idle
  /\ n \in mine \/ (n \in held /\ fut[n].waker = Resume(n))
  /\ mine' = mine \ {n} /\ held' = held \ {n}
  /\ Start(<<Op("drop", n)>>)
  /\ UNCHANGED <<kind, inputs, fut, cnt, live, reg, done, taken>>

(* The loop runs l's one-shot callback, and frees it when it returns.       *)
Fire(l) ==
  /\ Idle /\ l \in reg
  /\ reg' = reg \ {l} /\ done' = done \cup {l}
  /\ Start(<<Complete(l, 0), FreeAll({Cb(l)})>>)
  /\ UNCHANGED <<kind, inputs, fut, cnt, live, mine, held, taken>>

Execute ==
  \/ Future_complete \/ Future_drop \/ Free \/ CallOn \/ Tally \/ CallCascade
  \/ CallLeafDrop \/ CallResume \/ Settle \/ CallReap \/ ArmSelect \/ ArmJoin \/ Hook

Next ==
  \/ Execute
  \/ \E n \in Combs : Create(n) \/ Await(n)
  \/ \E n \in Nodes : Spawn(n) \/ Drop(n)
  \/ \E l \in Leaves : Fire(l)

Spec == Init /\ [][Next]_vars

(* Calls return, and every leaf still registered completes.                 *)
FairSpec == Spec /\ WF_vars(Execute) /\ \A l \in Leaves : WF_vars(Fire(l))

-----------------------------------------------------------------------------
Blocks == {<<k, n>> : k \in {"fut", "cnt", "cas", "drp", "cb", "resume", "reap"}, n \in Nodes}
          \cup {On(n, s) : n \in Combs, s \in {0, 1}}

TypeOK ==
  /\ fut \in [Nodes -> [state : PENDING .. CANCELLED, waker : Blocks \cup {Nop},
                        on_drop : Blocks \cup {Nop}, value : {None} \cup 0 .. 2]]
  /\ cnt \in [Combs -> 0 .. 2]
  /\ live \subseteq Blocks
  /\ reg \subseteq Leaves /\ done \subseteq Leaves
  /\ mine \subseteq Nodes /\ held \subseteq Nodes /\ taken \subseteq Nodes

(* No step touches or frees a block that is not allocated: no use after     *)
(* free and no double free, in any nesting of completions, resumes, drops   *)
(* and cascades.  "a later completion can never reach the freed `sel`"      *)
(* (future.esk:155-156).                                                    *)
NoUseAfterFree == todo # <<>> => Uses(Head(todo)) \subseteq live

(* Whom a resolved future leaves for its awaiter to free: a join both       *)
(* inputs, a select its winner, or what its freed winner left.              *)
Heirs(n) ==
  IF n \in Leaves \/ fut[n].value = None THEN {}
  ELSE IF IsJoin(n) THEN {In(n, 0), In(n, 1)} ELSE {Winner(n)}

(* A combinator that a drop or a spawn freed after it had resolved: both    *)
(* free that future alone, and nobody is left to free its heirs.            *)
Forgotten(n) ==
  /\ n \in Combs /\ fut[n].value # None
  /\ fut[n].state = CANCELLED \/ fut[n].waker = Reap(n)

Orphans ==
  {x \in Nodes : \A S \in SUBSET Nodes :
    (\A n \in Nodes : Forgotten(n) \/ n \in S => Heirs(n) \subseteq S) => x \in S}

(* Once the program holds and awaits nothing, every block has been freed,   *)
(* but for the resolved futures that a forgotten one left, and their        *)
(* on_drop: "Leak-free via the self-free waker technique"                   *)
(* (future.esk:123-124).                                                    *)
NoLeak ==
  Idle /\ mine \cup held = {} =>
    live \subseteq UNION {{Fut(x)} \cup Env(fut[x].on_drop) : x \in {y \in Orphans : fut[y].state = READY}}

(* A combinator is resolved exactly when its inputs' completions say so,    *)
(* and a select's index is an input that completed.  S: futures that have   *)
(* resolved, down to the leaves.                                            *)
Because(n, S) ==
  IF n \in Leaves THEN n \in done
  ELSE IF IsJoin(n) THEN {In(n, 0), In(n, 1)} \subseteq S
  ELSE {In(n, 0), In(n, 1)} \cap S # {}

Holds(n) == \E S \in SUBSET Nodes : n \in S /\ \A m \in S : Because(m, S)

Resolution ==
  Idle => \A n \in Combs : Fut(n) \in live =>
    /\ fut[n].state = READY <=> Holds(n)
    /\ fut[n].state = READY /\ ~IsJoin(n) => Holds(Winner(n))

(* A leaf still registered is one whose completion has somewhere to go: a   *)
(* loser is deregistered before the winner's awaiter runs.                  *)
LoserDeregistered == \A l \in reg : Idle => Fut(l) \in live /\ Cb(l) \in live

(* Between callbacks every combinator is settled: as resolved as its inputs *)
(* make it, with no registration left for a loser.                          *)
Settled == TypeOK /\ Resolution /\ LoserDeregistered

(* What is awaited or spawned is resumed or dropped.                        *)
EventuallyReleased == \A n \in Nodes : n \in held ~> n \notin held
=============================================================================
