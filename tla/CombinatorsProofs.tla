------------------------- MODULE CombinatorsProofs -------------------------
(***************************************************************************)
(* Proofs about Combinators.tla, for any leaves, any combinators nested in *)
(* any way, and any order of completions, awaits, spawns and drops: no     *)
(* block is used after its free, none is lost but the orphans of a         *)
(* forgotten combinator, and between callbacks every combinator is as      *)
(* resolved as its inputs make it.                                         *)
(*                                                                         *)
(* IInv, the inductive invariant, says of every moment inside a callback   *)
(* who holds each future and what the call stack still owes it.  A step    *)
(* changes one future, or a combinator and its inputs: Same(x) says that x *)
(* and its operations stay as they were, Faint(x) that x is as good as     *)
(* freed, and StepFrame and its special cases SoleStep and Family leave to *)
(* each action the parts of IInv about what it touches.                    *)
(***************************************************************************)
EXTENDS Combinators, TLAPS, SequenceTheorems

(* The restriction under which the proofs hold: an on_drop completes no     *)
(* other future.                                                            *)
Discipline == \A l \in Leaves : Cleanup[l] = None

-----------------------------------------------------------------------------

(* The call stack. *)
Has(op)  == \E i \in 1 .. Len(todo) : todo[i] = op
Frees(b) == \E i \in 1 .. Len(todo) : todo[i][1] = "free" /\ b \in todo[i][2]
Drops(n)       == Has(Op("drop", n))
Releases(n)    == Has(Op("release", n))
FreesNode(n)   == Has(Op("Future_free", n))
Settles(n)     == Has(Op("settle", n))
Calls(c)       == Has(Op("call", c))
Arms(n, s)     == Has(Arm(n, s))
Hooks(n)       == Has(Op("hook", n))
Tallies(n)     == Has(Op("tally", n))
Resolves(n, v) == Has(Complete(n, v))
Completes(n)   == \E v \in 0 .. 2 : Resolves(n, v)

(* Something is about to free the future n.                                 *)
Claimed(n)     == Drops(n) \/ Releases(n) \/ FreesNode(n)

(* Something of n is still to run.                                          *)
Runs(n)        == Arms(n, 0) \/ Arms(n, 1) \/ Hooks(n) \/ Tallies(n) \/ Completes(n)
                    \/ Calls(On(n, 0)) \/ Calls(On(n, 1))

(* The closures and counters that the stack may free or call.               *)
Resuming == {Resume(n) : n \in Nodes} \cup {Reap(n) : n \in Nodes}
Hooked   == {On(n, s) : n \in Combs, s \in {0, 1}}
OnDrops  == {Cas(n) : n \in Combs} \cup {Drp(l) : l \in Leaves}
Envs     == Resuming \cup Hooked \cup {Cb(l) : l \in Leaves} \cup {Cnt(n) : n \in Combs}

(* The operations; those that run above nothing but frees; what each frees; *)
(* and what may lie below what.                                             *)
AllOps ==
  ({"drop", "release", "Future_free", "settle"} \X Nodes) \cup ({"tally", "hook"} \X Combs)
    \cup ({"complete"} \X Nodes \X (0 .. 2)) \cup ({"arm"} \X Combs \X {0, 1})
    \cup ({"free"} \X SUBSET Envs) \cup ({"call"} \X (Resuming \cup Hooked \cup OnDrops))

Up(op) ==
  \/ op[1] \in {"complete", "arm", "hook", "tally"}
  \/ op[1] = "call" /\ op[2] \in Resuming \cup Hooked

Claims(op) ==
  CASE op[1] \in {"drop", "release", "Future_free"} -> {Fut(op[2])}
    [] op[1] = "free"   -> op[2]
    [] op[1] = "settle" -> {Drp(op[2])}
    [] OTHER -> {}

Above(a, b) ==
  /\ b[1] \notin {"call", "tally"}
  /\ Up(a) => b[1] = "free"
  /\ Claims(a) \cap Claims(b) = {}
Ordered == \A i, j \in 1 .. Len(todo) : i < j => Above(todo[i], todo[j])

(* The types.                                                               *)
Wakers  == {Nop} \cup Resuming \cup Hooked
Futures == [state : PENDING .. CANCELLED, waker : Wakers, on_drop : {Nop} \cup OnDrops, value : {None} \cup 0 .. 2]
LiveBlocks == {Fut(n) : n \in Nodes} \cup Envs \cup OnDrops

Typed ==
  /\ kind \in [Combs -> Kinds] /\ inputs \in Trees
  /\ fut \in [Nodes -> Futures] /\ cnt \in [Combs -> 0 .. 2]
  /\ live \subseteq LiveBlocks /\ reg \subseteq Leaves /\ done \subseteq Leaves
  /\ mine \subseteq Nodes /\ held \subseteq Nodes /\ taken \subseteq Nodes
  /\ todo \in Seq(AllOps)

-----------------------------------------------------------------------------

(* The parts of a future.                                                   *)
State(n)  == fut[n].state
Waker(n)  == fut[n].waker
Alive(n)  == Fut(n) \in live
Virgin(n) == n \in Combs /\ State(n) = PENDING /\ ~Alive(n)
Unresolved(n) == State(n) \in {PENDING, WAITING}

(* n is freed, or about to be.                                              *)
Gone(n)   == Alive(n) => Claimed(n)

(* Not built yet.                                                           *)
NewOK(n) ==
  Virgin(n) => /\ fut[n] = NoFuture /\ cnt[n] = 0
               /\ n \notin mine \cup held \cup taken
               /\ ~Claimed(n) /\ ~Runs(n) /\ ~Settles(n)

(* The state machine. *)
FutureOK(n) ==
  /\ State(n) = PENDING => Waker(n) = Nop
  /\ State(n) = WAITING => Waker(n) # Nop /\ Alive(n)
  /\ Waker(n) \in {Nop, Resume(n), Reap(n)} \/ \E p \in Combs, r \in {0, 1} : In(p, r) = n /\ Waker(n) = On(p, r)
  /\ Alive(n) /\ State(n) = CANCELLED => Releases(n)
  /\ Drops(n) => Alive(n) /\ State(n) # CANCELLED /\ (State(n) = READY => Waker(n) = Nop)
  /\ Releases(n) => Alive(n) /\ State(n) = CANCELLED
  /\ FreesNode(n) => Alive(n) /\ State(n) = READY
  /\ Settles(n) => State(n) = READY
  /\ n \in taken => State(n) = READY
  /\ Completes(n) => Unresolved(n) /\ Alive(n) /\ ~Claimed(n)
  /\ Settles(n) \/ Drops(n) => n \notin taken
  /\ Settles(n) => ~Drops(n) /\ Gone(n)

(* What the program holds; what a suspended await or spawn holds.           *)
MineOK(n) ==
  /\ n \in mine => /\ Alive(n) /\ State(n) \in {PENDING, READY} /\ Waker(n) = Nop
                   /\ n \notin held
  /\ n \in held => /\ Alive(n)
                   /\ Waker(n) \in {Resume(n), Reap(n)}
                   /\ State(n) = WAITING \/ (State(n) = READY /\ (Calls(Resume(n)) \/ Calls(Reap(n))))
  /\ n \in mine \cup held => ~Claimed(n) /\ n \notin taken /\ ~Settles(n)
  /\ Waker(n) \in {Resume(n), Reap(n)} /\ State(n) = WAITING /\ ~Claimed(n) => n \in held
  /\ Calls(Resume(n)) => n \in held /\ State(n) = READY /\ Waker(n) = Resume(n)
  /\ Calls(Reap(n)) => n \in held /\ State(n) = READY /\ Waker(n) = Reap(n)

(* A leaf has its on_drop and its registration until it completes or is     *)
(* dropped.                                                                 *)
LeafOK(l) ==
  /\ fut[l].on_drop \in {Nop, Drp(l)}
  /\ Unresolved(l) => Alive(l) /\ fut[l].on_drop = Drp(l) /\ (l \in reg \/ Completes(l))
  /\ l \in reg => /\ Alive(l) /\ l \notin done /\ ~Completes(l)
                  /\ Unresolved(l) \/ Calls(Drp(l))
  /\ State(l) = READY \/ Completes(l) => l \in done
  /\ l \in done => ~(Unresolved(l) /\ ~Completes(l))
  /\ Calls(Drp(l)) => l \in reg /\ State(l) = CANCELLED /\ fut[l].on_drop = Drp(l)

(* Blocks. *)
Lent(n) == Alive(n) /\ (State(n) \in {WAITING, CANCELLED} \/ Calls(Waker(n)))
Unarmed(p, r) == Arms(p, 0) \/ (r = 1 /\ Arms(p, 1))

(* p still has its inputs; OneOf: b is allocated for the purpose A, or      *)
(* until a free on the stack.                                               *)
Open(p) == p \in Combs /\ Alive(p) /\ ((Unresolved(p) /\ ~Completes(p)) \/ Calls(Cas(p)))
OneOf(b, A) == (b \in live <=> Frees(b) \/ A) /\ ~(Frees(b) /\ A)

BlocksOK(n) ==
  /\ OneOf(Resume(n), Lent(n) /\ Waker(n) = Resume(n))
  /\ OneOf(Reap(n), Lent(n) /\ Waker(n) = Reap(n))
  /\ n \in Leaves => /\ OneOf(Cb(n), n \in reg)
                     /\ Drp(n) \in live <=> Alive(n) /\ fut[n].on_drop = Drp(n)
  /\ n \in Combs => /\ Cas(n) \in live <=> Alive(n) /\ fut[n].on_drop = Cas(n)
                    /\ OneOf(Cnt(n), IsJoin(n) /\ Open(n))
HookOK(p, r) == OneOf(On(p, r), Unarmed(p, r) \/ (Lent(In(p, r)) /\ Waker(In(p, r)) = On(p, r)))

(* What a combinator finds of its inputs. *)
Untaken(x) == State(x) = READY /\ x \notin taken /\ ~Settles(x)
Loose(x)   == Alive(x) /\ Waker(x) = Nop /\ State(x) \in {PENDING, READY} /\ ~Claimed(x) /\ x \notin taken /\ ~Settles(x)
Kept(x)    == Alive(x) /\ Untaken(x) /\ ~Claimed(x)
Armed(p, r) == LET x == In(p, r) IN Alive(x) /\ State(x) = WAITING /\ Waker(x) = On(p, r) /\ ~Claimed(x)
Called(p, r) == Kept(In(p, r)) /\ Waker(In(p, r)) = On(p, r)
Got(p, r) == Kept(In(p, r)) /\ Waker(In(p, r)) = Nop

(* An input is still to be looked at, or its waker runs, or it waits        *)
(* hooked, or a join has counted it.                                        *)
KidOK(p, r) ==
  IF Unarmed(p, r) THEN Loose(In(p, r))
  ELSE IF Calls(On(p, r)) THEN Called(p, r)
  ELSE Armed(p, r) \/ (IsJoin(p) /\ Got(p, r))

(* The inputs that a join has counted.                                      *)
Counted(p, r) == ~Unarmed(p, r) /\ ~Calls(On(p, r)) /\ State(In(p, r)) = READY
Count(p) == (IF Counted(p, 0) THEN 1 ELSE 0) + (IF Counted(p, 1) THEN 1 ELSE 0)

(* A combinator that waits for its inputs.                                  *)
OpenOK(p) ==
  /\ KidOK(p, 0) /\ KidOK(p, 1)
  /\ fut[p].on_drop = IF Arms(p, 0) \/ Arms(p, 1) \/ Hooks(p) THEN Nop ELSE Cas(p)
  /\ IsJoin(p) => /\ Count(p) = cnt[p] + IF Tallies(p) THEN 1 ELSE 0
                  /\ cnt[p] = 2 => Hooks(p)

(* p resolves, or has resolved, to v, and nobody took that: not yet, or     *)
(* never, p being dropped.                                                  *)
Resolved(p) == State(p) = READY \/ (State(p) = CANCELLED /\ fut[p].value # None)
Yields(p, v) == Resolves(p, v) \/ (Resolved(p) /\ p \notin taken /\ fut[p].value = v)
Full(p) == p \in Combs /\ (Completes(p) \/ (Resolved(p) /\ p \notin taken))

(* What p holds then: a join both inputs, a select2 its winner, a select2v  *)
(* nothing.                                                                 *)
FullOK(p, v) ==
  IF IsJoin(p) THEN Kept(In(p, 0)) /\ Kept(In(p, 1))
  ELSE /\ Gone(In(p, 1 - v)) /\ Untaken(In(p, v))
       /\ IF kind[p] = "select2" THEN Kept(In(p, v)) ELSE Gone(In(p, v))

(* Why it resolved.                                                         *)
Spared(x) == State(x) = READY /\ ~Drops(x)

ReasonOK(p, v) ==
  IF IsJoin(p) THEN v = 2 /\ Spared(In(p, 0)) /\ Spared(In(p, 1))
  ELSE v \in {0, 1} /\ Spared(In(p, v))

(* A combinator that was built.                                             *)
BuiltOK(p) ==
  /\ \A r \in {0, 1} : In(p, r) \notin mine \cup held /\ ~Virgin(In(p, r))
  /\ Open(p) => OpenOK(p)
  /\ \A v \in 0 .. 2 : Yields(p, v) => FullOK(p, v)
  /\ \A v \in 0 .. 2 : Resolves(p, v) => ReasonOK(p, v)
  /\ Resolved(p) => fut[p].value \in 0 .. 2 /\ ReasonOK(p, fut[p].value)
  /\ ~Open(p) /\ ~Full(p) => Gone(In(p, 0)) /\ Gone(In(p, 1))

(* The operations of p itself.                                              *)
CallsOK(p) ==
  /\ fut[p].on_drop \in {Nop, Cas(p)}
  /\ Arms(p, 0) \/ Arms(p, 1) \/ Hooks(p) => p \in mine /\ State(p) = PENDING
  /\ Tallies(p) => IsJoin(p) /\ Unresolved(p) /\ Alive(p) /\ ~Claimed(p)
  /\ \A r \in {0, 1} : Calls(On(p, r)) => Unresolved(p) /\ Alive(p) /\ ~Claimed(p)
  /\ Calls(Cas(p)) => State(p) = CANCELLED /\ Alive(p)
  /\ Unresolved(p) \/ Calls(Cas(p)) => fut[p].value = None
CombOK(p) == (~Virgin(p) => BuiltOK(p)) /\ CallsOK(p)

(* p holds its input r.                                                     *)
Holder(p, r) == Open(p) \/ \E v \in 0 .. 2 : Yields(p, v) /\ (IsJoin(p) \/ r = v)
Parent(x) == \E p \in Combs, r \in {0, 1} : In(p, r) = x /\ Holder(p, r)

(* Whatever is allocated, or resolved and not taken, has a holder.          *)
OwnerOK(x) ==
  /\ Alive(x) /\ ~Claimed(x) => x \in mine \cup held \/ Parent(x)
  /\ State(x) = READY /\ x \notin taken => Drops(x) \/ Waker(x) = Reap(x) \/ x \in mine \cup held \/ Settles(x) \/ Parent(x)

(* A future is an input of one combinator, and once.                        *)
UniqueOK ==
  \A p, q \in Combs : \A r, u \in {0, 1} : ~Virgin(p) /\ ~Virgin(q) /\ In(p, r) = In(q, u) => p = q /\ r = u

(* What a drop reaches has nothing left to run: a drop never tears down a   *)
(* combinator in the middle of its waker.                                   *)
Doomed(D) ==
  /\ \A n \in Nodes : Drops(n) \/ Calls(Cas(n)) => n \in D
  /\ \A p \in D \cap Combs : {In(p, 0), In(p, 1)} \subseteq D
  /\ \A n \in D : ~Runs(n)

(* The inductive invariant.                                                 *)
IInv ==
  /\ Typed /\ Ordered /\ UniqueOK
  /\ \E D \in SUBSET Nodes : Doomed(D)
  /\ \A n \in Nodes : FutureOK(n) /\ MineOK(n) /\ BlocksOK(n) /\ OwnerOK(n)
  /\ \A l \in Leaves : LeafOK(l)
  /\ \A p \in Combs : NewOK(p) /\ CombOK(p)
  /\ \A p \in Combs, r \in {0, 1} : HookOK(p, r)

-----------------------------------------------------------------------------
(* The stack after a step.                                                  *)

(* What is among the operations ops, and what they free.                    *)
Among(ops, o) == \E i \in 1 .. Len(ops) : ops[i] = o
AmongFrees(ops, b) == \E i \in 1 .. Len(ops) : ops[i][1] = "free" /\ b \in ops[i][2]

(* ops on top of rest, when each of ops may lie above each of rest.         *)
LEMMA Stacked ==
  ASSUME NEW ops \in Seq(AllOps), NEW rest \in Seq(AllOps), todo' = ops \o rest,
         \A i, j \in 1 .. Len(ops) : i < j => Above(ops[i], ops[j]),
         \A i, j \in 1 .. Len(rest) : i < j => Above(rest[i], rest[j]),
         \A i \in 1 .. Len(ops), j \in 1 .. Len(rest) : Above(ops[i], rest[j])
  PROVE  /\ todo' \in Seq(AllOps) /\ Ordered'
         /\ \A o : Has(o)' <=> Among(ops, o) \/ Among(rest, o)
         /\ \A b : Frees(b)' <=> AmongFrees(ops, b) \/ AmongFrees(rest, b)
<1> DEFINE m == Len(ops)  k == Len(rest)
<1>1. /\ todo' \in Seq(AllOps) /\ m \in Nat /\ k \in Nat /\ Len(todo') = m + k
      /\ \A i \in 1 .. m : todo'[i] = ops[i]
      /\ \A i \in m + 1 .. m + k : todo'[i] = rest[i - m]
  BY SMT
<1>0. m \in Nat /\ k \in Nat /\ Len(todo') = m + k
  BY <1>1
<1> HIDE DEF m, k
<1>2. Ordered'
  <2> SUFFICES ASSUME NEW i \in 1 .. Len(todo'), NEW j \in 1 .. Len(todo'), i < j
               PROVE  Above(todo'[i], todo'[j])
    BY DEF Ordered, Above, Up, Claims
  <2>1. CASE j <= m
    <3>1. i \in 1 .. m /\ j \in 1 .. m
      BY <1>1, <2>1, SMT
    <3> QED
      BY <1>1, <3>1 DEF m
  <2>2. CASE i > m
    <3>1. i - m \in 1 .. k /\ j - m \in 1 .. k /\ i - m < j - m /\ todo'[i] = rest[i - m] /\ todo'[j] = rest[j - m]
      BY <1>1, <2>2, SMT
    <3> QED
      BY <3>1 DEF k
  <2>3. CASE i <= m /\ j > m
    <3>1. i \in 1 .. m /\ j - m \in 1 .. k /\ todo'[i] = ops[i] /\ todo'[j] = rest[j - m]
      BY <1>1, <2>3, SMTT(30)
    <3> QED
      BY <3>1 DEF k, m
  <2> QED
    BY <1>1, <2>1, <2>2, <2>3, SMT
<1>3. \A i \in 1 .. Len(todo') : (i \in 1 .. m /\ todo'[i] = ops[i]) \/ (i - m \in 1 .. k /\ todo'[i] = rest[i - m])
  <2> SUFFICES ASSUME NEW i \in 1 .. Len(todo')
               PROVE  (i \in 1 .. m /\ todo'[i] = ops[i]) \/ (i - m \in 1 .. k /\ todo'[i] = rest[i - m])
    OBVIOUS
  <2>1. i \in 1 .. m \/ (i \in m + 1 .. m + k /\ i - m \in 1 .. k)
    BY <1>0, SMT
  <2> QED
    BY <1>1, <2>1
<1>4. \A i \in 1 .. m : i \in 1 .. Len(todo') /\ todo'[i] = ops[i]
  BY <1>1, SMT
<1>5. \A i \in 1 .. k : m + i \in 1 .. Len(todo') /\ todo'[m + i] = rest[i]
  <2> SUFFICES ASSUME NEW i \in 1 .. k PROVE m + i \in 1 .. Len(todo') /\ todo'[m + i] = rest[i]
    OBVIOUS
  <2>1. m + i \in m + 1 .. m + k /\ m + i \in 1 .. m + k /\ (m + i) - m = i
    BY <1>0, SMT
  <2> QED
    BY <1>1, <2>1
<1>6. ASSUME NEW o PROVE Has(o)' <=> Among(ops, o) \/ Among(rest, o)
  BY <1>3, <1>4, <1>5, ZenonT(30) DEF Has, Among, m, k
<1>7. ASSUME NEW b PROVE Frees(b)' <=> AmongFrees(ops, b) \/ AmongFrees(rest, b)
  <2>1. ASSUME Frees(b)' PROVE AmongFrees(ops, b) \/ AmongFrees(rest, b)
    <3>1. PICK i \in 1 .. Len(todo') : todo'[i][1] = "free" /\ b \in todo'[i][2]
      BY <2>1 DEF Frees
    <3> QED
      BY <1>3, <3>1 DEF AmongFrees, m, k
  <2>2. ASSUME AmongFrees(ops, b) PROVE Frees(b)'
    <3>1. PICK i \in 1 .. m : ops[i][1] = "free" /\ b \in ops[i][2]
      BY <2>2 DEF AmongFrees, m
    <3> QED
      BY <1>4, <3>1 DEF Frees
  <2>3. ASSUME AmongFrees(rest, b) PROVE Frees(b)'
    <3>1. PICK i \in 1 .. k : rest[i][1] = "free" /\ b \in rest[i][2]
      BY <2>3 DEF AmongFrees, k
    <3> QED
      BY <1>5, <3>1 DEF Frees
  <2> QED
    BY <2>1, <2>2, <2>3
<1> QED
  BY <1>1, <1>2, <1>6, <1>7

(* The names of the operations.                                             *)
Kinds1 == {"drop", "release", "Future_free", "settle", "tally", "hook", "complete", "arm", "free", "call"}

(* Operations are told apart by their names and arguments. *)
LEMMA OpFacts ==
  /\ \A o \in AllOps : o[1] \in Kinds1
  /\ \A a, b, x, y : Op(a, x) = Op(b, y) <=> a = b /\ x = y
  /\ \A a, x : Op(a, x)[1] = a /\ Op(a, x)[2] = x
  /\ \A n, v : Complete(n, v)[1] = "complete" /\ Complete(n, v)[2] = n /\ Complete(n, v)[3] = v
  /\ \A n, v : Arm(n, v)[1] = "arm" /\ Arm(n, v)[2] = n /\ Arm(n, v)[3] = v
  /\ \A n, v, m, w : Complete(n, v) = Complete(m, w) <=> n = m /\ v = w
  /\ \A n, v, m, w : Arm(n, v) = Arm(m, w) <=> n = m /\ v = w
  /\ \A e : FreeAll(e)[1] = "free" /\ FreeAll(e)[2] = e
<1>1. \A o \in AllOps : o[1] \in Kinds1
  BY SMT DEF AllOps, Kinds1
<1>2. \A a, b, x, y : Op(a, x) = Op(b, y) <=> a = b /\ x = y
  BY SMT DEF Op
<1>3. \A n, v, m, w : Complete(n, v) = Complete(m, w) <=> n = m /\ v = w
  BY SMT DEF Complete
<1>4. \A n, v, m, w : Arm(n, v) = Arm(m, w) <=> n = m /\ v = w
  BY SMT DEF Arm
<1> QED
  BY <1>1, <1>2, <1>3, <1>4, SMT DEF Op, Complete, Arm, FreeAll

(* So are blocks. *)
LEMMA BlockFacts ==
  /\ \A n : Fut(n) = Op("fut", n) /\ Cnt(n) = Op("cnt", n) /\ Cas(n) = Op("cas", n) /\ Drp(n) = Op("drp", n)
            /\ Cb(n) = Op("cb", n) /\ Resume(n) = Op("resume", n) /\ Reap(n) = Op("reap", n)
  /\ \A n, s, m, u : On(n, s) = On(m, u) <=> n = m /\ s = u
  /\ \A n, s : On(n, s)[1] = "on" /\ On(n, s)[2] = n /\ On(n, s)[3] = s
<1>1. \A n, s, m, u : On(n, s) = On(m, u) <=> n = m /\ s = u
  BY SMT DEF On
<1> QED
  BY <1>1, SMT DEF Op, Fut, Cnt, Cas, Drp, Cb, Resume, Reap, On

(* The stack without its head; its head; what an operation frees; and what  *)
(* may run above what is below the head.                                    *)
Rest == IF todo = <<>> THEN <<>> ELSE Tail(todo)
AtHead(o) == todo # <<>> /\ Head(todo) = o
FreesIn(o) == IF o[1] = "free" THEN o[2] ELSE {}
Fits(a) == \A i \in 1 .. Len(Rest) : Above(a, Rest[i])

(* After the step the head gave way to the operations of S, and what the    *)
(* head frees to E.                                                         *)
Replaced(S) == \A o : o[1] # "free" => (Has(o)' <=> o \in S \/ (Has(o) /\ ~AtHead(o)))
FreesAre(E) == \A b : Frees(b)' <=> b \in E \/ (Frees(b) /\ ~(todo # <<>> /\ b \in FreesIn(Head(todo))))

(* A stack in order, without its head.                                      *)
LEMMA RestFacts ==
  ASSUME Typed, Ordered
  PROVE  /\ Rest \in Seq(AllOps)
         /\ \A i, j \in 1 .. Len(Rest) : i < j => Above(Rest[i], Rest[j])
         /\ \A i \in 1 .. Len(Rest) : Rest[i] \in AllOps /\ Rest[i][1] \notin {"call", "tally"}
         /\ todo # <<>> => /\ Head(todo) \in AllOps /\ Fits(Head(todo)) /\ Has(Head(todo))
         /\ \A o : Has(o) <=> AtHead(o) \/ Among(Rest, o)
         /\ \A b : Frees(b) <=> (todo # <<>> /\ b \in FreesIn(Head(todo))) \/ AmongFrees(Rest, b)
<1>1. todo \in Seq(AllOps)
  BY DEF Typed
<1>2. CASE todo = <<>>
  <2>1. Rest = <<>> /\ Len(Rest) = 0 /\ Len(todo) = 0
    BY <1>2, SMT DEF Rest
  <2>2. Rest \in Seq(AllOps) /\ \A i \in 1 .. Len(Rest) : FALSE
    BY <2>1, SMT
  <2>3. \A i \in 1 .. Len(todo) : FALSE
    BY <2>1, SMT
  <2> QED
    BY <1>2, <2>2, <2>3, Zenon DEF Has, Frees, Among, AmongFrees, AtHead
<1>3. CASE todo # <<>>
  <2>1. /\ Rest = Tail(todo) /\ Rest \in Seq(AllOps) /\ Len(todo) \in Nat /\ Len(todo) > 0 /\ Len(Rest) = Len(todo) - 1
        /\ Head(todo) = todo[1]
        /\ \A i \in 1 .. Len(Rest) : Rest[i] = todo[i + 1]
    BY <1>1, <1>3, SMT DEF Rest
  <2>2. \A i \in 1 .. Len(todo) : todo[i] \in AllOps
    BY <1>1
  <2>3. \A i \in 1 .. Len(Rest) : i + 1 \in 1 .. Len(todo) /\ 1 \in 1 .. Len(todo) /\ 1 < i + 1
    BY <2>1, SMT
  <2>4. \A i, j \in 1 .. Len(Rest) : i < j => i + 1 < j + 1
    BY <2>1, SMT
  <2>5. \A i, j \in 1 .. Len(Rest) : i < j => Above(Rest[i], Rest[j])
    BY <2>1, <2>3, <2>4 DEF Ordered
  <2>6. \A i \in 1 .. Len(Rest) : Above(Head(todo), Rest[i])
    BY <2>1, <2>3 DEF Ordered
  <2>7. \A i \in 1 .. Len(Rest) : Rest[i] \in AllOps /\ Rest[i][1] \notin {"call", "tally"}
    BY <2>1, <2>2, <2>3, <2>6 DEF Above
  <2>8. Head(todo) \in AllOps
    BY <2>1, <2>2, SMT
  <2>9. \A i \in 1 .. Len(todo) : i = 1 \/ (i - 1 \in 1 .. Len(Rest) /\ todo[i] = Rest[i - 1])
    <3> SUFFICES ASSUME NEW i \in 1 .. Len(todo), i # 1 PROVE i - 1 \in 1 .. Len(Rest) /\ todo[i] = Rest[i - 1]
      OBVIOUS
    <3>1. i - 1 \in 1 .. Len(Rest) /\ (i - 1) + 1 = i
      BY <2>1, SMT
    <3> QED
      BY <2>1, <3>1
  <2>10. 1 \in 1 .. Len(todo)
    BY <2>1, SMT
  <2>11. ASSUME NEW o PROVE Has(o) <=> AtHead(o) \/ Among(Rest, o)
    BY <1>3, <2>1, <2>3, <2>9, <2>10, ZenonT(30) DEF Has, AtHead, Among
  <2>12. ASSUME NEW b PROVE Frees(b) <=> b \in FreesIn(Head(todo)) \/ AmongFrees(Rest, b)
    <3>1. b \in FreesIn(Head(todo)) <=> todo[1][1] = "free" /\ b \in todo[1][2]
      BY <2>1, SMT DEF FreesIn
    <3>2. ASSUME Frees(b) PROVE b \in FreesIn(Head(todo)) \/ AmongFrees(Rest, b)
      <4>1. PICK i \in 1 .. Len(todo) : todo[i][1] = "free" /\ b \in todo[i][2]
        BY <3>2 DEF Frees
      <4> QED
        BY <2>9, <3>1, <4>1 DEF AmongFrees
    <3>3. ASSUME AmongFrees(Rest, b) PROVE Frees(b)
      <4>1. PICK i \in 1 .. Len(Rest) : Rest[i][1] = "free" /\ b \in Rest[i][2]
        BY <3>3 DEF AmongFrees
      <4> QED
        BY <2>1, <2>3, <4>1 DEF Frees
    <3> QED
      BY <2>10, <3>1, <3>2, <3>3 DEF Frees
  <2>13. Has(Head(todo)) /\ Fits(Head(todo))
    BY <2>1, <2>6, <2>10 DEF Has, Fits
  <2> QED
    BY <1>3, <2>1, <2>5, <2>7, <2>8, <2>11, <2>12, <2>13
<1> QED
  BY <1>2, <1>3

(* The head of the stack is not below it as well. *)
LEMMA HeadOnce ==
  ASSUME Typed, Ordered, todo # <<>>
  PROVE  /\ \A o : o[1] # "free" => (Among(Rest, o) <=> Has(o) /\ ~AtHead(o))
         /\ \A b : AmongFrees(Rest, b) <=> Frees(b) /\ b \notin FreesIn(Head(todo))
         /\ Up(Head(todo)) => \A o : Has(o) => o[1] = "free" \/ AtHead(o)
<1> DEFINE h == Head(todo)
<1>1. \A i \in 1 .. Len(Rest) : Above(h, Rest[i]) /\ Rest[i] \in AllOps
  BY RestFacts DEF Fits
<1>2. h[1] \in Kinds1
  BY RestFacts, OpFacts
<1> HIDE DEF h
<1>3. ASSUME NEW o, o[1] # "free", Among(Rest, o) PROVE o # h
  <2>1. SUFFICES ASSUME o = h PROVE FALSE
    OBVIOUS
  <2>2. Above(h, h)
    BY <1>1, <1>3, <2>1 DEF Among
  <2>3. h[1] \notin {"call", "tally"} /\ (Up(h) => h[1] = "free") /\ Claims(h) \cap Claims(h) = {}
    BY <2>2 DEF Above
  <2>4. h[1] \in {"drop", "release", "Future_free", "settle"}
    BY <1>2, <1>3, <2>1, <2>3, SMT DEF Up, Kinds1
  <2>5. Claims(h) # {}
    BY <2>4, SMT DEF Claims
  <2> QED
    BY <2>3, <2>5
<1>4. ASSUME NEW b, AmongFrees(Rest, b), b \in FreesIn(h) PROVE FALSE
  <2>1. PICK i \in 1 .. Len(Rest) : Rest[i][1] = "free" /\ b \in Rest[i][2]
    BY <1>4 DEF AmongFrees
  <2>2. h[1] = "free" /\ b \in h[2]
    BY <1>4, SMT DEF FreesIn
  <2>3. b \in Claims(h) /\ b \in Claims(Rest[i])
    BY <2>1, <2>2, SMT DEF Claims
  <2> QED
    BY <1>1, <2>3 DEF Above
<1>5. ASSUME Up(h), NEW o, Has(o) PROVE o[1] = "free" \/ AtHead(o)
  BY <1>1, <1>5, RestFacts DEF Above, Among
<1> QED
  BY <1>3, <1>4, <1>5, RestFacts DEF h, AtHead

(* The head gives way to ops.                                               *)
LEMMA Pushed ==
  ASSUME Typed, Ordered, NEW ops \in Seq(AllOps), todo' = ops \o Rest,
         \A i, j \in 1 .. Len(ops) : i < j => Above(ops[i], ops[j]),
         \A i \in 1 .. Len(ops) : Fits(ops[i])
  PROVE  /\ todo' \in Seq(AllOps) /\ Ordered'
         /\ \A o : o[1] # "free" => (Has(o)' <=> Among(ops, o) \/ (Has(o) /\ ~AtHead(o)))
         /\ \A b : Frees(b)' <=> AmongFrees(ops, b) \/ (Frees(b) /\ ~(todo # <<>> /\ b \in FreesIn(Head(todo))))
<1>1. /\ todo' \in Seq(AllOps) /\ Ordered'
      /\ \A o : Has(o)' <=> Among(ops, o) \/ Among(Rest, o)
      /\ \A b : Frees(b)' <=> AmongFrees(ops, b) \/ AmongFrees(Rest, b)
  BY RestFacts, Stacked DEF Fits
<1>2. \A o : o[1] # "free" => (Among(Rest, o) <=> Has(o) /\ ~AtHead(o))
  <2>1. CASE todo = <<>>
    BY <2>1, RestFacts DEF AtHead
  <2> QED
    BY <2>1, HeadOnce
<1>3. \A b : AmongFrees(Rest, b) <=> Frees(b) /\ ~(todo # <<>> /\ b \in FreesIn(Head(todo)))
  <2>1. CASE todo = <<>>
    BY <2>1, RestFacts
  <2> QED
    BY <2>1, HeadOnce
<1> QED
  BY <1>1, <1>2, <1>3

(* The head returns.                                                        *)
LEMMA Push0 ==
  ASSUME Typed, Ordered, todo # <<>> /\ Then(<<>>)
  PROVE  todo' \in Seq(AllOps) /\ Ordered' /\ Replaced({}) /\ FreesAre({})
<1> DEFINE ops == <<>>
<1>1. ops \in Seq(AllOps) /\ Len(ops) = 0 /\ \A i \in 1 .. Len(ops) : FALSE
  BY SMT
<1>2. todo' = ops \o Rest
  BY DEF Then, Rest
<1>3. (\A o : ~Among(ops, o)) /\ \A b : ~AmongFrees(ops, b)
  BY <1>1 DEF Among, AmongFrees
<1> HIDE DEF ops
<1> QED
  BY <1>1, <1>2, <1>3, Pushed, Zenon DEF Replaced, FreesAre

(* Then and Start are pushes.                                               *)
LEMMA ThenRest ==
  /\ \A ops : todo # <<>> /\ Then(ops) => todo' = ops \o Rest
  /\ \A ops \in Seq(AllOps) : todo = <<>> /\ Start(ops) => todo' = ops \o Rest
<1>1. \A ops : todo # <<>> /\ Then(ops) => todo' = ops \o Rest
  BY DEF Then, Rest
<1>2. ASSUME NEW ops \in Seq(AllOps), todo = <<>>, Start(ops) PROVE todo' = ops \o Rest
  <2>1. todo' = ops /\ Rest = <<>>
    BY <1>2 DEF Start, Rest
  <2> QED
    BY <2>1, SMT
<1> QED
  BY <1>1, <1>2

(* What FreesIn says.                                                       *)
LEMMA InFrees == \A o, b : b \in FreesIn(o) <=> o[1] = "free" /\ b \in o[2]
BY SMT DEF FreesIn

(* One operation instead of the head.                                       *)
LEMMA Push1 ==
  ASSUME Typed, Ordered, NEW a \in AllOps, todo' = <<a>> \o Rest,
         Fits(a)
  PROVE  todo' \in Seq(AllOps) /\ Ordered' /\ Replaced({a}) /\ FreesAre(FreesIn(a))
<1> DEFINE ops == <<a>>
           S == {a}
           E == FreesIn(a)
<1>1. ops \in Seq(AllOps) /\ Len(ops) = 1 /\ 1 .. Len(ops) = {1} /\ ops[1] = a
  BY SMT
<1>2. todo' = ops \o Rest
  OBVIOUS
<1> HIDE DEF ops
<1>3. \A i, j \in 1 .. Len(ops) : i < j => Above(ops[i], ops[j])
  BY <1>1, SMT
<1>4. \A i \in 1 .. Len(ops) : Fits(ops[i])
  BY <1>1, SMT
<1>5. \A o : Among(ops, o) <=> o \in S
  BY <1>1 DEF Among
<1>6. \A y : AmongFrees(ops, y) <=> y \in E
  <2> SUFFICES ASSUME NEW y PROVE AmongFrees(ops, y) <=> y \in E
    OBVIOUS
  <2>1. AmongFrees(ops, y) <=> \E i \in {1} : ops[i][1] = "free" /\ y \in ops[i][2]
    BY <1>1 DEF AmongFrees
  <2>2. AmongFrees(ops, y) <=> (a[1] = "free" /\ y \in a[2])
    BY <1>1, <2>1, SMT
  <2>3. y \in E <=> (a[1] = "free" /\ y \in a[2])
    BY InFrees
  <2> QED
    BY <2>2, <2>3
<1> HIDE DEF S, E
<1>7. Replaced(S) /\ FreesAre(E)
  BY <1>1, <1>2, <1>3, <1>4, <1>5, <1>6, Pushed, Zenon DEF Replaced, FreesAre
<1> QED
  BY <1>1, <1>2, <1>3, <1>4, <1>7, Pushed, Zenon DEF S, E

(* Two operations.                                                          *)
LEMMA Push2 ==
  ASSUME Typed, Ordered, NEW a \in AllOps, NEW b \in AllOps, todo' = <<a, b>> \o Rest,
         Above(a, b),
         Fits(a), Fits(b)
  PROVE  todo' \in Seq(AllOps) /\ Ordered' /\ Replaced({a, b}) /\ FreesAre(FreesIn(a) \cup FreesIn(b))
<1> DEFINE ops == <<a, b>>
           S == {a, b}
           E == FreesIn(a) \cup FreesIn(b)
<1>1. ops \in Seq(AllOps) /\ Len(ops) = 2 /\ 1 .. Len(ops) = {1, 2} /\ ops[1] = a /\ ops[2] = b
  BY SMT
<1>2. todo' = ops \o Rest
  OBVIOUS
<1> HIDE DEF ops
<1>3. \A i, j \in 1 .. Len(ops) : i < j => Above(ops[i], ops[j])
  BY <1>1, SMT
<1>4. \A i \in 1 .. Len(ops) : Fits(ops[i])
  BY <1>1, SMT
<1>5. \A o : Among(ops, o) <=> o \in S
  BY <1>1 DEF Among
<1>6. \A y : AmongFrees(ops, y) <=> y \in E
  <2> SUFFICES ASSUME NEW y PROVE AmongFrees(ops, y) <=> y \in E
    OBVIOUS
  <2>1. AmongFrees(ops, y) <=> \E i \in {1, 2} : ops[i][1] = "free" /\ y \in ops[i][2]
    BY <1>1 DEF AmongFrees
  <2>2. AmongFrees(ops, y) <=> (a[1] = "free" /\ y \in a[2]) \/ (b[1] = "free" /\ y \in b[2])
    BY <1>1, <2>1, SMT
  <2>3. y \in E <=> (a[1] = "free" /\ y \in a[2]) \/ (b[1] = "free" /\ y \in b[2])
    BY InFrees
  <2> QED
    BY <2>2, <2>3
<1> HIDE DEF S, E
<1>7. Replaced(S) /\ FreesAre(E)
  BY <1>1, <1>2, <1>3, <1>4, <1>5, <1>6, Pushed, Zenon DEF Replaced, FreesAre
<1> QED
  BY <1>1, <1>2, <1>3, <1>4, <1>7, Pushed, Zenon DEF S, E

(* Three.                                                                   *)
LEMMA Push3 ==
  ASSUME Typed, Ordered, NEW a \in AllOps, NEW b \in AllOps, NEW c \in AllOps, todo' = <<a, b, c>> \o Rest,
         Above(a, b), Above(a, c), Above(b, c),
         Fits(a), Fits(b), Fits(c)
  PROVE  todo' \in Seq(AllOps) /\ Ordered' /\ Replaced({a, b, c}) /\ FreesAre(FreesIn(a) \cup FreesIn(b) \cup FreesIn(c))
<1> DEFINE ops == <<a, b, c>>
           S == {a, b, c}
           E == FreesIn(a) \cup FreesIn(b) \cup FreesIn(c)
<1>1. ops \in Seq(AllOps) /\ Len(ops) = 3 /\ 1 .. Len(ops) = {1, 2, 3} /\ ops[1] = a /\ ops[2] = b /\ ops[3] = c
  BY SMT
<1>2. todo' = ops \o Rest
  OBVIOUS
<1> HIDE DEF ops
<1>3. \A i, j \in 1 .. Len(ops) : i < j => Above(ops[i], ops[j])
  BY <1>1, SMT
<1>4. \A i \in 1 .. Len(ops) : Fits(ops[i])
  BY <1>1, SMT
<1>5. \A o : Among(ops, o) <=> o \in S
  BY <1>1 DEF Among
<1>6. \A y : AmongFrees(ops, y) <=> y \in E
  <2> SUFFICES ASSUME NEW y PROVE AmongFrees(ops, y) <=> y \in E
    OBVIOUS
  <2>1. AmongFrees(ops, y) <=> \E i \in {1, 2, 3} : ops[i][1] = "free" /\ y \in ops[i][2]
    BY <1>1 DEF AmongFrees
  <2>2. AmongFrees(ops, y) <=> (a[1] = "free" /\ y \in a[2]) \/ (b[1] = "free" /\ y \in b[2]) \/ (c[1] = "free" /\ y \in c[2])
    BY <1>1, <2>1, SMT
  <2>3. y \in E <=> (a[1] = "free" /\ y \in a[2]) \/ (b[1] = "free" /\ y \in b[2]) \/ (c[1] = "free" /\ y \in c[2])
    BY InFrees
  <2> QED
    BY <2>2, <2>3
<1> HIDE DEF S, E
<1>7. Replaced(S) /\ FreesAre(E)
  BY <1>1, <1>2, <1>3, <1>4, <1>5, <1>6, Pushed, Zenon DEF Replaced, FreesAre
<1> QED
  BY <1>1, <1>2, <1>3, <1>4, <1>7, Pushed, Zenon DEF S, E

(* Four.                                                                    *)
LEMMA Push4 ==
  ASSUME Typed, Ordered, NEW a \in AllOps, NEW b \in AllOps, NEW c \in AllOps, NEW d \in AllOps, todo' = <<a, b, c, d>> \o Rest,
         Above(a, b), Above(a, c), Above(a, d), Above(b, c), Above(b, d), Above(c, d),
         Fits(a), Fits(b), Fits(c), Fits(d)
  PROVE  todo' \in Seq(AllOps) /\ Ordered' /\ Replaced({a, b, c, d}) /\ FreesAre(FreesIn(a) \cup FreesIn(b) \cup FreesIn(c) \cup FreesIn(d))
<1> DEFINE ops == <<a, b, c, d>>
           S == {a, b, c, d}
           E == FreesIn(a) \cup FreesIn(b) \cup FreesIn(c) \cup FreesIn(d)
<1>1. ops \in Seq(AllOps) /\ Len(ops) = 4 /\ 1 .. Len(ops) = {1, 2, 3, 4} /\ ops[1] = a /\ ops[2] = b /\ ops[3] = c /\ ops[4] = d
  BY SMT
<1>2. todo' = ops \o Rest
  OBVIOUS
<1> HIDE DEF ops
<1>3. \A i, j \in 1 .. Len(ops) : i < j => Above(ops[i], ops[j])
  BY <1>1, SMT
<1>4. \A i \in 1 .. Len(ops) : Fits(ops[i])
  BY <1>1, SMT
<1>5. \A o : Among(ops, o) <=> o \in S
  BY <1>1 DEF Among
<1>6. \A y : AmongFrees(ops, y) <=> y \in E
  <2> SUFFICES ASSUME NEW y PROVE AmongFrees(ops, y) <=> y \in E
    OBVIOUS
  <2>1. AmongFrees(ops, y) <=> \E i \in {1, 2, 3, 4} : ops[i][1] = "free" /\ y \in ops[i][2]
    BY <1>1 DEF AmongFrees
  <2>2. AmongFrees(ops, y) <=> (a[1] = "free" /\ y \in a[2]) \/ (b[1] = "free" /\ y \in b[2]) \/ (c[1] = "free" /\ y \in c[2]) \/ (d[1] = "free" /\ y \in d[2])
    BY <1>1, <2>1, SMT
  <2>3. y \in E <=> (a[1] = "free" /\ y \in a[2]) \/ (b[1] = "free" /\ y \in b[2]) \/ (c[1] = "free" /\ y \in c[2]) \/ (d[1] = "free" /\ y \in d[2])
    BY InFrees
  <2> QED
    BY <2>2, <2>3
<1> HIDE DEF S, E
<1>7. Replaced(S) /\ FreesAre(E)
  BY <1>1, <1>2, <1>3, <1>4, <1>5, <1>6, Pushed, Zenon DEF Replaced, FreesAre
<1> QED
  BY <1>1, <1>2, <1>3, <1>4, <1>7, Pushed, Zenon DEF S, E

(* What each operation claims.                                              *)
LEMMA ClaimsOf ==
  /\ \A n : \A a \in {"drop", "release", "Future_free"} : Claims(Op(a, n)) = {Fut(n)} /\ ~Up(Op(a, n))
  /\ \A n : Claims(Op("settle", n)) = {Drp(n)} /\ ~Up(Op("settle", n))
  /\ \A e : Claims(FreeAll(e)) = e /\ ~Up(FreeAll(e)) /\ FreesIn(FreeAll(e)) = e
  /\ \A n, v : Claims(Complete(n, v)) = {} /\ Up(Complete(n, v)) /\ FreesIn(Complete(n, v)) = {}
  /\ \A n, v : Claims(Arm(n, v)) = {} /\ Up(Arm(n, v)) /\ FreesIn(Arm(n, v)) = {}
  /\ \A n : \A a \in {"hook", "tally"} : Claims(Op(a, n)) = {} /\ Up(Op(a, n))
  /\ \A c : Claims(Op("call", c)) = {} /\ (Up(Op("call", c)) <=> c \in Resuming \cup Hooked)
  /\ \A a, x : a # "free" => FreesIn(Op(a, x)) = {}
<1>1. \A n : \A a \in {"drop", "release", "Future_free"} : Claims(Op(a, n)) = {Fut(n)} /\ ~Up(Op(a, n))
  BY OpFacts, SMT DEF Claims, Up
<1>2. \A n : Claims(Op("settle", n)) = {Drp(n)} /\ ~Up(Op("settle", n))
  BY OpFacts, SMT DEF Claims, Up
<1>3. \A e : Claims(FreeAll(e)) = e /\ ~Up(FreeAll(e)) /\ FreesIn(FreeAll(e)) = e
  BY OpFacts, SMT DEF Claims, Up, FreesIn
<1>4. \A n, v : Claims(Complete(n, v)) = {} /\ Up(Complete(n, v)) /\ FreesIn(Complete(n, v)) = {}
  BY OpFacts, SMT DEF Claims, Up, FreesIn
<1>5. \A n, v : Claims(Arm(n, v)) = {} /\ Up(Arm(n, v)) /\ FreesIn(Arm(n, v)) = {}
  BY OpFacts, SMT DEF Claims, Up, FreesIn
<1>6. \A n : \A a \in {"hook", "tally"} : Claims(Op(a, n)) = {} /\ Up(Op(a, n))
  BY OpFacts, SMT DEF Claims, Up
<1>7. \A c : Claims(Op("call", c)) = {} /\ (Up(Op("call", c)) <=> c \in Resuming \cup Hooked)
  BY OpFacts, SMT DEF Claims, Up
<1>8. \A a, x : a # "free" => FreesIn(Op(a, x)) = {}
  BY OpFacts, SMT DEF FreesIn
<1> QED
  BY <1>1, <1>2, <1>3, <1>4, <1>5, <1>6, <1>7, <1>8, Zenon

(* What an operation below the head may claim. *)
LEMMA EnvKinds ==
  /\ \A b \in Envs : \A n : b # Fut(n) /\ b # Drp(n) /\ b # Cas(n)
  /\ \A b \in Resuming \cup Hooked : \A n : b # Fut(n) /\ b # Drp(n) /\ b # Cas(n)
  /\ \A n \in Nodes : Resume(n) \in Resuming /\ Reap(n) \in Resuming
  /\ \A n \in Combs : On(n, 0) \in Hooked /\ On(n, 1) \in Hooked /\ Cas(n) \in OnDrops /\ Cnt(n) \in Envs
  /\ \A l \in Leaves : Drp(l) \in OnDrops /\ Cb(l) \in Envs
  /\ Resuming \cup Hooked \subseteq Envs
<1>1. \A b \in Envs : b[1] \in {"resume", "reap", "on", "cb", "cnt"}
  BY SMT DEF Envs, Resuming, Hooked, Resume, Reap, On, Cb, Cnt
<1>2. \A n : Fut(n)[1] = "fut" /\ Drp(n)[1] = "drp" /\ Cas(n)[1] = "cas"
  BY SMT DEF Fut, Drp, Cas
<1>3. \A b \in Envs : \A n : b # Fut(n) /\ b # Drp(n) /\ b # Cas(n)
  BY <1>1, <1>2, SMT
<1>4. \A n \in Nodes : Resume(n) \in Resuming /\ Reap(n) \in Resuming
  BY Zenon DEF Resuming
<1>5. \A n \in Combs : On(n, 0) \in Hooked /\ On(n, 1) \in Hooked
  BY SMT DEF Hooked
<1>6. \A n \in Combs : Cas(n) \in OnDrops /\ Cnt(n) \in Envs
  BY SMT DEF OnDrops, Envs
<1>7. \A l \in Leaves : Drp(l) \in OnDrops /\ Cb(l) \in Envs
  BY SMT DEF OnDrops, Envs
<1>8. Resuming \cup Hooked \subseteq Envs
  BY DEF Envs
<1> QED
  BY <1>3, <1>4, <1>5, <1>6, <1>7, <1>8

(* A claim is a future to free, a future to settle, or a closure or counter *)
(* to free.                                                                 *)
LEMMA ClaimsBelow ==
  ASSUME NEW o \in AllOps, NEW b, b \in Claims(o)
  PROVE  \/ \E a \in {"drop", "release", "Future_free"}, n \in Nodes : o = Op(a, n) /\ b = Fut(n)
         \/ \E n \in Nodes : o = Op("settle", n) /\ b = Drp(n)
         \/ o[1] = "free" /\ b \in o[2] /\ b \in Envs
<1>1. o[1] \in {"drop", "release", "Future_free", "settle", "free"}
  BY SMT DEF Claims
<1>2. CASE o[1] \in {"drop", "release", "Future_free"}
  <2>1. o = <<o[1], o[2]>> /\ o[2] \in Nodes
    BY <1>2, SMT DEF AllOps
  <2>2. Claims(o) = {Fut(o[2])}
    BY <1>2, SMT DEF Claims
  <2> QED
    BY <1>2, <2>1, <2>2 DEF Op
<1>3. CASE o[1] = "settle"
  <2>1. o = <<o[1], o[2]>> /\ o[2] \in Nodes
    BY <1>3, SMT DEF AllOps
  <2>2. Claims(o) = {Drp(o[2])}
    BY <1>3, SMT DEF Claims
  <2> QED
    BY <1>3, <2>1, <2>2 DEF Op
<1>4. CASE o[1] = "free"
  <2>1. o[2] \subseteq Envs
    BY <1>4, SMT DEF AllOps
  <2>2. Claims(o) = o[2]
    BY <1>4, SMT DEF Claims
  <2> QED
    BY <1>4, <2>1, <2>2
<1> QED
  BY <1>1, <1>2, <1>3, <1>4

(* An operation may run now when nothing below claims the same.             *)
LEMMA FitsFacts ==
  ASSUME Typed, Ordered
  PROVE  /\ \A n \in Nodes : \A a \in {"drop", "release", "Future_free"} :
              ~Claimed(n) \/ (todo # <<>> /\ Fut(n) \in Claims(Head(todo))) => Fits(Op(a, n))
         /\ \A n \in Nodes : ~Settles(n) => Fits(Op("settle", n))
         /\ \A e \in SUBSET Envs : (\A b \in e : ~Frees(b)) => Fits(FreeAll(e))
         /\ \A a : Claims(a) = {} /\ (Up(a) => todo = <<>> \/ Up(Head(todo))) => Fits(a)
<1>1. ASSUME NEW i \in 1 .. Len(Rest)
      PROVE  /\ Rest[i] \in AllOps /\ Rest[i][1] \notin {"call", "tally"} /\ Has(Rest[i])
             /\ todo # <<>> => Above(Head(todo), Rest[i])
  BY RestFacts DEF Fits, Among
<1>2. ASSUME NEW i \in 1 .. Len(Rest), NEW b, b \in Claims(Rest[i])
      PROVE  /\ \A n : b = Fut(n) => Claimed(n)
             /\ \A n : b = Drp(n) => Settles(n)
             /\ b \in Envs => Frees(b)
             /\ todo # <<>> => b \notin Claims(Head(todo))
  <2>1. Rest[i] \in AllOps /\ Has(Rest[i])
    BY <1>1
  <2>2. todo # <<>> => b \notin Claims(Head(todo))
    BY <1>1, <1>2 DEF Above
  <2>3. \A n, m : (Fut(n) = Fut(m) <=> n = m) /\ (Drp(n) = Drp(m) <=> n = m) /\ Fut(n) # Drp(m)
    BY BlockFacts, OpFacts, SMT
  <2>4. CASE \E a \in {"drop", "release", "Future_free"}, n \in Nodes : Rest[i] = Op(a, n) /\ b = Fut(n)
    <3>1. PICK a \in {"drop", "release", "Future_free"}, n \in Nodes : Rest[i] = Op(a, n) /\ b = Fut(n)
      BY <2>4
    <3>2. Has(Op(a, n))
      BY <2>1, <3>1
    <3>3. Claimed(n)
      BY <3>1, <3>2, SMT DEF Claimed, Drops, Releases, FreesNode
    <3> QED
      BY <2>2, <2>3, <3>1, <3>3, EnvKinds
  <2>5. CASE \E n \in Nodes : Rest[i] = Op("settle", n) /\ b = Drp(n)
    BY <2>1, <2>2, <2>3, <2>5, EnvKinds, Zenon DEF Settles
  <2>6. CASE Rest[i][1] = "free" /\ b \in Rest[i][2] /\ b \in Envs
    <3>1. Frees(b)
      BY <2>6, RestFacts DEF AmongFrees
    <3> QED
      BY <2>2, <2>6, <3>1, EnvKinds, Zenon
  <2> QED
    BY <1>2, <2>1, <2>4, <2>5, <2>6, ClaimsBelow
<1>3. ASSUME NEW n \in Nodes, NEW a \in {"drop", "release", "Future_free"},
             ~Claimed(n) \/ (todo # <<>> /\ Fut(n) \in Claims(Head(todo)))
      PROVE  Fits(Op(a, n))
  <2>1. ASSUME NEW i \in 1 .. Len(Rest) PROVE Fut(n) \notin Claims(Rest[i])
    BY <1>2, <1>3
  <2> QED
    BY <1>1, <2>1, ClaimsOf DEF Fits, Above
<1>4. ASSUME NEW n \in Nodes, ~Settles(n) PROVE Fits(Op("settle", n))
  <2>1. ASSUME NEW i \in 1 .. Len(Rest) PROVE Drp(n) \notin Claims(Rest[i])
    BY <1>2, <1>4
  <2> QED
    BY <1>1, <2>1, ClaimsOf DEF Fits, Above
<1>5. ASSUME NEW e \in SUBSET Envs, \A b \in e : ~Frees(b) PROVE Fits(FreeAll(e))
  <2>1. ASSUME NEW i \in 1 .. Len(Rest), NEW b \in e PROVE b \notin Claims(Rest[i])
    BY <1>2, <1>5
  <2> QED
    BY <1>1, <2>1, ClaimsOf DEF Fits, Above
<1>6. ASSUME NEW a, Claims(a) = {}, Up(a) => todo = <<>> \/ Up(Head(todo)) PROVE Fits(a)
  <2>1. CASE todo = <<>>
    <3>1. \A i \in 1 .. Len(Rest) : FALSE
      BY <2>1, SMT DEF Rest
    <3> QED
      BY <3>1 DEF Fits
  <2>2. CASE todo # <<>>
    BY <1>1, <1>6, <2>2 DEF Fits, Above
  <2> QED
    BY <2>1, <2>2
<1> QED
  BY <1>3, <1>4, <1>5, <1>6, Zenon

-----------------------------------------------------------------------------
(* What a step leaves alone.                                                *)

(* The future an operation is about.                                        *)
Subject(o) == IF o[1] = "call" THEN o[2][2] ELSE o[2]

(* The operations on x stay as they are.                                    *)
OpsSame(x) ==
  /\ Drops(x)' <=> Drops(x)
  /\ Releases(x)' <=> Releases(x)
  /\ FreesNode(x)' <=> FreesNode(x)
  /\ Settles(x)' <=> Settles(x)
  /\ Arms(x, 0)' <=> Arms(x, 0)
  /\ Arms(x, 1)' <=> Arms(x, 1)
  /\ Hooks(x)' <=> Hooks(x)
  /\ Tallies(x)' <=> Tallies(x)
  /\ \A v : Resolves(x, v)' <=> Resolves(x, v)
  /\ Calls(Resume(x))' <=> Calls(Resume(x))
  /\ Calls(Reap(x))' <=> Calls(Reap(x))
  /\ Calls(Cas(x))' <=> Calls(Cas(x))
  /\ Calls(Drp(x))' <=> Calls(Drp(x))
  /\ \A s : Calls(On(x, s))' <=> Calls(On(x, s))

(* x stays as it is.                                                        *)
Same(x) ==
  /\ OpsSame(x)
  /\ fut'[x] = fut[x]
  /\ Alive(x)' <=> Alive(x)
  /\ x \in mine' <=> x \in mine
  /\ x \in held' <=> x \in held
  /\ x \in taken' <=> x \in taken
  /\ x \in reg' <=> x \in reg
  /\ x \in done' <=> x \in done
  /\ x \in Combs => cnt'[x] = cnt[x]

(* The combinators and their inputs never change.                           *)
Fixed == kind' = kind /\ inputs' = inputs

(* The subjects of the operations.                                          *)
LEMMA Subjects ==
  /\ \A a, x : a # "call" => Subject(Op(a, x)) = x
  /\ \A x, v : Subject(Complete(x, v)) = x
  /\ \A x, v : Subject(Arm(x, v)) = x
  /\ \A x : /\ Subject(Op("call", Resume(x))) = x /\ Subject(Op("call", Reap(x))) = x
            /\ Subject(Op("call", Cas(x))) = x /\ Subject(Op("call", Drp(x))) = x
  /\ \A x, s : Subject(Op("call", On(x, s))) = x
  /\ \A a, x : Op(a, x)[1] = a
  /\ \A x, v : Complete(x, v)[1] # "free" /\ Arm(x, v)[1] # "free"
<1>1. \A a, x : a # "call" => Subject(Op(a, x)) = x
  BY OpFacts, SMT DEF Subject
<1>2. \A x, v : Subject(Complete(x, v)) = x
  BY OpFacts, SMT DEF Subject
<1>3. \A x, v : Subject(Arm(x, v)) = x
  BY OpFacts, SMT DEF Subject
<1>4. \A c : Subject(Op("call", c)) = c[2]
  BY OpFacts, SMT DEF Subject
<1>5. \A x, s : Subject(Op("call", On(x, s))) = x
  BY <1>4, BlockFacts, SMT
<1>6. \A x : Resume(x)[2] = x /\ Reap(x)[2] = x /\ Cas(x)[2] = x /\ Drp(x)[2] = x
  BY SMT DEF Resume, Reap, Cas, Drp
<1>7. \A a, x : Op(a, x)[1] = a
  BY OpFacts
<1>8. \A x, v : Complete(x, v)[1] # "free" /\ Arm(x, v)[1] # "free"
  BY OpFacts, SMT
<1> QED
  BY <1>1, <1>2, <1>3, <1>4, <1>5, <1>6, <1>7, <1>8, Zenon

(* Whatever is neither what just ran nor what it starts is not affected. *)
LEMMA SameOps ==
  ASSUME NEW S, Replaced(S), NEW x,
         \A o \in S : o[1] # "free" => Subject(o) # x,
         todo = <<>> \/ Head(todo)[1] = "free" \/ Subject(Head(todo)) # x
  PROVE  OpsSame(x)
<1>1. ASSUME NEW o, o[1] # "free", Subject(o) = x PROVE Has(o)' <=> Has(o)
  BY <1>1, Zenon DEF Replaced, AtHead
<1>2. \A a : a # "call" /\ a # "free" => (Has(Op(a, x))' <=> Has(Op(a, x)))
  BY <1>1, Subjects
<1>3. \A c : Op("call", c)[1] # "free"
  BY Subjects
<1>4. (\A v : Resolves(x, v)' <=> Resolves(x, v)) /\ \A v : Arms(x, v)' <=> Arms(x, v)
  BY <1>1, Subjects DEF Resolves, Arms
<1>5. \A s : Calls(On(x, s))' <=> Calls(On(x, s))
  BY <1>1, <1>3, Subjects DEF Calls
<1>6. /\ Calls(Resume(x))' <=> Calls(Resume(x))
      /\ Calls(Reap(x))' <=> Calls(Reap(x))
      /\ Calls(Cas(x))' <=> Calls(Cas(x))
      /\ Calls(Drp(x))' <=> Calls(Drp(x))
  BY <1>1, <1>3, Subjects DEF Calls
<1>7. /\ Drops(x)' <=> Drops(x)
      /\ Releases(x)' <=> Releases(x)
      /\ FreesNode(x)' <=> FreesNode(x)
      /\ Settles(x)' <=> Settles(x)
      /\ Hooks(x)' <=> Hooks(x)
      /\ Tallies(x)' <=> Tallies(x)
  BY <1>2, SMT DEF Drops, Releases, FreesNode, Settles, Hooks, Tallies
<1> QED
  BY <1>4, <1>5, <1>6, <1>7 DEF OpsSame

(* What depends on the inputs alone.                                        *)
LEMMA InFrame ==
  ASSUME Fixed
  PROVE  /\ \A p, r : In(p, r)' = In(p, r)
         /\ \A p : IsJoin(p)' <=> IsJoin(p)
BY DEF Fixed, In, IsJoin

(* The parts of the invariant about x alone, when x stays as it is.         *)
LEMMA NodeFrame ==
  ASSUME Fixed, NEW x \in Nodes, Same(x)
  PROVE  /\ FutureOK(x) => FutureOK(x)'
         /\ MineOK(x) => MineOK(x)'
         /\ x \in Leaves /\ LeafOK(x) => LeafOK(x)'
         /\ x \in Combs /\ NewOK(x) => NewOK(x)'
         /\ Virgin(x)' <=> Virgin(x)
<1>1. /\ State(x)' = State(x) /\ Waker(x)' = Waker(x)
      /\ Unresolved(x)' <=> Unresolved(x)
  BY DEF Same, State, Waker, Unresolved
<1>2. Virgin(x)' <=> Virgin(x)
  BY <1>1 DEF Same, Virgin
<1>3. Claimed(x)' <=> Claimed(x)
  BY DEF Same, OpsSame, Claimed
<1>4. Completes(x)' <=> Completes(x)
  BY DEF Same, OpsSame, Completes
<1>5. Runs(x)' <=> Runs(x)
  BY <1>4, Zenon DEF Same, OpsSame, Runs
<1>6. \A p, r : In(p, r)' = In(p, r)
  BY InFrame
<1>7. Gone(x)' <=> Gone(x)
  BY <1>3 DEF Gone, Same
<1>8. FutureOK(x) => FutureOK(x)'
  BY <1>1, <1>3, <1>4, <1>6, <1>7 DEF FutureOK, Same, OpsSame
<1>9. MineOK(x) => MineOK(x)'
  BY <1>1, <1>3, <1>6 DEF MineOK, Same, OpsSame
<1>10. x \in Leaves /\ LeafOK(x) => LeafOK(x)'
  BY <1>1, <1>4 DEF LeafOK, Same, OpsSame
<1>11. x \in Combs /\ NewOK(x) => NewOK(x)'
  BY <1>2, <1>3, <1>5 DEF NewOK, Same, OpsSame
<1> QED
  BY <1>2, <1>8, <1>9, <1>10, <1>11

(* A block stays as it is, or is freed as the stack said.                   *)
BlockKept(b) ==
  \/ (b \in live' <=> b \in live) /\ (Frees(b)' <=> Frees(b))
  \/ Frees(b) /\ b \notin live' /\ ~Frees(b)'

(* So do the blocks of x.                                                   *)
NodeBlocksKept(x) ==
  /\ BlockKept(Resume(x)) /\ BlockKept(Reap(x)) /\ BlockKept(Cb(x)) /\ BlockKept(Cnt(x))
  /\ Drp(x) \in live' <=> Drp(x) \in live
  /\ Cas(x) \in live' <=> Cas(x) \in live

(* What the closure of input r is allocated for.                            *)
HookNeed(p, r) == Unarmed(p, r) \/ (Lent(In(p, r)) /\ Waker(In(p, r)) = On(p, r))

(* A block that stays as it is and its purpose.                             *)
LEMMA OneOfFrame ==
  ASSUME NEW b, BlockKept(b), NEW A, NEW B, A <=> B, OneOf(b, A)
  PROVE  (b \in live' <=> Frees(b)' \/ B) /\ ~(Frees(b)' /\ B)
BY DEF BlockKept, OneOf

(* What a future is and what runs of it, when it stays as it is.            *)
LEMMA StateFrame ==
  ASSUME Fixed, NEW x, Same(x)
  PROVE  /\ State(x)' = State(x) /\ Waker(x)' = Waker(x) /\ fut'[x] = fut[x]
         /\ Unresolved(x)' <=> Unresolved(x)
         /\ Alive(x)' <=> Alive(x)
         /\ Claimed(x)' <=> Claimed(x)
         /\ Completes(x)' <=> Completes(x)
         /\ Virgin(x)' <=> Virgin(x)
         /\ Gone(x)' <=> Gone(x)
         /\ Open(x)' <=> Open(x)
         /\ Untaken(x)' <=> Untaken(x)
         /\ Spared(x)' <=> Spared(x)
         /\ Kept(x)' <=> Kept(x)
         /\ Loose(x)' <=> Loose(x)
         /\ \A r : Unarmed(x, r)' <=> Unarmed(x, r)
         /\ \A v : Yields(x, v)' <=> Yields(x, v)
         /\ Full(x)' <=> Full(x)
         /\ \A r : Holder(x, r)' <=> Holder(x, r)
<1>1. /\ State(x)' = State(x) /\ Waker(x)' = Waker(x) /\ fut'[x] = fut[x]
      /\ Unresolved(x)' <=> Unresolved(x)
  BY DEF Same, State, Waker, Unresolved
<1>2. Alive(x)' <=> Alive(x)
  BY DEF Same
<1>3. Claimed(x)' <=> Claimed(x)
  BY DEF Same, OpsSame, Claimed
<1>4. Completes(x)' <=> Completes(x)
  BY DEF Same, OpsSame, Completes
<1>5. Virgin(x)' <=> Virgin(x)
  BY <1>1, <1>2 DEF Virgin
<1>6. Gone(x)' <=> Gone(x)
  BY <1>2, <1>3 DEF Gone
<1>7. Open(x)' <=> Open(x)
  BY <1>1, <1>2, <1>4 DEF Open, Same, OpsSame
<1>8. Untaken(x)' <=> Untaken(x)
  BY <1>1 DEF Untaken, Same, OpsSame
<1>9. Spared(x)' <=> Spared(x)
  BY <1>1 DEF Spared, Same, OpsSame
<1>10. Kept(x)' <=> Kept(x)
  BY <1>2, <1>3, <1>8 DEF Kept
<1>11. Loose(x)' <=> Loose(x)
  BY <1>1, <1>2, <1>3 DEF Loose, Same, OpsSame
<1>12. \A r : Unarmed(x, r)' <=> Unarmed(x, r)
  BY DEF Unarmed, Same, OpsSame
<1>13. \A v : Yields(x, v)' <=> Yields(x, v)
  BY <1>1, Zenon DEF Yields, Same, OpsSame, Resolved
<1>14. Full(x)' <=> Full(x)
  BY <1>1, <1>4 DEF Full, Same, Resolved
<1>15. \A r : Holder(x, r)' <=> Holder(x, r)
  <2>1. IsJoin(x)' <=> IsJoin(x)
    BY InFrame
  <2> QED
    BY <1>7, <1>13, <2>1, Zenon DEF Holder
<1> QED
  BY <1>1, <1>2, <1>3, <1>4, <1>5, <1>6, <1>7, <1>8, <1>9, <1>10, <1>11, <1>12, <1>13, <1>14, <1>15, Zenon

(* Its blocks.                                                              *)
LEMMA BlocksFrame ==
  ASSUME Fixed, NEW x \in Nodes, Same(x), NodeBlocksKept(x), BlocksOK(x)
  PROVE  BlocksOK(x)'
<1>1. \A c \in {Resume(x), Reap(x)} : (Lent(x) /\ Waker(x) = c)' <=> (Lent(x) /\ Waker(x) = c)
  BY StateFrame DEF Lent, Same, OpsSame
<1>2. OneOf(Resume(x), Lent(x) /\ Waker(x) = Resume(x))'
  BY <1>1, OneOfFrame DEF OneOf, BlocksOK, NodeBlocksKept
<1>3. OneOf(Reap(x), Lent(x) /\ Waker(x) = Reap(x))'
  BY <1>1, OneOfFrame DEF OneOf, BlocksOK, NodeBlocksKept
<1>4. ASSUME x \in Leaves
      PROVE  OneOf(Cb(x), x \in reg)' /\ (Drp(x) \in live <=> Alive(x) /\ fut[x].on_drop = Drp(x))'
  <2>1. x \in reg' <=> x \in reg
    BY DEF Same
  <2>2. OneOf(Cb(x), x \in reg)'
    BY <1>4, <2>1, OneOfFrame DEF OneOf, BlocksOK, NodeBlocksKept
  <2> QED
    BY <1>4, <2>2, StateFrame DEF BlocksOK, NodeBlocksKept
<1>5. ASSUME x \in Combs
      PROVE  /\ (Cas(x) \in live <=> Alive(x) /\ fut[x].on_drop = Cas(x))'
             /\ OneOf(Cnt(x), IsJoin(x) /\ Open(x))'
  <2>1. (IsJoin(x) /\ Open(x))' <=> IsJoin(x) /\ Open(x)
    BY StateFrame, InFrame
  <2>2. OneOf(Cnt(x), IsJoin(x) /\ Open(x))'
    BY <1>5, <2>1, OneOfFrame DEF OneOf, BlocksOK, NodeBlocksKept
  <2> QED
    BY <1>5, <2>2, StateFrame DEF BlocksOK, NodeBlocksKept
<1> QED
  BY <1>2, <1>3, <1>4, <1>5 DEF BlocksOK

(* The closure of an input.                                                 *)
LEMMA HookStep ==
  ASSUME NEW p, NEW r, HookNeed(p, r)' <=> HookNeed(p, r), BlockKept(On(p, r)), HookOK(p, r)
  PROVE  HookOK(p, r)'
BY OneOfFrame DEF OneOf, HookOK, HookNeed

(* Its purpose depends on the combinator and the input.                     *)
LEMMA HookFrame ==
  ASSUME Fixed, NEW p, NEW r, NEW x, In(p, r) = x, Same(p), Same(x)
  PROVE  HookNeed(p, r)' <=> HookNeed(p, r)
<1>1. In(p, r)' = x
  BY InFrame
<1>2. Unarmed(p, r)' <=> Unarmed(p, r)
  BY StateFrame
<1>3. State(x)' = State(x) /\ Waker(x)' = Waker(x) /\ (Alive(x)' <=> Alive(x))
  BY StateFrame
<1>4. Calls(On(p, r))' <=> Calls(On(p, r))
  BY DEF Same, OpsSame
<1>5. (Lent(x) /\ Waker(x) = On(p, r))' <=> Lent(x) /\ Waker(x) = On(p, r)
  BY <1>3, <1>4 DEF Lent
<1> QED
  BY <1>1, <1>2, <1>5 DEF HookNeed

(* What holds x goes on holding it.                                         *)
OwnerStep(x) ==
  \A p \in Combs, r \in {0, 1} : In(p, r) = x /\ Holder(p, r) => Holder(p, r)'

(* Then x has an owner still.                                               *)
LEMMA OwnerFrame ==
  ASSUME Fixed, NEW x \in Nodes, Same(x), OwnerStep(x), OwnerOK(x)
  PROVE  OwnerOK(x)'
<1>1. \A p, r : In(p, r)' = In(p, r)
  BY InFrame
<1>2. (Drops(x)' <=> Drops(x)) /\ Waker(x)' = Waker(x)
  BY StateFrame DEF Same, OpsSame
<1>3. Parent(x) => Parent(x)'
  BY <1>1 DEF OwnerStep, Parent
<1>4. Alive(x) /\ ~Claimed(x) => x \in mine \cup held \/ Parent(x)
  BY DEF OwnerOK
<1>5. State(x) = READY /\ x \notin taken => Drops(x) \/ Waker(x) = Reap(x) \/ x \in mine \cup held \/ Settles(x) \/ Parent(x)
  BY DEF OwnerOK
<1>6. x \in mine' \cup held' <=> x \in mine \cup held
  BY DEF Same
<1>7. (Alive(x)' <=> Alive(x)) /\ (Claimed(x)' <=> Claimed(x)) /\ State(x)' = State(x)
  BY StateFrame
<1>8. (x \in taken' <=> x \in taken) /\ (Settles(x)' <=> Settles(x))
  BY DEF Same, OpsSame
<1> QED
  BY <1>2, <1>3, <1>4, <1>5, <1>6, <1>7, <1>8 DEF OwnerOK

(* x is as good as freed, and resolved before if it is now.                 *)
Faint(x) ==
  /\ Gone(x) /\ Gone(x)'
  /\ Spared(x) => Spared(x)'
  /\ Spared(x) /\ Untaken(x) => Untaken(x)'
  /\ ~Virgin(x)'
  /\ x \notin mine' \cup held'

(* What a combinator knows of an input. *)
KidSame(x) ==
  /\ fut'[x] = fut[x]
  /\ Alive(x)' <=> Alive(x)
  /\ Drops(x)' <=> Drops(x)
  /\ Claimed(x)' <=> Claimed(x)
  /\ Settles(x)' <=> Settles(x)
  /\ x \in taken' <=> x \in taken
  /\ x \in mine' \cup held' <=> x \in mine \cup held

(* What follows of an input that stays as its combinator sees it.           *)
LEMMA KidStates ==
  ASSUME NEW x
  PROVE  /\ Same(x) => KidSame(x)
         /\ KidSame(x) => /\ State(x)' = State(x) /\ Waker(x)' = Waker(x) /\ fut'[x] = fut[x]
                          /\ Alive(x)' <=> Alive(x)
                          /\ Claimed(x)' <=> Claimed(x)
                          /\ Virgin(x)' <=> Virgin(x)
                          /\ Gone(x)' <=> Gone(x)
                          /\ Untaken(x)' <=> Untaken(x)
                          /\ Spared(x)' <=> Spared(x)
                          /\ Kept(x)' <=> Kept(x)
                          /\ Loose(x)' <=> Loose(x)
<1>1. Same(x) => KidSame(x)
  BY DEF Same, OpsSame, KidSame, Claimed
<1> SUFFICES ASSUME KidSame(x)
             PROVE  /\ State(x)' = State(x) /\ Waker(x)' = Waker(x) /\ fut'[x] = fut[x]
                    /\ Alive(x)' <=> Alive(x)
                    /\ Claimed(x)' <=> Claimed(x)
                    /\ Virgin(x)' <=> Virgin(x)
                    /\ Gone(x)' <=> Gone(x)
                    /\ Untaken(x)' <=> Untaken(x)
                    /\ Spared(x)' <=> Spared(x)
                    /\ Kept(x)' <=> Kept(x)
                    /\ Loose(x)' <=> Loose(x)
  BY <1>1
<1>2. State(x)' = State(x) /\ Waker(x)' = Waker(x) /\ (Alive(x)' <=> Alive(x)) /\ (Claimed(x)' <=> Claimed(x))
  BY DEF KidSame, State, Waker
<1>3. Untaken(x)' <=> Untaken(x)
  BY <1>2 DEF KidSame, Untaken
<1>4. Spared(x)' <=> Spared(x)
  BY <1>2 DEF KidSame, Spared
<1>5. Loose(x)' <=> Loose(x)
  BY <1>2 DEF KidSame, Loose
<1> QED
  BY <1>2, <1>3, <1>4, <1>5 DEF KidSame, Virgin, Gone, Kept

(* A combinator that holds its inputs as before, and for the same reason.   *)
Like(p) ==
  /\ fut'[p].on_drop = fut[p].on_drop /\ fut'[p].value = fut[p].value /\ cnt'[p] = cnt[p]
  /\ Resolved(p)' <=> Resolved(p)
  /\ Virgin(p)' <=> Virgin(p)
  /\ Open(p)' <=> Open(p)
  /\ Full(p)' <=> Full(p)
  /\ \A v \in 0 .. 2 : Yields(p, v)' <=> Yields(p, v)
  /\ \A v \in 0 .. 2 : Resolves(p, v)' <=> Resolves(p, v)
  /\ Arms(p, 0)' <=> Arms(p, 0)
  /\ Arms(p, 1)' <=> Arms(p, 1)
  /\ Hooks(p)' <=> Hooks(p)
  /\ Tallies(p)' <=> Tallies(p)
  /\ \A s \in {0, 1} : Calls(On(p, s))' <=> Calls(On(p, s))

(* A combinator that stays as it is is alike.                               *)
LEMMA LikeSame ==
  ASSUME Fixed, NEW p \in Combs, Same(p)
  PROVE  Like(p)
<1>1. cnt'[p] = cnt[p]
  BY DEF Same
<1>2. /\ \A v : Resolves(p, v)' <=> Resolves(p, v)
      /\ Arms(p, 0)' <=> Arms(p, 0)
      /\ Arms(p, 1)' <=> Arms(p, 1)
      /\ Hooks(p)' <=> Hooks(p)
      /\ Tallies(p)' <=> Tallies(p)
      /\ \A s : Calls(On(p, s))' <=> Calls(On(p, s))
  BY DEF Same, OpsSame
<1>3. fut'[p].on_drop = fut[p].on_drop /\ fut'[p].value = fut[p].value /\ (Resolved(p)' <=> Resolved(p))
  BY StateFrame DEF Resolved
<1> QED
  BY <1>1, <1>2, <1>3, StateFrame DEF Like

(* What a combinator finds of an input that stays as it was, or was and is  *)
(* as good as freed.                                                        *)
LEMMA KidFrame ==
  ASSUME Fixed, NEW p \in Combs, NEW r \in {0, 1}, NEW x, In(p, r) = x, Like(p), KidSame(x) \/ Faint(x)
  PROVE  /\ KidOK(p, r) => KidOK(p, r)' /\ (Counted(p, r)' <=> Counted(p, r)) /\ State(x)' = State(x) /\ KidSame(x)
         /\ Kept(x) => Kept(x)'
         /\ Gone(x) => Gone(x)'
         /\ Spared(x) => Spared(x)'
         /\ Spared(x) /\ Untaken(x) => Untaken(x)'
         /\ x \notin mine \cup held /\ ~Virgin(x) => x \notin mine' \cup held' /\ ~Virgin(x)'
<1>1. In(p, r)' = x /\ (IsJoin(p)' <=> IsJoin(p))
  BY InFrame
<1>2. CASE KidSame(x)
  <2>1. /\ State(x)' = State(x) /\ Waker(x)' = Waker(x)
        /\ Alive(x)' <=> Alive(x)
        /\ Claimed(x)' <=> Claimed(x)
        /\ Kept(x)' <=> Kept(x)
        /\ Gone(x)' <=> Gone(x)
        /\ Loose(x)' <=> Loose(x)
        /\ Spared(x)' <=> Spared(x)
        /\ Untaken(x)' <=> Untaken(x)
        /\ Virgin(x)' <=> Virgin(x)
    BY <1>2, KidStates
  <2>2. (Calls(On(p, r))' <=> Calls(On(p, r))) /\ (Unarmed(p, r)' <=> Unarmed(p, r))
    BY DEF Like, Unarmed
  <2>3. Armed(p, r)' <=> Armed(p, r)
    BY <1>1, <2>1 DEF Armed
  <2>4. Called(p, r)' <=> Called(p, r)
    BY <1>1, <2>1 DEF Called
  <2>5. Got(p, r)' <=> Got(p, r)
    BY <1>1, <2>1 DEF Got
  <2>6. KidOK(p, r)' <=> KidOK(p, r)
    BY <1>1, <2>1, <2>2, <2>3, <2>4, <2>5 DEF KidOK
  <2>7. Counted(p, r)' <=> Counted(p, r)
    BY <1>1, <2>1, <2>2 DEF Counted
  <2>8. x \in mine' \cup held' <=> x \in mine \cup held
    BY <1>2 DEF KidSame
  <2> QED
    BY <1>2, <2>1, <2>6, <2>7, <2>8
<1>3. CASE Faint(x)
  <2>1. Gone(x)
    BY <1>3 DEF Faint
  <2>2. ~KidOK(p, r) /\ ~Kept(x)
    BY <2>1 DEF KidOK, Kept, Gone, Loose, Called, Armed, Got
  <2> QED
    BY <1>3, <2>2 DEF Faint
<1> QED
  BY <1>2, <1>3

(* The operations of a combinator that stays as it is.                      *)
LEMMA CallsFrame ==
  ASSUME Fixed, NEW p, Same(p), CallsOK(p)
  PROVE  CallsOK(p)'
<1>1. IsJoin(p)' <=> IsJoin(p)
  BY InFrame
<1>2. /\ State(p)' = State(p) /\ fut'[p] = fut[p]
      /\ Unresolved(p)' <=> Unresolved(p)
      /\ Alive(p)' <=> Alive(p)
      /\ Claimed(p)' <=> Claimed(p)
  BY StateFrame
<1> QED
  BY <1>1, <1>2 DEF CallsOK, Same, OpsSame

(* A combinator that is alike, when its inputs are the same or faint.       *)
LEMMA BuiltFrame ==
  ASSUME Fixed, NEW p \in Combs, NEW a, NEW b, In(p, 0) = a, In(p, 1) = b, Like(p),
         Virgin(p) \/ ((KidSame(a) \/ Faint(a)) /\ (KidSame(b) \/ Faint(b))), ~Virgin(p) => BuiltOK(p)
  PROVE  ~Virgin(p)' => BuiltOK(p)'
<1>1. In(p, 0)' = a /\ In(p, 1)' = b /\ (IsJoin(p)' <=> IsJoin(p)) /\ kind' = kind
  BY InFrame DEF Fixed
<1>3. /\ fut'[p].on_drop = fut[p].on_drop /\ fut'[p].value = fut[p].value /\ cnt'[p] = cnt[p]
      /\ Resolved(p)' <=> Resolved(p)
      /\ Virgin(p)' <=> Virgin(p)
      /\ Open(p)' <=> Open(p)
      /\ Full(p)' <=> Full(p)
      /\ \A v \in 0 .. 2 : Yields(p, v)' <=> Yields(p, v)
      /\ \A v \in 0 .. 2 : Resolves(p, v)' <=> Resolves(p, v)
  BY DEF Like
<1>4. CASE ~Virgin(p)
  <2>1. BuiltOK(p) /\ (KidSame(a) \/ Faint(a)) /\ (KidSame(b) \/ Faint(b))
    BY <1>4
  <2>2. \A r \in {0, 1} : \A x \in {a, b} : In(p, r) = x => (KidOK(p, r) => KidOK(p, r)' /\ (Counted(p, r)' <=> Counted(p, r)))
    BY <2>1, KidFrame
  <2>3. \A x \in {a, b} : /\ Kept(x) => Kept(x)'
                          /\ Gone(x) => Gone(x)'
                          /\ Spared(x) => Spared(x)'
                          /\ Spared(x) /\ Untaken(x) => Untaken(x)'
                          /\ x \notin mine \cup held /\ ~Virgin(x) => x \notin mine' \cup held' /\ ~Virgin(x)'
    <3>1. 0 \in {0, 1} /\ 1 \in {0, 1}
      OBVIOUS
    <3> QED
      BY <2>1, <3>1, KidFrame
  <2>4. \A v \in 0 .. 2 : ReasonOK(p, v) => ReasonOK(p, v)'
    BY <1>1, <2>3, SMT DEF ReasonOK
  <2>5. \A v \in 0 .. 2 : ReasonOK(p, v) /\ FullOK(p, v) => FullOK(p, v)'
    <3>1. CASE IsJoin(p)
      BY <1>1, <2>3, <3>1 DEF FullOK
    <3>2. CASE ~IsJoin(p)
      <4> SUFFICES ASSUME NEW v \in {0, 1}, ReasonOK(p, v), FullOK(p, v) PROVE FullOK(p, v)'
        BY <3>2 DEF ReasonOK
      <4> DEFINE w == 1 - v
      <4>1. In(p, v) \in {a, b} /\ In(p, w) \in {a, b} /\ In(p, v)' = In(p, v) /\ In(p, w)' = In(p, w) /\ v' = v
        BY <1>1, SMT
      <4>2. PICK x \in {a, b}, y \in {a, b} : In(p, v) = x /\ In(p, w) = y
        BY <4>1
      <4>3. In(p, v)' = x /\ In(p, w)' = y
        BY <4>1, <4>2
      <4>4. Spared(x)
        BY <3>2, <4>2 DEF ReasonOK
      <4>5. Gone(y) /\ Untaken(x) /\ IF kind[p] = "select2" THEN Kept(x) ELSE Gone(x)
        BY <3>2, <4>2 DEF FullOK
      <4>6. Gone(y)' /\ Untaken(x)' /\ IF kind'[p] = "select2" THEN Kept(x)' ELSE Gone(x)'
        BY <1>1, <2>3, <4>4, <4>5
      <4> QED
        BY <1>1, <3>2, <4>3, <4>6 DEF FullOK
    <3> QED
      BY <3>1, <3>2
  <2>6. Open(p) => OpenOK(p)'
    <3> SUFFICES ASSUME Open(p) PROVE OpenOK(p)'
      OBVIOUS
    <3>1. OpenOK(p)
      BY <2>1 DEF BuiltOK
    <3>2. KidOK(p, 0)' /\ KidOK(p, 1)' /\ (Counted(p, 0)' <=> Counted(p, 0)) /\ (Counted(p, 1)' <=> Counted(p, 1))
      BY <2>2, <3>1 DEF OpenOK
    <3>3. Count(p)' = Count(p)
      BY <3>2 DEF Count
    <3>4. /\ Arms(p, 0)' <=> Arms(p, 0)
          /\ Arms(p, 1)' <=> Arms(p, 1)
          /\ Hooks(p)' <=> Hooks(p)
          /\ Tallies(p)' <=> Tallies(p)
      BY DEF Like
    <3> QED
      BY <1>1, <1>3, <3>1, <3>2, <3>3, <3>4 DEF OpenOK
  <2>7. \A r \in {0, 1} : In(p, r)' \notin mine' \cup held' /\ ~Virgin(In(p, r))'
    <3>1. \A x \in {a, b} : x \notin mine \cup held /\ ~Virgin(x)
      BY <2>1, SMT DEF BuiltOK
    <3>2. \A x \in {a, b} : x \notin mine' \cup held' /\ ~Virgin(x)'
      BY <2>3, <3>1
    <3>3. ASSUME NEW r \in {0, 1} PROVE In(p, r)' \notin mine' \cup held' /\ ~Virgin(In(p, r))'
      <4>1. CASE r = 0
        BY <1>1, <3>2, <4>1
      <4>2. CASE r = 1
        BY <1>1, <3>2, <4>2
      <4> QED
        BY <4>1, <4>2
    <3> QED
      BY <3>3
  <2>8. \A v \in 0 .. 2 : Yields(p, v) => ReasonOK(p, v)
    BY <2>1 DEF BuiltOK, Yields, Resolved
  <2>9. Gone(In(p, 0)) /\ Gone(In(p, 1)) => Gone(In(p, 0))' /\ Gone(In(p, 1))'
    BY <1>1, <2>3
  <2>10. BuiltOK(p)'
    <3>1. Open(p)' => OpenOK(p)'
      BY <1>3, <2>6
    <3>2. \A v \in 0 .. 2 : Yields(p, v)' => FullOK(p, v)'
      BY <1>3, <2>1, <2>5, <2>8 DEF BuiltOK
    <3>3. \A v \in 0 .. 2 : Resolves(p, v)' => ReasonOK(p, v)'
      BY <1>3, <2>1, <2>4 DEF BuiltOK
    <3>4. Resolved(p)' => fut'[p].value \in 0 .. 2 /\ ReasonOK(p, fut[p].value)'
      BY <1>3, <2>1, <2>4 DEF BuiltOK
    <3>5. ~Open(p)' /\ ~Full(p)' => Gone(In(p, 0))' /\ Gone(In(p, 1))'
      BY <1>3, <2>1, <2>9 DEF BuiltOK
    <3> QED
      BY <2>7, <3>1, <3>2, <3>3, <3>4, <3>5 DEF BuiltOK
  <2> QED
    BY <2>10
<1> QED
  BY <1>3, <1>4

(* So for the whole of what the invariant says of it.                       *)
LEMMA CombFrame ==
  ASSUME Fixed, NEW p \in Combs, NEW a, NEW b, In(p, 0) = a, In(p, 1) = b, Same(p),
         Virgin(p) \/ ((KidSame(a) \/ Faint(a)) /\ (KidSame(b) \/ Faint(b))), CombOK(p)
  PROVE  CombOK(p)'
<1>1. Like(p)
  BY LikeSame
<1>2. ~Virgin(p)' => BuiltOK(p)'
  BY <1>1, BuiltFrame DEF CombOK
<1>3. CallsOK(p)'
  BY CallsFrame DEF CombOK
<1> QED
  BY <1>2, <1>3 DEF CombOK

(* All of the invariant about x.                                            *)
NodeOK(x) ==
  /\ FutureOK(x) /\ MineOK(x) /\ BlocksOK(x) /\ OwnerOK(x)
  /\ x \in Leaves => LeafOK(x)
  /\ x \in Combs => NewOK(x) /\ CombOK(x)

(* All but M stays as it was: the invariant is left to show of M, of what   *)
(* combinators outside find in M, and of what M held.                       *)
LEMMA StepFrame ==
  ASSUME IInv, Fixed, Typed', Ordered', UniqueOK', (\E D \in SUBSET Nodes : Doomed(D))',
         NEW M \in SUBSET Nodes,
         \A x \in Nodes \ M : Same(x) /\ NodeBlocksKept(x),
         \A x \in M : NodeOK(x)',
         \A p \in Combs \ M, r \in {0, 1}, x \in M : In(p, r) = x => Virgin(p) \/ KidSame(x) \/ Faint(x),
         \A x \in Nodes \ M : OwnerOK(x)' \/ \A p \in M \cap Combs, r \in {0, 1} : In(p, r) = x /\ Holder(p, r) => Holder(p, r)',
         \A p \in Combs, r \in {0, 1} : HookOK(p, r)' \/ (BlockKept(On(p, r)) /\ (HookNeed(p, r)' <=> HookNeed(p, r)))
  PROVE  IInv'
<1>1. \A p \in Combs, r \in {0, 1} : HookOK(p, r)'
  BY HookStep DEF IInv
<1>2. \A p \in Combs : In(p, 0) \in Nodes /\ In(p, 1) \in Nodes
  BY TreesAssumption, SMT DEF IInv, Typed, In
<1>3. ASSUME NEW x \in Nodes, x \notin M PROVE NodeOK(x)'
  <2>1. Same(x) /\ NodeBlocksKept(x)
    BY <1>3
  <2>2. FutureOK(x)' /\ MineOK(x)' /\ (x \in Leaves => LeafOK(x)') /\ (x \in Combs => NewOK(x)')
    BY <2>1, NodeFrame DEF IInv
  <2>3. BlocksOK(x)'
    BY <2>1, BlocksFrame DEF IInv
  <2>4. OwnerOK(x)'
    <3>1. CASE \A p \in M \cap Combs, r \in {0, 1} : In(p, r) = x /\ Holder(p, r) => Holder(p, r)'
      <4>1. ASSUME NEW p \in Combs, NEW r \in {0, 1}, In(p, r) = x, Holder(p, r) PROVE Holder(p, r)'
        <5>1. CASE p \in M
          BY <3>1, <4>1, <5>1
        <5>2. CASE p \notin M
          <6>1. Same(p)
            BY <5>2 DEF Nodes
          <6> QED
            BY <4>1, <6>1, StateFrame
        <5> QED
          BY <5>1, <5>2
      <4>2. OwnerStep(x)
        BY <4>1 DEF OwnerStep
      <4> QED
        BY <2>1, <4>2, OwnerFrame DEF IInv
    <3> QED
      BY <1>3, <3>1
  <2>5. ASSUME x \in Combs PROVE CombOK(x)'
    <3>1. PICK a \in Nodes, b \in Nodes : In(x, 0) = a /\ In(x, 1) = b
      BY <1>2, <2>5
    <3>2. Virgin(x) \/ ((KidSame(a) \/ Faint(a)) /\ (KidSame(b) \/ Faint(b)))
      <4>1. a \in M => Virgin(x) \/ KidSame(a) \/ Faint(a)
        BY <1>3, <2>5, <3>1
      <4>2. b \in M => Virgin(x) \/ KidSame(b) \/ Faint(b)
        BY <1>3, <2>5, <3>1
      <4> QED
        BY <4>1, <4>2, KidStates
    <3> QED
      BY <2>1, <2>5, <3>1, <3>2, CombFrame DEF IInv
  <2> QED
    BY <2>2, <2>3, <2>4, <2>5 DEF NodeOK
<1>4. \A x \in Nodes : NodeOK(x)'
  BY <1>3
<1>5. Combs \subseteq Nodes /\ Leaves \subseteq Nodes
  BY DEF Nodes
<1> QED
  BY <1>1, <1>4, <1>5 DEF IInv, NodeOK

-----------------------------------------------------------------------------
(* Moments when little is left to run.                                      *)

(* No operation on x is left on the stack. *)
Quiet(x) ==
  /\ ~Drops(x) /\ ~Releases(x) /\ ~FreesNode(x) /\ ~Settles(x)
  /\ ~Arms(x, 0) /\ ~Arms(x, 1) /\ ~Hooks(x) /\ ~Tallies(x)
  /\ \A v : ~Resolves(x, v)
  /\ ~Calls(Resume(x)) /\ ~Calls(Reap(x)) /\ ~Calls(Cas(x)) /\ ~Calls(Drp(x))
  /\ \A s : ~Calls(On(x, s))

(* What follows of a future without operations.                             *)
LEMMA QuietFacts ==
  ASSUME NEW x
  PROVE  /\ Quiet(x) => ~Claimed(x) /\ ~Completes(x) /\ ~Runs(x) /\ \A r : ~Unarmed(x, r)
         /\ Quiet(x)' => ~Claimed(x)' /\ ~Completes(x)' /\ ~Runs(x)' /\ \A r : ~Unarmed(x, r)'
         /\ Quiet(x) /\ Quiet(x)' => OpsSame(x)
<1>1. Quiet(x) => ~Claimed(x) /\ ~Completes(x) /\ \A r : ~Unarmed(x, r)
  BY DEF Quiet, Claimed, Completes, Unarmed
<1>2. Quiet(x)' => ~Claimed(x)' /\ ~Completes(x)' /\ \A r : ~Unarmed(x, r)'
  BY DEF Quiet, Claimed, Completes, Unarmed
<1>3. Quiet(x) => ~Runs(x)
  BY <1>1 DEF Quiet, Runs
<1>4. Quiet(x)' => ~Runs(x)'
  BY <1>2 DEF Quiet, Runs
<1>5. Quiet(x) /\ Quiet(x)' => OpsSame(x)
  BY DEF Quiet, OpsSame
<1> QED
  BY <1>1, <1>2, <1>3, <1>4, <1>5

(* No operation with this subject: x is quiet.                              *)
LEMMA QuietIf ==
  ASSUME NEW x
  PROVE  /\ (\A o : o[1] # "free" /\ Has(o) => Subject(o) # x) => Quiet(x)
         /\ (\A o : o[1] # "free" /\ Has(o)' => Subject(o) # x) => Quiet(x)'
<1>1. /\ \A a : a # "call" => Subject(Op(a, x)) = x
      /\ \A v : Subject(Complete(x, v)) = x /\ Complete(x, v)[1] # "free"
      /\ \A v : Subject(Arm(x, v)) = x /\ Arm(x, v)[1] # "free"
      /\ Subject(Op("call", Resume(x))) = x /\ Subject(Op("call", Reap(x))) = x
      /\ Subject(Op("call", Cas(x))) = x /\ Subject(Op("call", Drp(x))) = x
      /\ \A s : Subject(Op("call", On(x, s))) = x
      /\ \A a, y : Op(a, y)[1] = a
  BY Subjects
<1>2. ASSUME \A o : o[1] # "free" /\ Has(o) => Subject(o) # x PROVE Quiet(x)
  <2>1. \A a : a # "call" /\ a # "free" => ~Has(Op(a, x))
    BY <1>1, <1>2
  <2>2. \A v : ~Resolves(x, v) /\ ~Arms(x, v)
    BY <1>1, <1>2 DEF Resolves, Arms
  <2>3. ~Calls(Resume(x)) /\ ~Calls(Reap(x)) /\ ~Calls(Cas(x)) /\ ~Calls(Drp(x)) /\ \A s : ~Calls(On(x, s))
    BY <1>1, <1>2 DEF Calls
  <2>4. ~Drops(x) /\ ~Releases(x) /\ ~FreesNode(x) /\ ~Settles(x) /\ ~Hooks(x) /\ ~Tallies(x)
    BY <2>1 DEF Drops, Releases, FreesNode, Settles, Hooks, Tallies
  <2> QED
    BY <2>2, <2>3, <2>4 DEF Quiet
<1>3. ASSUME \A o : o[1] # "free" /\ Has(o)' => Subject(o) # x PROVE Quiet(x)'
  <2>1. \A a : a # "call" /\ a # "free" => ~Has(Op(a, x))'
    BY <1>1, <1>3
  <2>2. \A v : ~Resolves(x, v)' /\ ~Arms(x, v)'
    BY <1>1, <1>3 DEF Resolves, Arms
  <2>3. ~Calls(Resume(x))' /\ ~Calls(Reap(x))' /\ ~Calls(Cas(x))' /\ ~Calls(Drp(x))' /\ \A s : ~Calls(On(x, s))'
    BY <1>1, <1>3 DEF Calls
  <2>4. ~Drops(x)' /\ ~Releases(x)' /\ ~FreesNode(x)' /\ ~Settles(x)' /\ ~Hooks(x)' /\ ~Tallies(x)'
    BY <2>1 DEF Drops, Releases, FreesNode, Settles, Hooks, Tallies
  <2> QED
    BY <2>2, <2>3, <2>4 DEF Quiet
<1> QED
  BY <1>2, <1>3

(* Below an operation of a constructor, a completion or a waker there are   *)
(* only frees.                                                              *)
LEMMA OnlyHead ==
  ASSUME Typed, Ordered, todo = <<>> \/ Up(Head(todo))
  PROVE  /\ \A o : o[1] # "free" => (Has(o) <=> AtHead(o))
         /\ \A S : Replaced(S) => \A o : o[1] # "free" => (Has(o)' <=> o \in S)
<1>1. \A o : o[1] # "free" => (Has(o) <=> AtHead(o))
  BY RestFacts, HeadOnce DEF AtHead, Has
<1> QED
  BY <1>1 DEF Replaced

-----------------------------------------------------------------------------
(* The stack, one operation at a time; the blocks; the inputs.              *)

(* The operations on x after a step, one kind at a time.                    *)
LEMMA OpsNow ==
  ASSUME NEW S, Replaced(S), NEW x
  PROVE  /\ Drops(x)' <=> Op("drop", x) \in S \/ (Drops(x) /\ ~AtHead(Op("drop", x)))
         /\ Releases(x)' <=> Op("release", x) \in S \/ (Releases(x) /\ ~AtHead(Op("release", x)))
         /\ FreesNode(x)' <=> Op("Future_free", x) \in S \/ (FreesNode(x) /\ ~AtHead(Op("Future_free", x)))
         /\ Settles(x)' <=> Op("settle", x) \in S \/ (Settles(x) /\ ~AtHead(Op("settle", x)))
         /\ Hooks(x)' <=> Op("hook", x) \in S \/ (Hooks(x) /\ ~AtHead(Op("hook", x)))
         /\ Tallies(x)' <=> Op("tally", x) \in S \/ (Tallies(x) /\ ~AtHead(Op("tally", x)))
         /\ Calls(x)' <=> Op("call", x) \in S \/ (Calls(x) /\ ~AtHead(Op("call", x)))
         /\ \A v : Resolves(x, v)' <=> Complete(x, v) \in S \/ (Resolves(x, v) /\ ~AtHead(Complete(x, v)))
         /\ \A v : Arms(x, v)' <=> Arm(x, v) \in S \/ (Arms(x, v) /\ ~AtHead(Arm(x, v)))
<1>1. \A a, y : a # "free" => (Has(Op(a, y))' <=> Op(a, y) \in S \/ (Has(Op(a, y)) /\ ~AtHead(Op(a, y))))
  BY Subjects DEF Replaced
<1>2. /\ \A v : Has(Complete(x, v))' <=> Complete(x, v) \in S \/ (Has(Complete(x, v)) /\ ~AtHead(Complete(x, v)))
      /\ \A v : Has(Arm(x, v))' <=> Arm(x, v) \in S \/ (Has(Arm(x, v)) /\ ~AtHead(Arm(x, v)))
  BY Subjects DEF Replaced
<1> QED
  BY <1>1, <1>2, SMT DEF Drops, Releases, FreesNode, Settles, Hooks, Tallies, Calls, Resolves, Arms

(* A call and a tally run at once. *)
LEMMA AtOnce ==
  ASSUME Typed, Ordered
  PROVE  /\ \A c : Calls(c) => AtHead(Op("call", c))
         /\ \A x : Tallies(x) => AtHead(Op("tally", x))
<1>1. \A o : Has(o) => AtHead(o) \/ o[1] \notin {"call", "tally"}
  BY RestFacts DEF Among
<1> QED
  BY <1>1, Subjects DEF Calls, Tallies

(* Of what names no block, only one is on the stack. *)
LEMMA UpOnce ==
  ASSUME Typed, Ordered, NEW a, NEW b, Has(a), Has(b), Up(a), Up(b)
  PROVE  a = b
<1>1. PICK i \in 1 .. Len(todo) : todo[i] = a
  BY DEF Has
<1>2. PICK j \in 1 .. Len(todo) : todo[j] = b
  BY DEF Has
<1>3. a[1] # "free" /\ b[1] # "free"
  BY SMT DEF Up
<1>4. ~(i < j) /\ ~(j < i)
  BY <1>1, <1>2, <1>3 DEF Ordered, Above
<1>5. i = j
  <2>1. Len(todo) \in Nat
    BY DEF Typed
  <2> QED
    BY <1>4, <2>1, SMT
<1> QED
  BY <1>1, <1>2, <1>5

(* What the head claims nothing below it claims.                            *)
LEMMA HeadClaims ==
  ASSUME Typed, Ordered, todo # <<>>, NEW o, Has(o), NEW b, b \in Claims(o), b \in Claims(Head(todo))
  PROVE  AtHead(o)
<1>1. AtHead(o) \/ Among(Rest, o)
  BY RestFacts
<1> QED
  BY <1>1, RestFacts DEF Among, Fits, Above

(* No future is an input of what it is made of. *)
LEMMA Acyclic ==
  ASSUME inputs \in Trees, NEW p \in Combs, NEW y, y \in {In(p, 0), In(p, 1)}
  PROVE  y # p /\ \E D \in SUBSET Nodes :
           y \in D /\ p \notin D /\ \A q \in D \cap Combs : {In(q, 0), In(q, 1)} \subseteq D
<1> DEFINE Kids(q) == {In(q, 0), In(q, 1)}
           Shut(D) == \A q \in D \cap Combs : Kids(q) \subseteq D
           Desc(m) == {z \in Nodes : \A D \in SUBSET Nodes : m \in D /\ Shut(D) => z \in D}
           S == {m \in Combs : m \in Desc(y) /\ p \in Desc(m)}
<1>1. \A q \in Combs : Kids(q) \subseteq Nodes
  BY TreesAssumption, SMT DEF In
<1>2. \A R \in SUBSET Combs : R # {} => \E q \in R : Kids(q) \cap R = {}
  BY TreesAssumption, SMT DEF In
<1>3. y \in Nodes /\ Combs \subseteq Nodes /\ y \in Kids(p)
  BY <1>1 DEF Nodes
<1> HIDE DEF Kids
<1>4. \A m \in Nodes : m \in Desc(m) /\ Shut(Desc(m)) /\ Desc(m) \in SUBSET Nodes
  <2> SUFFICES ASSUME NEW m \in Nodes, NEW q \in Desc(m) \cap Combs, NEW z \in Kids(q) PROVE z \in Desc(m)
    OBVIOUS
  <2>1. z \in Nodes
    BY <1>1
  <2>2. ASSUME NEW D \in SUBSET Nodes, m \in D, Shut(D) PROVE z \in D
    <3>1. q \in D
      BY <2>2
    <3> QED
      BY <2>2, <3>1
  <2> QED
    BY <2>1, <2>2
<1>5. p \notin Desc(y)
  <2> SUFFICES ASSUME p \in Desc(y) PROVE FALSE
    OBVIOUS
  <2>1. p \in S
    BY <1>3, <1>4
  <2>2. PICK q \in S : Kids(q) \cap S = {}
    BY <1>2, <2>1, ZenonT(40)
  <2>3. q \in Combs /\ q \in Desc(y) /\ p \in Desc(q) /\ Kids(q) \subseteq Desc(y)
    BY <1>3, <1>4, <2>2
  <2>4. \A z \in Kids(q) : p \notin Desc(z)
    <3> SUFFICES ASSUME NEW z \in Kids(q), p \in Desc(z) PROVE FALSE
      OBVIOUS
    <3>1. z \in Nodes /\ z \in Desc(y)
      BY <1>1, <2>3
    <3>2. CASE z \in Combs
      BY <2>2, <3>1, <3>2
    <3>3. CASE z \notin Combs
      <4>1. {z} \in SUBSET Nodes /\ Shut({z})
        BY <3>1, <3>3
      <4>2. p \in {z}
        BY <4>1
      <4> QED
        BY <3>3, <4>2
    <3> QED
      BY <3>2, <3>3
  <2>5. p = q
    <3> DEFINE U == {q} \cup {w \in Nodes : \E z \in Kids(q) : w \in Desc(z)}
    <3>1. U \in SUBSET Nodes /\ q \in U
      BY <1>3, <2>3
    <3>2. Shut(U)
      <4> SUFFICES ASSUME NEW w \in U \cap Combs, NEW k \in Kids(w) PROVE k \in U
        OBVIOUS
      <4>1. k \in Nodes
        BY <1>1
      <4>2. CASE w = q
        BY <1>4, <4>1, <4>2
      <4>3. CASE \E z \in Kids(q) : w \in Desc(z)
        <5>1. PICK z \in Kids(q) : w \in Desc(z)
          BY <4>3
        <5>2. k \in Desc(z)
          BY <1>1, <1>4, <2>3, <5>1
        <5> QED
          BY <4>1, <5>2
      <4> QED
        BY <4>2, <4>3
    <3>3. p \in U
      BY <2>3, <3>1, <3>2
    <3> QED
      BY <2>4, <3>3
  <2> QED
    BY <1>3, <2>4, <2>5
<1>6. y \in Desc(y) /\ Shut(Desc(y)) /\ Desc(y) \in SUBSET Nodes
  BY <1>3, <1>4
<1>7. y # p
  BY <1>5, <1>6
<1> HIDE DEF Desc
<1> QED
  BY <1>5, <1>6, <1>7 DEF Kids

(* Inputs are futures, others than the combinator.                          *)
LEMMA InNodes ==
  ASSUME Typed
  PROVE  /\ \A p \in Combs : p \in Nodes /\ In(p, 0) \in Nodes /\ In(p, 1) \in Nodes
         /\ \A p \in Combs, r \in {0, 1} : \E x \in Nodes : In(p, r) = x /\ x # p
         /\ \A l \in Leaves : l \in Nodes /\ l \notin Combs
<1>1. \A p \in Combs : p \in Nodes /\ In(p, 0) \in Nodes /\ In(p, 1) \in Nodes
  BY TreesAssumption, SMT DEF Typed, In, Nodes
<1>2. \A p \in Combs : In(p, 0) # p /\ In(p, 1) # p
  BY Acyclic DEF Typed
<1>3. \A p \in Combs, r \in {0, 1} : \E x \in Nodes : In(p, r) = x /\ x # p
  BY <1>1, <1>2
<1>4. \A l \in Leaves : l \in Nodes /\ l \notin Combs
  BY TreesAssumption DEF Nodes
<1> QED
  BY <1>1, <1>3, <1>4

(* No block is the empty closure.                                           *)
LEMMA NotNop ==
  /\ \A x \in Nodes : /\ Fut(x) # Nop /\ Cnt(x) # Nop /\ Cas(x) # Nop /\ Drp(x) # Nop /\ Cb(x) # Nop
                      /\ Resume(x) # Nop /\ Reap(x) # Nop
  /\ \A p \in Combs, r \in {0, 1} : On(p, r) # Nop
<1>1. \A x \in Nodes : Nop \notin {Fut(x), Cnt(x), On(x, 0), On(x, 1), Cas(x), Drp(x), Cb(x), Resume(x), Reap(x)}
  BY NopAssumption
<1>2. \A p \in Combs : p \in Nodes
  BY DEF Nodes
<1> QED
  BY <1>1, <1>2, SMT

(* Inputs stay apart while nothing is built.                                *)
LEMMA UniqueFrame ==
  ASSUME Typed, UniqueOK, Fixed, \A x \in Combs : Virgin(x)' <=> Virgin(x)
  PROVE  UniqueOK'
BY InFrame DEF UniqueOK

(* What drops reach, when a step starts no drop elsewhere and runs nothing  *)
(* there.                                                                   *)
LEMMA DoomedFrame ==
  ASSUME Fixed, NEW D \in SUBSET Nodes, Doomed(D),
         \A x \in Nodes : Drops(x)' \/ Calls(Cas(x))' => x \in D,
         \A x \in D : ~Runs(x)'
  PROVE  (\E K \in SUBSET Nodes : Doomed(K))'
<1>1. \A p \in D \cap Combs : {In(p, 0)', In(p, 1)'} \subseteq D
  BY InFrame DEF Doomed
<1>2. Doomed(D)'
  BY <1>1 DEF Doomed
<1> QED
  BY <1>2

(* The parts of a block.                                                    *)
LEMMA Tags ==
  /\ \A x : Fut(x)[1] = "fut" /\ Cnt(x)[1] = "cnt" /\ Cas(x)[1] = "cas" /\ Drp(x)[1] = "drp" /\ Cb(x)[1] = "cb"
           /\ Resume(x)[1] = "resume" /\ Reap(x)[1] = "reap"
  /\ \A x : Fut(x)[2] = x /\ Cnt(x)[2] = x /\ Cas(x)[2] = x /\ Drp(x)[2] = x /\ Cb(x)[2] = x
           /\ Resume(x)[2] = x /\ Reap(x)[2] = x
  /\ \A p, r : On(p, r)[1] = "on" /\ On(p, r)[2] = p /\ On(p, r)[3] = r
<1>1. \A x : Fut(x)[1] = "fut" /\ Cnt(x)[1] = "cnt" /\ Cas(x)[1] = "cas" /\ Drp(x)[1] = "drp" /\ Cb(x)[1] = "cb"
           /\ Resume(x)[1] = "resume" /\ Reap(x)[1] = "reap"
  BY BlockFacts, OpFacts
<1>2. \A x : Fut(x)[2] = x /\ Cnt(x)[2] = x /\ Cas(x)[2] = x /\ Drp(x)[2] = x /\ Cb(x)[2] = x
           /\ Resume(x)[2] = x /\ Reap(x)[2] = x
  BY BlockFacts, OpFacts
<1> QED
  BY <1>1, <1>2, BlockFacts

(* Which node's block it is. *)
LEMMA Owners ==
  /\ \A x, y : (Fut(x) = Fut(y) => x = y) /\ (Cas(x) = Cas(y) => x = y) /\ (Drp(x) = Drp(y) => x = y)
              /\ (Resume(x) = Resume(y) => x = y) /\ (Reap(x) = Reap(y) => x = y) /\ (Cb(x) = Cb(y) => x = y)
              /\ (Cnt(x) = Cnt(y) => x = y)
  /\ \A x, y : /\ Fut(x) \notin {Cnt(y), Cas(y), Drp(y), Cb(y), Resume(y), Reap(y)}
              /\ Cas(x) \notin {Cnt(y), Drp(y), Cb(y), Resume(y), Reap(y)}
              /\ Drp(x) \notin {Cnt(y), Cb(y), Resume(y), Reap(y)}
              /\ Resume(x) \notin {Cnt(y), Cb(y), Reap(y)}
              /\ Reap(x) \notin {Cnt(y), Cb(y)}
              /\ Cb(x) # Cnt(y)
  /\ \A p, r, x : On(p, r) \notin {Fut(x), Cnt(x), Cas(x), Drp(x), Cb(x), Resume(x), Reap(x)}
<1>1. \A x, y : (Fut(x) = Fut(y) => x = y) /\ (Cas(x) = Cas(y) => x = y) /\ (Drp(x) = Drp(y) => x = y)
              /\ (Resume(x) = Resume(y) => x = y) /\ (Reap(x) = Reap(y) => x = y) /\ (Cb(x) = Cb(y) => x = y)
              /\ (Cnt(x) = Cnt(y) => x = y)
  BY Tags
<1>2. \A x, y : /\ Fut(x) \notin {Cnt(y), Cas(y), Drp(y), Cb(y), Resume(y), Reap(y)}
              /\ Cas(x) \notin {Cnt(y), Drp(y), Cb(y), Resume(y), Reap(y)}
              /\ Drp(x) \notin {Cnt(y), Cb(y), Resume(y), Reap(y)}
              /\ Resume(x) \notin {Cnt(y), Cb(y), Reap(y)}
              /\ Reap(x) \notin {Cnt(y), Cb(y)}
              /\ Cb(x) # Cnt(y)
  BY Tags, SMT
<1>3. \A p, r, x : On(p, r) \notin {Fut(x), Cnt(x), Cas(x), Drp(x), Cb(x), Resume(x), Reap(x)}
  BY Tags, SMT
<1> QED
  BY <1>1, <1>2, <1>3

-----------------------------------------------------------------------------
(* Frees.                                                                   *)

(* Free, of closures and counters.                                          *)
LEMMA FreeEnvs ==
  ASSUME IInv, todo # <<>>, Head(todo)[1] = "free", live' = live \ Uses(Head(todo)), Then(<<>>),
         UNCHANGED <<kind, inputs, fut, cnt, reg, mine, held, done, taken>>
  PROVE  IInv'
<1> DEFINE e == Head(todo)[2] \ {Nop}
           M == {}
<1>1. Typed /\ Ordered /\ UniqueOK
  BY DEF IInv
<1>2. todo' \in Seq(AllOps) /\ Ordered' /\ Replaced({}) /\ FreesAre({})
  BY <1>1, Push0
<1>3. Head(todo)[2] \subseteq Envs /\ FreesIn(Head(todo)) = Head(todo)[2] /\ Uses(Head(todo)) = e
  <2>1. Head(todo) \in AllOps
    BY <1>1, RestFacts
  <2> QED
    BY <2>1, SMT DEF AllOps, FreesIn, Uses
<1>4. Fixed
  BY DEF Fixed
<1>5. Typed'
  BY <1>1, <1>2 DEF Typed
<1> HIDE DEF e
<1>6. live' = live \ e
  BY <1>3
<1>7. \A b : Frees(b)' <=> Frees(b) /\ b \notin Head(todo)[2]
  BY <1>2, <1>3 DEF FreesAre
<1>8. \A b \in Head(todo)[2] : Frees(b)
  BY <1>1, <1>3, RestFacts
<1>9. ASSUME NEW b, b # Nop PROVE BlockKept(b)
  BY <1>6, <1>7, <1>8, <1>9 DEF BlockKept, e
<1>10. \A x : Fut(x) \notin e /\ Drp(x) \notin e /\ Cas(x) \notin e
  BY <1>3, EnvKinds DEF e
<1>11. \A x \in Nodes : OpsSame(x)
  <2> SUFFICES ASSUME NEW x \in Nodes PROVE OpsSame(x)
    OBVIOUS
  <2>1. \A o \in {} : o[1] # "free" => Subject(o) # x
    OBVIOUS
  <2> QED
    BY <1>2, <2>1, SameOps
<1>12. \A x \in Nodes : Same(x) /\ NodeBlocksKept(x)
  <2> SUFFICES ASSUME NEW x \in Nodes PROVE Same(x) /\ NodeBlocksKept(x)
    OBVIOUS
  <2>1. Same(x)
    BY <1>6, <1>10, <1>11 DEF Same, Alive
  <2>2. BlockKept(Resume(x)) /\ BlockKept(Reap(x)) /\ BlockKept(Cb(x)) /\ BlockKept(Cnt(x))
    BY <1>9, NotNop
  <2> QED
    BY <1>6, <1>10, <2>1, <2>2 DEF NodeBlocksKept
<1>13. UniqueOK'
  BY <1>1, <1>4, <1>12, StateFrame, UniqueFrame DEF Nodes
<1>14. (\E D \in SUBSET Nodes : Doomed(D))'
  <2>1. PICK D \in SUBSET Nodes : Doomed(D)
    BY DEF IInv
  <2>2. \A x \in Nodes : (Drops(x)' <=> Drops(x)) /\ (Calls(Cas(x))' <=> Calls(Cas(x))) /\ (Runs(x)' <=> Runs(x))
    BY <1>11, Zenon DEF OpsSame, Runs, Completes
  <2> QED
    BY <1>4, <2>1, <2>2, DoomedFrame DEF Doomed
<1>15. \A p \in Combs, r \in {0, 1} : BlockKept(On(p, r)) /\ (HookNeed(p, r)' <=> HookNeed(p, r))
  <2> SUFFICES ASSUME NEW p \in Combs, NEW r \in {0, 1}
               PROVE  BlockKept(On(p, r)) /\ (HookNeed(p, r)' <=> HookNeed(p, r))
    OBVIOUS
  <2>1. PICK x \in Nodes : In(p, r) = x
    BY <1>1, InNodes
  <2>2. Same(p) /\ Same(x)
    BY <1>12 DEF Nodes
  <2>3. HookNeed(p, r)' <=> HookNeed(p, r)
    BY <1>4, <2>1, <2>2, HookFrame
  <2> QED
    BY <1>9, <2>3, NotNop
<1> QED
  <2>1. M \in SUBSET Nodes /\ \A x \in Nodes \ M : Same(x) /\ NodeBlocksKept(x)
    BY <1>12
  <2> QED
    BY <1>2, <1>4, <1>5, <1>13, <1>14, <1>15, <2>1, StepFrame

(* Free, of a future and what it owns: release and Future_free.             *)
LEMMA FreeNode ==
  ASSUME IInv, todo # <<>>, NEW a \in {"release", "Future_free"}, NEW n \in Nodes, Head(todo) = Op(a, n),
         live' = live \ Uses(Head(todo)), Then(<<>>),
         UNCHANGED <<kind, inputs, fut, cnt, reg, mine, held, done, taken>>
  PROVE  IInv'
<1> DEFINE w == IF a = "release" THEN Waker(n) ELSE Nop
           d == fut[n].on_drop
           F == {Fut(n)} \cup Env(w) \cup Env(d)
           M == {n}
<1>1. Typed /\ Ordered /\ UniqueOK
  BY DEF IInv
<1>2. todo' \in Seq(AllOps) /\ Ordered' /\ Replaced({}) /\ FreesAre({})
  BY <1>1, Push0
<1>3. Uses(Head(todo)) = F /\ FreesIn(Head(todo)) = {} /\ Head(todo)[1] = a /\ Fut(n) \in Claims(Head(todo))
  <2>1. Head(todo)[1] = a /\ Head(todo)[2] = n
    BY OpFacts
  <2>2. Uses(Head(todo)) = F
    <3>1. CASE a = "release"
      BY <2>1, <3>1, SMT DEF Uses, Env, Waker
    <3>2. CASE a = "Future_free"
      BY <2>1, <3>2, SMT DEF Uses, Env
    <3> QED
      BY <3>1, <3>2
  <2> QED
    BY <2>1, <2>2, ClaimsOf
<1>4. Fixed
  BY DEF Fixed
<1>5. Typed'
  BY <1>1, <1>2 DEF Typed
<1>6. live' = live \ F /\ fut' = fut
  BY <1>3
<1>7. \A b : Frees(b)' <=> Frees(b)
  BY <1>2, <1>3 DEF FreesAre
<1>8. (\A c : ~Calls(c)) /\ \A x : ~Tallies(x)
  BY <1>1, <1>3, AtOnce, Subjects DEF AtHead
<1>9. /\ a = "release" => Releases(n)
      /\ a = "Future_free" => FreesNode(n)
  BY <1>1, RestFacts DEF Releases, FreesNode
<1>10. FutureOK(n) /\ MineOK(n) /\ BlocksOK(n) /\ OwnerOK(n)
  BY DEF IInv
<1>11. Alive(n) /\ Claimed(n) /\ State(n) = IF a = "release" THEN CANCELLED ELSE READY
  BY <1>9, <1>10 DEF FutureOK, Claimed
<1>12. \A o : Has(o) /\ Fut(n) \in Claims(o) => AtHead(o)
  BY <1>1, <1>3, HeadClaims
<1>13. /\ Drops(n) => AtHead(Op("drop", n))
       /\ Releases(n) => AtHead(Op("release", n))
       /\ FreesNode(n) => AtHead(Op("Future_free", n))
  BY <1>12, ClaimsOf DEF Drops, Releases, FreesNode
<1>14. ~Drops(n) /\ ~Drops(n)' /\ ~Releases(n)' /\ ~FreesNode(n)'
  BY <1>2, <1>3, <1>13, OpsNow, OpFacts DEF AtHead
<1>15. /\ Settles(n)' <=> Settles(n)
       /\ Hooks(n)' <=> Hooks(n)
       /\ \A c : ~Calls(c)'
       /\ \A x : ~Tallies(x)'
       /\ \A v : Resolves(n, v)' <=> Resolves(n, v)
       /\ \A v : Arms(n, v)' <=> Arms(n, v)
  <2>1. \A y, v : ~AtHead(Op("settle", y)) /\ ~AtHead(Op("hook", y)) /\ ~AtHead(Complete(y, v)) /\ ~AtHead(Arm(y, v))
    BY <1>3, OpFacts DEF AtHead
  <2> QED
    BY <1>2, <1>8, <2>1, OpsNow
<1>16. ASSUME NEW x \in Nodes, x # n PROVE OpsSame(x)
  <2>1. Subject(Head(todo)) = n
    BY Subjects
  <2>2. \A o \in {} : o[1] # "free" => Subject(o) # x
    OBVIOUS
  <2> QED
    BY <1>2, <1>16, <2>1, <2>2, SameOps
<1>17. w \in {Nop, Resume(n), Reap(n)} \/ \E p \in Combs, r \in {0, 1} : In(p, r) = n /\ w = On(p, r)
  BY <1>10, Zenon DEF FutureOK
<1>18. d \in {Nop, Cas(n), Drp(n)}
  BY <1>1, InNodes DEF IInv, LeafOK, CombOK, CallsOK, Nodes
<1> HIDE DEF w, d
<1>19. \A x \in Nodes : x # n => Same(x) /\ NodeBlocksKept(x)
  <2> SUFFICES ASSUME NEW x \in Nodes, x # n PROVE Same(x) /\ NodeBlocksKept(x)
    OBVIOUS
  <2>1. Fut(x) \notin F
    BY <1>17, <1>18, Owners, NotNop, SMT DEF Env
  <2>2. {Resume(x), Reap(x), Cb(x), Cnt(x), Drp(x), Cas(x)} \cap F = {}
    BY <1>17, <1>18, Owners, NotNop, SMT DEF Env
  <2>3. Same(x)
    BY <1>6, <1>16, <2>1 DEF Same, Alive
  <2> QED
    BY <1>6, <1>7, <2>2, <2>3 DEF NodeBlocksKept, BlockKept
<1>20. /\ State(n)' = State(n) /\ Waker(n)' = Waker(n) /\ fut'[n] = fut[n] /\ ~Alive(n)'
       /\ ~Claimed(n)' /\ Gone(n)' /\ Gone(n)
       /\ Unresolved(n)' <=> Unresolved(n)
       /\ Completes(n)' <=> Completes(n)
       /\ ~Unresolved(n) /\ ~Completes(n)
  <2>1. ~Alive(n)'
    BY <1>6 DEF Alive
  <2>2. ~Claimed(n)'
    BY <1>14 DEF Claimed
  <2>3. Completes(n)' <=> Completes(n)
    BY <1>15 DEF Completes
  <2>4. ~Unresolved(n)
    BY <1>11 DEF Unresolved, READY, CANCELLED, PENDING, WAITING
  <2> QED
    BY <1>6, <1>10, <1>11, <2>1, <2>2, <2>3, <2>4 DEF State, Waker, Gone, Unresolved, FutureOK
<1>21. FutureOK(n)' /\ MineOK(n)'
  <2>1. \A p, r : In(p, r)' = In(p, r)
    BY <1>4, InFrame
  <2>2. FutureOK(n)'
    BY <1>10, <1>14, <1>15, <1>20, <2>1, <1>11 DEF FutureOK, Unresolved
  <2>3. MineOK(n)'
    BY <1>10, <1>11, <1>15, <1>20 DEF MineOK, Unresolved
  <2> QED
    BY <2>2, <2>3
<1>22. n \notin mine \cup held /\ n \notin mine' \cup held'
  BY <1>10, <1>11 DEF MineOK
<1>23. ~Lent(n)'
  BY <1>20 DEF Lent
<1>24. BlocksOK(n)'
  <2>1. OneOf(Resume(n), Lent(n) /\ Waker(n) = Resume(n))'
    <3>1. (Resume(n) \in live' <=> Resume(n) \in live /\ w # Resume(n)) /\ ~(Lent(n) /\ Waker(n) = Resume(n))'
      BY <1>6, <1>18, <1>23, Owners, NotNop, SMT DEF Env
    <3>2. OneOf(Resume(n), Lent(n) /\ Waker(n) = Resume(n)) /\ (w = Resume(n) => w = Waker(n))
      BY <1>10, NotNop DEF BlocksOK, w
    <3>3. Lent(n) /\ Waker(n) = Resume(n) <=> w = Resume(n)
      BY <1>8, <1>11, NotNop DEF Lent, w, READY, WAITING, CANCELLED
    <3> QED
      BY <1>7, <3>1, <3>2, <3>3 DEF OneOf
  <2>2. OneOf(Reap(n), Lent(n) /\ Waker(n) = Reap(n))'
    <3>1. (Reap(n) \in live' <=> Reap(n) \in live /\ w # Reap(n)) /\ ~(Lent(n) /\ Waker(n) = Reap(n))'
      BY <1>6, <1>18, <1>23, Owners, NotNop, SMT DEF Env
    <3>2. OneOf(Reap(n), Lent(n) /\ Waker(n) = Reap(n)) /\ (w = Reap(n) => w = Waker(n))
      BY <1>10, NotNop DEF BlocksOK, w
    <3>3. Lent(n) /\ Waker(n) = Reap(n) <=> w = Reap(n)
      BY <1>8, <1>11, NotNop DEF Lent, w, READY, WAITING, CANCELLED
    <3> QED
      BY <1>7, <3>1, <3>2, <3>3 DEF OneOf
  <2>3. ASSUME n \in Leaves PROVE OneOf(Cb(n), n \in reg)' /\ (Drp(n) \in live <=> Alive(n) /\ fut[n].on_drop = Drp(n))'
    <3>1. (Cb(n) \in live' <=> Cb(n) \in live) /\ (Drp(n) \in live' <=> Drp(n) \in live /\ d # Drp(n))
      BY <1>6, <1>17, <1>18, Owners, NotNop, SMT DEF Env
    <3>2. OneOf(Cb(n), n \in reg) /\ (Drp(n) \in live <=> Alive(n) /\ fut[n].on_drop = Drp(n))
      BY <1>10, <2>3 DEF BlocksOK
    <3> QED
      BY <1>7, <1>20, <3>1, <3>2 DEF OneOf, d
  <2>4. ASSUME n \in Combs
        PROVE  /\ (Cas(n) \in live <=> Alive(n) /\ fut[n].on_drop = Cas(n))'
               /\ OneOf(Cnt(n), IsJoin(n) /\ Open(n))'
    <3>1. (Cnt(n) \in live' <=> Cnt(n) \in live) /\ (Cas(n) \in live' <=> Cas(n) \in live /\ d # Cas(n))
      BY <1>6, <1>17, <1>18, Owners, NotNop, SMT DEF Env
    <3>2. OneOf(Cnt(n), IsJoin(n) /\ Open(n)) /\ (Cas(n) \in live <=> Alive(n) /\ fut[n].on_drop = Cas(n))
      BY <1>10, <2>4 DEF BlocksOK
    <3>3. ~Open(n) /\ ~Open(n)'
      BY <1>8, <1>20 DEF Open
    <3> QED
      BY <1>7, <1>20, <3>1, <3>2, <3>3 DEF OneOf, d
  <2> QED
    BY <2>1, <2>2, <2>3, <2>4 DEF BlocksOK
<1>25. n \in Leaves => LeafOK(n)'
  <2> SUFFICES ASSUME n \in Leaves PROVE LeafOK(n)'
    OBVIOUS
  <2>1. LeafOK(n)
    BY DEF IInv
  <2>2. n \notin reg
    BY <1>8, <1>20, <2>1 DEF LeafOK
  <2> QED
    BY <1>15, <1>20, <2>1, <2>2 DEF LeafOK
<1>26. ~Virgin(n) /\ ~Virgin(n)'
  BY <1>11, <1>20 DEF Virgin, READY, CANCELLED, PENDING
<1>27. ASSUME n \in Combs PROVE Like(n) /\ CallsOK(n)' /\ NewOK(n)' /\ \A r : Holder(n, r)' <=> Holder(n, r)
  <2>1. ~Open(n) /\ ~Open(n)'
    BY <1>8, <1>20 DEF Open
  <2>2. /\ \A v : Yields(n, v)' <=> Yields(n, v)
        /\ (Full(n)' <=> Full(n)) /\ (Resolved(n)' <=> Resolved(n))
    BY <1>6, <1>15, <1>20 DEF Yields, Full, Resolved
  <2>3. Like(n)
    BY <1>6, <1>8, <1>15, <1>20, <1>26, <2>1, <2>2 DEF Like
  <2>4. CallsOK(n)
    BY <1>27 DEF IInv, CombOK
  <2>5. CallsOK(n)'
    BY <1>8, <1>15, <1>20, <1>22, <2>4 DEF CallsOK
  <2>6. \A r : Holder(n, r)' <=> Holder(n, r)
    BY <1>4, <2>1, <2>2, InFrame DEF Holder
  <2> QED
    BY <1>26, <2>3, <2>5, <2>6 DEF NewOK
<1>28. ASSUME n \in Combs PROVE CombOK(n)'
  <2>1. PICK x \in Nodes, y \in Nodes : In(n, 0) = x /\ In(n, 1) = y
    BY <1>1, <1>28, InNodes
  <2>2. x # n /\ y # n
    BY <1>1, <1>28, <2>1, Acyclic DEF Typed
  <2>3. Same(x) /\ Same(y)
    BY <1>19, <2>2
  <2>4. ~Virgin(n)' => BuiltOK(n)'
    BY <1>4, <1>27, <1>28, <2>1, <2>3, KidStates, BuiltFrame DEF IInv, CombOK
  <2> QED
    BY <1>27, <1>28, <2>4 DEF CombOK
<1>29. OwnerOK(n)'
  <2>1. Parent(n) => Parent(n)'
    <3> SUFFICES ASSUME NEW p \in Combs, NEW r \in {0, 1}, In(p, r) = n, Holder(p, r) PROVE In(p, r)' = n /\ Holder(p, r)'
      BY DEF Parent
    <3>1. p # n
      BY <1>1, Acyclic DEF Typed
    <3>2. Same(p)
      BY <1>19, <3>1 DEF Nodes
    <3> QED
      BY <1>4, <3>2, InFrame, StateFrame
  <2> QED
    BY <1>10, <1>14, <1>15, <1>20, <1>22, <2>1 DEF OwnerOK
<1>30. NodeOK(n)'
  BY <1>21, <1>24, <1>25, <1>27, <1>28, <1>29 DEF NodeOK
<1>31. Faint(n)
  <2>1. Spared(n) => Spared(n)'
    BY <1>14, <1>20 DEF Spared
  <2>2. Untaken(n) => Untaken(n)'
    BY <1>15, <1>20 DEF Untaken
  <2> QED
    BY <1>20, <1>22, <1>26, <2>1, <2>2 DEF Faint
<1>32. ASSUME NEW p \in Combs, NEW r \in {0, 1}
       PROVE  HookOK(p, r)' \/ (BlockKept(On(p, r)) /\ (HookNeed(p, r)' <=> HookNeed(p, r)))
  <2>1. PICK x \in Nodes : In(p, r) = x
    BY <1>1, InNodes
  <2>2. On(p, r) \in F <=> w = On(p, r)
    BY <1>18, Owners, NotNop, SMT DEF Env
  <2>3. Unarmed(p, r)' <=> Unarmed(p, r)
    <3>1. OpsSame(p) \/ p = n
      BY <1>16 DEF Nodes
    <3> QED
      BY <1>15, <3>1 DEF Unarmed, OpsSame
  <2>4. In(p, r)' = x
    BY <1>4, <2>1, InFrame
  <2>5. CASE x = n
    <3>1. HookNeed(p, r)' <=> Unarmed(p, r)
      BY <1>23, <2>3, <2>4, <2>5 DEF HookNeed
    <3>2. HookNeed(p, r) <=> Unarmed(p, r) \/ w = On(p, r)
      BY <1>8, <1>11, <2>1, <2>5, NotNop DEF HookNeed, Lent, w, READY, WAITING, CANCELLED
    <3>3. CASE w = On(p, r)
      <4>1. ~Unarmed(p, r)
        <5> SUFFICES ASSUME Unarmed(p, r) PROVE FALSE
          OBVIOUS
        <5>1. p \in mine /\ State(p) = PENDING
          BY DEF IInv, CombOK, CallsOK, Unarmed
        <5>2. Alive(p)
          BY <5>1, <1>1, InNodes DEF IInv, MineOK
        <5>3. Runs(p) /\ (Has(Arm(p, 0)) \/ Has(Arm(p, 1)))
          BY DEF Runs, Unarmed, Arms
        <5>4. ~Completes(p)
          <6>1. ASSUME NEW v, Resolves(p, v) PROVE FALSE
            <7>1. Up(Complete(p, v)) /\ Up(Arm(p, 0)) /\ Up(Arm(p, 1)) /\ Complete(p, v)[1] = "complete"
                  /\ Arm(p, 0)[1] = "arm" /\ Arm(p, 1)[1] = "arm"
              BY ClaimsOf, OpFacts
            <7> QED
              BY <1>1, <5>3, <6>1, <7>1, UpOnce DEF Resolves
          <6> QED
            BY <6>1 DEF Completes
        <5>5. Open(p) /\ ~Virgin(p)
          BY <5>1, <5>2, <5>4 DEF Open, Unresolved, Virgin
        <5>6. KidOK(p, 0) /\ KidOK(p, 1)
          BY <5>5 DEF IInv, CombOK, BuiltOK, OpenOK
        <5>7. KidOK(p, r)
          BY <5>6
        <5>8. Loose(n)
          BY <2>1, <2>5, <5>7 DEF KidOK
        <5> QED
          BY <1>11, <5>8 DEF Loose
      <4>2. On(p, r) \in live /\ ~Frees(On(p, r))
        BY <3>2, <3>3 DEF IInv, HookOK, OneOf, HookNeed
      <4>3. On(p, r) \notin live'
        BY <1>6, <2>2, <3>3
      <4> QED
        BY <1>7, <3>1, <4>1, <4>2, <4>3 DEF HookOK, OneOf, HookNeed
    <3>4. CASE w # On(p, r)
      BY <1>6, <1>7, <2>2, <3>1, <3>2, <3>4 DEF BlockKept
    <3> QED
      BY <3>3, <3>4
  <2>6. CASE x # n
    <3>1. w # On(p, r)
      <4>1. w \notin {Nop, Resume(n), Reap(n)} => \E q \in Combs, u \in {0, 1} : In(q, u) = n /\ w = On(q, u)
        BY <1>17
      <4>2. On(p, r) \notin {Nop, Resume(n), Reap(n)}
        BY Owners, NotNop
      <4>3. \A q, u : On(q, u) = On(p, r) => q = p /\ u = r
        BY BlockFacts
      <4> QED
        BY <2>1, <2>6, <4>1, <4>2, <4>3
    <3>2. BlockKept(On(p, r))
      BY <1>6, <1>7, <2>2, <3>1 DEF BlockKept
    <3>3. (Lent(x)' <=> Lent(x)) /\ Waker(x)' = Waker(x)
      <4>1. Same(x)
        BY <1>19, <2>6
      <4>2. State(x)' = State(x) /\ (Alive(x)' <=> Alive(x)) /\ Waker(x)' = Waker(x)
        BY <1>4, <4>1, StateFrame
      <4> QED
        BY <1>8, <1>15, <4>2 DEF Lent
    <3> QED
      BY <2>1, <2>3, <2>4, <3>2, <3>3 DEF HookNeed
  <2> QED
    BY <2>5, <2>6
<1>33. UniqueOK'
  BY <1>1, <1>4, <1>19, <1>26, StateFrame, UniqueFrame DEF Nodes
<1>34. (\E D \in SUBSET Nodes : Doomed(D))'
  <2>1. PICK D \in SUBSET Nodes : Doomed(D)
    BY DEF IInv
  <2>2. \A x \in Nodes : (Drops(x)' => Drops(x)) /\ ~Calls(Cas(x))' /\ (Runs(x)' => Runs(x))
    <3>1. \A x \in Nodes : x # n => (Drops(x)' => Drops(x)) /\ (Runs(x)' <=> Runs(x))
      BY <1>16, Zenon DEF OpsSame, Runs, Completes
    <3>2. Runs(n)' => Runs(n)
      BY <1>15, <1>20 DEF Runs
    <3> QED
      BY <1>14, <1>15, <3>1, <3>2
  <2> QED
    BY <1>4, <2>1, <2>2, DoomedFrame DEF Doomed
<1> HIDE DEF F
<1> QED
  <2>1. M \in SUBSET Nodes /\ (\A x \in Nodes \ M : Same(x) /\ NodeBlocksKept(x)) /\ \A x \in M : NodeOK(x)'
    BY <1>19, <1>30
  <2>2. \A p \in Combs \ M, r \in {0, 1}, x \in M : In(p, r) = x => Virgin(p) \/ Faint(x)
    BY <1>31
  <2>3. \A x \in Nodes \ M : OwnerOK(x)' \/ \A p \in M \cap Combs, r \in {0, 1} : In(p, r) = x /\ Holder(p, r) => Holder(p, r)'
    BY <1>27
  <2> HIDE DEF M
  <2> QED
    BY <1>2, <1>4, <1>5, <1>32, <1>33, <1>34, <2>1, <2>2, <2>3, StepFrame

-----------------------------------------------------------------------------
(* Completion.                                                              *)

(* The operations and the closures by their names.                          *)
LEMMA Forms ==
  /\ \A o \in AllOps :
       /\ o[1] = "complete" => o[2] \in Nodes /\ o[3] \in 0 .. 2 /\ o = Complete(o[2], o[3])
       /\ o[1] = "arm" => o[2] \in Combs /\ o[3] \in {0, 1} /\ o = Arm(o[2], o[3])
       /\ o[1] \in {"drop", "release", "Future_free", "settle"} => o[2] \in Nodes /\ o = Op(o[1], o[2])
       /\ o[1] \in {"tally", "hook"} => o[2] \in Combs /\ o = Op(o[1], o[2])
       /\ o[1] = "call" => o[2] \in Resuming \cup Hooked \cup OnDrops /\ o = Op("call", o[2])
  /\ \A c \in Resuming \cup Hooked \cup OnDrops :
       /\ c[1] = "on" => c[2] \in Combs /\ c[3] \in {0, 1} /\ c = On(c[2], c[3])
       /\ c[1] = "resume" => c[2] \in Nodes /\ c = Resume(c[2])
       /\ c[1] = "reap" => c[2] \in Nodes /\ c = Reap(c[2])
       /\ c[1] = "cas" => c[2] \in Combs /\ c = Cas(c[2])
       /\ c[1] = "drp" => c[2] \in Leaves /\ c = Drp(c[2])
       /\ c[1] \in {"on", "resume", "reap", "cas", "drp"}
<1>1. ASSUME NEW o \in AllOps
      PROVE  /\ o[1] = "complete" => o[2] \in Nodes /\ o[3] \in 0 .. 2 /\ o = Complete(o[2], o[3])
             /\ o[1] = "arm" => o[2] \in Combs /\ o[3] \in {0, 1} /\ o = Arm(o[2], o[3])
             /\ o[1] \in {"drop", "release", "Future_free", "settle"} => o[2] \in Nodes /\ o = Op(o[1], o[2])
             /\ o[1] \in {"tally", "hook"} => o[2] \in Combs /\ o = Op(o[1], o[2])
             /\ o[1] = "call" => o[2] \in Resuming \cup Hooked \cup OnDrops /\ o = Op("call", o[2])
  <2>1. o[1] = "complete" => o[2] \in Nodes /\ o[3] \in 0 .. 2 /\ o = Complete(o[2], o[3])
    BY SMT DEF AllOps, Complete
  <2>2. o[1] = "arm" => o[2] \in Combs /\ o[3] \in {0, 1} /\ o = Arm(o[2], o[3])
    BY SMT DEF AllOps, Arm
  <2>3. o[1] \in {"drop", "release", "Future_free", "settle"} => o[2] \in Nodes /\ o = Op(o[1], o[2])
    BY SMT DEF AllOps, Op
  <2>4. o[1] \in {"tally", "hook"} => o[2] \in Combs /\ o = Op(o[1], o[2])
    BY SMT DEF AllOps, Op
  <2>5. o[1] = "call" => o[2] \in Resuming \cup Hooked \cup OnDrops /\ o = Op("call", o[2])
    BY SMT DEF AllOps, Op
  <2> QED
    BY <2>1, <2>2, <2>3, <2>4, <2>5
<1>2. ASSUME NEW c \in Resuming \cup Hooked \cup OnDrops
      PROVE  \/ \E x \in Nodes : c = Resume(x) \/ c = Reap(x)
             \/ \E p \in Combs, r \in {0, 1} : c = On(p, r)
             \/ \E p \in Combs : c = Cas(p)
             \/ \E l \in Leaves : c = Drp(l)
  BY SMT DEF Resuming, Hooked, OnDrops
<1>3. ASSUME NEW c \in Resuming \cup Hooked \cup OnDrops
      PROVE  /\ c[1] = "on" => c[2] \in Combs /\ c[3] \in {0, 1} /\ c = On(c[2], c[3])
             /\ c[1] = "resume" => c[2] \in Nodes /\ c = Resume(c[2])
             /\ c[1] = "reap" => c[2] \in Nodes /\ c = Reap(c[2])
             /\ c[1] = "cas" => c[2] \in Combs /\ c = Cas(c[2])
             /\ c[1] = "drp" => c[2] \in Leaves /\ c = Drp(c[2])
             /\ c[1] \in {"on", "resume", "reap", "cas", "drp"}
  BY <1>2, Tags, SMT
<1> QED
  BY <1>1, <1>3

(* Nothing runs of x but the call at the head.                              *)
Bare(x) ==
  /\ ~Drops(x) /\ ~Releases(x) /\ ~FreesNode(x) /\ ~Settles(x)
  /\ ~Arms(x, 0) /\ ~Arms(x, 1) /\ ~Hooks(x) /\ ~Tallies(x)
  /\ \A v : ~Resolves(x, v)

(* What follows of it.                                                      *)
LEMMA BareFacts ==
  ASSUME NEW x
  PROVE  /\ Bare(x) => ~Claimed(x) /\ ~Completes(x) /\ \A r : ~Unarmed(x, r)
         /\ Bare(x)' => ~Claimed(x)' /\ ~Completes(x)' /\ \A r : ~Unarmed(x, r)'
         /\ Quiet(x) => Bare(x)
         /\ Quiet(x)' => Bare(x)'
BY DEF Bare, Quiet, Claimed, Completes, Unarmed

(* At the head is an operation that names one future: nothing else is left  *)
(* for any other but to free the closures of those that ran.                *)
LEMMA UpQuiet ==
  ASSUME Typed, Ordered, todo = <<>> \/ Up(Head(todo)), NEW x, todo = <<>> \/ Subject(Head(todo)) # x
  PROVE  Quiet(x)
<1>1. \A o : o[1] # "free" => (Has(o) <=> AtHead(o))
  BY OnlyHead
<1>2. \A o : o[1] # "free" /\ Has(o) => Subject(o) # x
  BY <1>1 DEF AtHead
<1> QED
  BY <1>2, QuietIf

(* While a closure is called, everything else waits.                        *)
LEMMA UpBare ==
  ASSUME Typed, Ordered, todo # <<>>, Up(Head(todo)), Head(todo)[1] = "call"
  PROVE  \A x : Bare(x)
<1>1. \A o : o[1] \notin {"free", "call"} => ~Has(o)
  BY OnlyHead DEF AtHead
<1>2. \A a, y : a \notin {"free", "call"} => ~Has(Op(a, y))
  BY <1>1, Subjects
<1>3. \A y, v : ~Has(Complete(y, v)) /\ ~Has(Arm(y, v))
  BY <1>1, OpFacts
<1>4. \A x, v : ~Resolves(x, v) /\ ~Arms(x, v)
  BY <1>3 DEF Resolves, Arms
<1>5. \A x : ~Drops(x) /\ ~Releases(x) /\ ~FreesNode(x) /\ ~Settles(x) /\ ~Hooks(x) /\ ~Tallies(x)
  BY <1>2, SMT DEF Drops, Releases, FreesNode, Settles, Hooks, Tallies
<1> QED
  BY <1>4, <1>5 DEF Bare

(* What is not in S is not on the stack after the step. *)
LEMMA BareNext ==
  ASSUME Typed, Ordered, todo = <<>> \/ Up(Head(todo)), NEW S, Replaced(S), NEW x
  PROVE  /\ Drops(x)' <=> Op("drop", x) \in S
         /\ Releases(x)' <=> Op("release", x) \in S
         /\ FreesNode(x)' <=> Op("Future_free", x) \in S
         /\ Settles(x)' <=> Op("settle", x) \in S
         /\ Hooks(x)' <=> Op("hook", x) \in S
         /\ Tallies(x)' <=> Op("tally", x) \in S
         /\ Calls(x)' <=> Op("call", x) \in S
         /\ \A v : Resolves(x, v)' <=> Complete(x, v) \in S
         /\ \A v : Arms(x, v)' <=> Arm(x, v) \in S
<1>1. \A o : o[1] # "free" => (Has(o)' <=> o \in S)
  BY OnlyHead
<1>2. \A a, y : a # "free" => (Has(Op(a, y))' <=> Op(a, y) \in S)
  BY <1>1, Subjects
<1>3. \A v : (Has(Complete(x, v))' <=> Complete(x, v) \in S) /\ (Has(Arm(x, v))' <=> Arm(x, v) \in S)
  BY <1>1, Subjects
<1> QED
  BY <1>2, <1>3, SMT DEF Drops, Releases, FreesNode, Settles, Hooks, Tallies, Calls, Resolves, Arms

(* What waits for x is what holds it. *)
LEMMA WaiterHolds ==
  ASSUME IInv, NEW x \in Nodes, Unresolved(x), Alive(x), ~Claimed(x), \A p : ~Arms(p, 0) /\ ~Arms(p, 1)
  PROVE  \/ x \in mine \cup held
         \/ \E p \in Combs, r \in {0, 1} :
              /\ In(p, r) = x /\ Open(p) /\ ~Virgin(p) /\ State(x) = WAITING /\ Waker(x) = On(p, r) /\ KidOK(p, r)
              /\ Armed(p, r)
<1>1. SUFFICES ASSUME x \notin mine \cup held
               PROVE  \E p \in Combs, r \in {0, 1} :
                        /\ In(p, r) = x /\ Open(p) /\ ~Virgin(p) /\ State(x) = WAITING /\ Waker(x) = On(p, r) /\ KidOK(p, r)
                        /\ Armed(p, r)
  OBVIOUS
<1>2. PICK p \in Combs, r \in {0, 1} : In(p, r) = x /\ Holder(p, r)
  BY <1>1 DEF IInv, OwnerOK, Parent
<1>3. State(x) # READY
  BY DEF Unresolved, READY, PENDING, WAITING
<1>4. ~Virgin(p) /\ CombOK(p)
  <2>1. p \in Nodes
    BY DEF Nodes
  <2>2. CASE Open(p)
    BY <2>2 DEF IInv, Open, Virgin
  <2>3. CASE ~Open(p)
    <3>1. PICK v \in 0 .. 2 : Yields(p, v)
      BY <1>2, <2>3 DEF Holder
    <3>2. Completes(p) \/ State(p) \in {READY, CANCELLED}
      BY <3>1 DEF Yields, Completes, Resolved
    <3>3. Alive(p) \/ State(p) \in {READY, CANCELLED}
      BY <2>1, <3>2 DEF IInv, FutureOK
    <3> QED
      BY <3>3 DEF IInv, Virgin, READY, PENDING, CANCELLED
  <2> QED
    BY <2>2, <2>3
<1>5. Open(p)
  <2> SUFFICES ASSUME ~Open(p) PROVE FALSE
    OBVIOUS
  <2>1. PICK v \in 0 .. 2 : Yields(p, v) /\ (IsJoin(p) \/ r = v)
    BY <1>2 DEF Holder
  <2>2. FullOK(p, v)
    BY <1>4, <2>1 DEF CombOK, BuiltOK
  <2>3. CASE IsJoin(p)
    <3>1. Kept(In(p, 0)) /\ Kept(In(p, 1))
      BY <2>2, <2>3 DEF FullOK
    <3>2. Kept(x)
      BY <1>2, <3>1
    <3> QED
      BY <1>3, <3>2 DEF Kept, Untaken
  <2>4. CASE ~IsJoin(p)
    BY <1>2, <1>3, <2>1, <2>2, <2>4 DEF FullOK, Untaken
  <2> QED
    BY <2>3, <2>4
<1>6. KidOK(p, r)
  <2>1. KidOK(p, 0) /\ KidOK(p, 1)
    BY <1>4, <1>5 DEF CombOK, BuiltOK, OpenOK
  <2> QED
    BY <2>1
<1>7. ~Unarmed(p, r)
  BY DEF Unarmed
<1>8. Armed(p, r)
  BY <1>2, <1>3, <1>6, <1>7 DEF KidOK, Called, Got, Kept, Untaken
<1> QED
  BY <1>2, <1>4, <1>5, <1>6, <1>8 DEF Armed

(* A hooked closure is of one combinator and one input.                     *)
LEMMA OnOf == \A p, r, q, w, z : z = On(p, r) /\ z = On(q, w) => p = q /\ r = w
<1> SUFFICES ASSUME NEW p, NEW r, NEW q, NEW w, On(p, r) = On(q, w) PROVE p = q /\ r = w
  OBVIOUS
<1>1. On(p, r)[2] = p /\ On(p, r)[3] = r /\ On(q, w)[2] = q /\ On(q, w)[3] = w
  BY Tags
<1> QED
  BY <1>1

(* Acyclic, for an input by its number.                                     *)
LEMMA Above2 ==
  ASSUME Typed, NEW p \in Combs, NEW r \in {0, 1}, NEW y, In(p, r) = y
  PROVE  y # p /\ \E D \in SUBSET Nodes :
           y \in D /\ p \notin D /\ \A q \in D \cap Combs : {In(q, 0), In(q, 1)} \subseteq D
<1>1. y \in {In(p, 0), In(p, 1)} /\ inputs \in Trees
  BY DEF Typed
<1>2. \A z \in {In(p, 0), In(p, 1)} : z # p /\ \E D \in SUBSET Nodes :
           z \in D /\ p \notin D /\ \A q \in D \cap Combs : {In(q, 0), In(q, 1)} \subseteq D
  BY <1>1, Acyclic
<1> QED
  BY <1>1, <1>2, Zenon

(* Changing one part of a future.                                           *)
LEMMA FutureRec ==
  /\ \A f \in Futures : /\ f.state \in PENDING .. CANCELLED /\ f.waker \in Wakers /\ f.on_drop \in {Nop} \cup OnDrops
                        /\ f.value \in {None} \cup 0 .. 2
  /\ \A f \in Futures, s \in PENDING .. CANCELLED :
        /\ [f EXCEPT !.state = s] \in Futures
        /\ [f EXCEPT !.state = s].state = s /\ [f EXCEPT !.state = s].waker = f.waker
        /\ [f EXCEPT !.state = s].on_drop = f.on_drop /\ [f EXCEPT !.state = s].value = f.value
  /\ \A f \in Futures, w \in Wakers :
        /\ [f EXCEPT !.waker = w] \in Futures
        /\ [f EXCEPT !.waker = w].state = f.state /\ [f EXCEPT !.waker = w].waker = w
        /\ [f EXCEPT !.waker = w].on_drop = f.on_drop /\ [f EXCEPT !.waker = w].value = f.value
  /\ \A f \in Futures, d \in {Nop} \cup OnDrops :
        /\ [f EXCEPT !.on_drop = d] \in Futures
        /\ [f EXCEPT !.on_drop = d].state = f.state /\ [f EXCEPT !.on_drop = d].waker = f.waker
        /\ [f EXCEPT !.on_drop = d].on_drop = d /\ [f EXCEPT !.on_drop = d].value = f.value
  /\ \A f \in Futures, u \in 0 .. 2 :
        /\ [f EXCEPT !.value = u] \in Futures
        /\ [f EXCEPT !.value = u].state = f.state /\ [f EXCEPT !.value = u].waker = f.waker
        /\ [f EXCEPT !.value = u].on_drop = f.on_drop /\ [f EXCEPT !.value = u].value = u
<1>1. \A f \in Futures : /\ f.state \in PENDING .. CANCELLED /\ f.waker \in Wakers /\ f.on_drop \in {Nop} \cup OnDrops
                        /\ f.value \in {None} \cup 0 .. 2
  BY SMT DEF Futures
<1>2. \A f \in Futures, s \in PENDING .. CANCELLED :
        /\ [f EXCEPT !.state = s] \in Futures
        /\ [f EXCEPT !.state = s].state = s /\ [f EXCEPT !.state = s].waker = f.waker
        /\ [f EXCEPT !.state = s].on_drop = f.on_drop /\ [f EXCEPT !.state = s].value = f.value
  BY SMT DEF Futures
<1>3. \A f \in Futures, w \in Wakers :
        /\ [f EXCEPT !.waker = w] \in Futures
        /\ [f EXCEPT !.waker = w].state = f.state /\ [f EXCEPT !.waker = w].waker = w
        /\ [f EXCEPT !.waker = w].on_drop = f.on_drop /\ [f EXCEPT !.waker = w].value = f.value
  BY SMT DEF Futures
<1>4. \A f \in Futures, d \in {Nop} \cup OnDrops :
        /\ [f EXCEPT !.on_drop = d] \in Futures
        /\ [f EXCEPT !.on_drop = d].state = f.state /\ [f EXCEPT !.on_drop = d].waker = f.waker
        /\ [f EXCEPT !.on_drop = d].on_drop = d /\ [f EXCEPT !.on_drop = d].value = f.value
  BY SMT DEF Futures
<1>5. \A f \in Futures, u \in 0 .. 2 :
        /\ [f EXCEPT !.value = u] \in Futures
        /\ [f EXCEPT !.value = u].state = f.state /\ [f EXCEPT !.value = u].waker = f.waker
        /\ [f EXCEPT !.value = u].on_drop = f.on_drop /\ [f EXCEPT !.value = u].value = u
  BY SMT DEF Futures
<1> QED
  BY <1>1, <1>2, <1>3, <1>4, <1>5

(* The changes of futures that the actions make.                            *)
Completed(f, m, u) == [f EXCEPT ![m].value = u, ![m].state = IF @ \in {PENDING, WAITING} THEN READY ELSE @]
Parked(f, m, c)    == [f EXCEPT ![m].waker = c, ![m].state = IF @ = PENDING THEN WAITING ELSE @]
Cancelled(f, m)    == [f EXCEPT ![m].state = CANCELLED]
Unhooks(f, m)      == [f EXCEPT ![m].waker = Nop]
Waits(f, m, c)     == [f EXCEPT ![m].waker = c, ![m].state = WAITING]
Disposes(f, m, d)  == [f EXCEPT ![m].on_drop = d]

(* The others stay as they are.                                             *)
LEMMA OneField ==
  ASSUME NEW f \in [Nodes -> Futures], NEW m \in Nodes, NEW h \in Futures
  PROVE  [f EXCEPT ![m] = h] \in [Nodes -> Futures] /\ [f EXCEPT ![m] = h][m] = h
         /\ \A x \in Nodes : x # m => [f EXCEPT ![m] = h][x] = f[x]
OBVIOUS

(* The states are in their range.                                           *)
LEMMA StatesIn == PENDING \in PENDING .. CANCELLED /\ WAITING \in PENDING .. CANCELLED
                  /\ READY \in PENDING .. CANCELLED /\ CANCELLED \in PENDING .. CANCELLED
BY SMT DEF READY, PENDING, CANCELLED, WAITING

(* Future_complete's change.                                                *)
LEMMA ResolvedFut ==
  ASSUME NEW f \in [Nodes -> Futures], NEW m \in Nodes, NEW u \in 0 .. 2, f[m].state \in {PENDING, WAITING}
  PROVE  /\ Completed(f, m, u) \in [Nodes -> Futures] /\ \A x \in Nodes : x # m => Completed(f, m, u)[x] = f[x]
         /\ Completed(f, m, u)[m].state = READY /\ Completed(f, m, u)[m].waker = f[m].waker
         /\ Completed(f, m, u)[m].on_drop = f[m].on_drop /\ Completed(f, m, u)[m].value = u
<1> DEFINE h == [f[m] EXCEPT !.value = u, !.state = IF @ \in {PENDING, WAITING} THEN READY ELSE @]
<1>1. Completed(f, m, u) = [f EXCEPT ![m] = h]
  BY DEF Completed
<1>2. f[m] \in Futures /\ Nop \in Wakers
  BY DEF Wakers
<1>3. h \in Futures
  BY <1>2, StatesIn, FutureRec, Zenon
<1>4. h.state = READY /\ h.waker = f[m].waker /\ h.on_drop = f[m].on_drop /\ h.value = u
  BY <1>2, SMT DEF Futures
<1> HIDE DEF h
<1>5. PICK g \in Futures : g = h
  BY <1>3
<1>6. Completed(f, m, u) = [f EXCEPT ![m] = g]
  BY <1>1, <1>5
<1> QED
  BY <1>4, <1>5, <1>6, OneField

(* Future_poll's and spawn's.                                               *)
LEMMA ParkedFut ==
  ASSUME NEW f \in [Nodes -> Futures], NEW m \in Nodes, NEW c \in Wakers
  PROVE  /\ Parked(f, m, c) \in [Nodes -> Futures] /\ \A x \in Nodes : x # m => Parked(f, m, c)[x] = f[x]
         /\ Parked(f, m, c)[m].state = (IF f[m].state = PENDING THEN WAITING ELSE f[m].state) /\ Parked(f, m, c)[m].waker = c
         /\ Parked(f, m, c)[m].on_drop = f[m].on_drop /\ Parked(f, m, c)[m].value = f[m].value
<1> DEFINE h == [f[m] EXCEPT !.waker = c, !.state = IF @ = PENDING THEN WAITING ELSE @]
<1>1. Parked(f, m, c) = [f EXCEPT ![m] = h]
  BY DEF Parked
<1>2. f[m] \in Futures /\ Nop \in Wakers
  BY DEF Wakers
<1>3. h \in Futures
  BY <1>2, StatesIn, FutureRec, Zenon
<1>4. h.state = (IF f[m].state = PENDING THEN WAITING ELSE f[m].state) /\ h.waker = c /\ h.on_drop = f[m].on_drop /\ h.value = f[m].value
  BY <1>2, SMT DEF Futures
<1> HIDE DEF h
<1>5. PICK g \in Futures : g = h
  BY <1>3
<1>6. Parked(f, m, c) = [f EXCEPT ![m] = g]
  BY <1>1, <1>5
<1> QED
  BY <1>4, <1>5, <1>6, OneField

(* Future_drop's.                                                           *)
LEMMA CancelledFut ==
  ASSUME NEW f \in [Nodes -> Futures], NEW m \in Nodes
  PROVE  /\ Cancelled(f, m) \in [Nodes -> Futures] /\ \A x \in Nodes : x # m => Cancelled(f, m)[x] = f[x]
         /\ Cancelled(f, m)[m].state = CANCELLED /\ Cancelled(f, m)[m].waker = f[m].waker
         /\ Cancelled(f, m)[m].on_drop = f[m].on_drop /\ Cancelled(f, m)[m].value = f[m].value
<1> DEFINE h == [f[m] EXCEPT !.state = CANCELLED]
<1>1. Cancelled(f, m) = [f EXCEPT ![m] = h]
  BY DEF Cancelled
<1>2. f[m] \in Futures /\ Nop \in Wakers
  BY DEF Wakers
<1>3. h \in Futures
  BY <1>2, StatesIn, FutureRec, Zenon
<1>4. h.state = CANCELLED /\ h.waker = f[m].waker /\ h.on_drop = f[m].on_drop /\ h.value = f[m].value
  BY <1>2, SMT DEF Futures
<1> HIDE DEF h
<1>5. PICK g \in Futures : g = h
  BY <1>3
<1>6. Cancelled(f, m) = [f EXCEPT ![m] = g]
  BY <1>1, <1>5
<1> QED
  BY <1>4, <1>5, <1>6, OneField

(* A join's, of an input it counts.                                         *)
LEMMA UnhooksFut ==
  ASSUME NEW f \in [Nodes -> Futures], NEW m \in Nodes
  PROVE  /\ Unhooks(f, m) \in [Nodes -> Futures] /\ \A x \in Nodes : x # m => Unhooks(f, m)[x] = f[x]
         /\ Unhooks(f, m)[m].state = f[m].state /\ Unhooks(f, m)[m].waker = Nop
         /\ Unhooks(f, m)[m].on_drop = f[m].on_drop /\ Unhooks(f, m)[m].value = f[m].value
<1> DEFINE h == [f[m] EXCEPT !.waker = Nop]
<1>1. Unhooks(f, m) = [f EXCEPT ![m] = h]
  BY DEF Unhooks
<1>2. f[m] \in Futures /\ Nop \in Wakers
  BY DEF Wakers
<1>3. h \in Futures
  BY <1>2, StatesIn, FutureRec, Zenon
<1>4. h.state = f[m].state /\ h.waker = Nop /\ h.on_drop = f[m].on_drop /\ h.value = f[m].value
  BY <1>2, SMT DEF Futures
<1> HIDE DEF h
<1>5. PICK g \in Futures : g = h
  BY <1>3
<1>6. Unhooks(f, m) = [f EXCEPT ![m] = g]
  BY <1>1, <1>5
<1> QED
  BY <1>4, <1>5, <1>6, OneField

(* A constructor's, of an input it hooks.                                   *)
LEMMA WaitsFut ==
  ASSUME NEW f \in [Nodes -> Futures], NEW m \in Nodes, NEW c \in Wakers
  PROVE  /\ Waits(f, m, c) \in [Nodes -> Futures] /\ \A x \in Nodes : x # m => Waits(f, m, c)[x] = f[x]
         /\ Waits(f, m, c)[m].state = WAITING /\ Waits(f, m, c)[m].waker = c
         /\ Waits(f, m, c)[m].on_drop = f[m].on_drop /\ Waits(f, m, c)[m].value = f[m].value
<1> DEFINE h == [f[m] EXCEPT !.waker = c, !.state = WAITING]
<1>1. Waits(f, m, c) = [f EXCEPT ![m] = h]
  BY DEF Waits
<1>2. f[m] \in Futures /\ Nop \in Wakers
  BY DEF Wakers
<1>3. h \in Futures
  BY <1>2, StatesIn, FutureRec, Zenon
<1>4. h.state = WAITING /\ h.waker = c /\ h.on_drop = f[m].on_drop /\ h.value = f[m].value
  BY <1>2, SMT DEF Futures
<1> HIDE DEF h
<1>5. PICK g \in Futures : g = h
  BY <1>3
<1>6. Waits(f, m, c) = [f EXCEPT ![m] = g]
  BY <1>1, <1>5
<1> QED
  BY <1>4, <1>5, <1>6, OneField

(* Hook's.                                                                  *)
LEMMA DisposesFut ==
  ASSUME NEW f \in [Nodes -> Futures], NEW m \in Nodes, NEW d \in {Nop} \cup OnDrops
  PROVE  /\ Disposes(f, m, d) \in [Nodes -> Futures] /\ \A x \in Nodes : x # m => Disposes(f, m, d)[x] = f[x]
         /\ Disposes(f, m, d)[m].state = f[m].state /\ Disposes(f, m, d)[m].waker = f[m].waker
         /\ Disposes(f, m, d)[m].on_drop = d /\ Disposes(f, m, d)[m].value = f[m].value
<1> DEFINE h == [f[m] EXCEPT !.on_drop = d]
<1>1. Disposes(f, m, d) = [f EXCEPT ![m] = h]
  BY DEF Disposes
<1>2. f[m] \in Futures /\ Nop \in Wakers
  BY DEF Wakers
<1>3. h \in Futures
  BY <1>2, StatesIn, FutureRec, Zenon
<1>4. h.state = f[m].state /\ h.waker = f[m].waker /\ h.on_drop = d /\ h.value = f[m].value
  BY <1>2, SMT DEF Futures
<1> HIDE DEF h
<1>5. PICK g \in Futures : g = h
  BY <1>3
<1>6. Disposes(f, m, d) = [f EXCEPT ![m] = g]
  BY <1>1, <1>5
<1> QED
  BY <1>4, <1>5, <1>6, OneField

(* Future_complete: a future resolves, and its waker is called.             *)
LEMMA CompleteStep ==
  ASSUME IInv, Future_complete
  PROVE  IInv'
<1> DEFINE n == Head(todo)[2]
           v == Head(todo)[3]
<1>1. Typed /\ Ordered /\ UniqueOK
  BY DEF IInv
<1>2. todo # <<>> /\ Head(todo) \in AllOps /\ n \in Nodes /\ v \in 0 .. 2 /\ Head(todo) = Complete(n, v)
  BY <1>1, RestFacts, Forms DEF Future_complete, Running
<1> SUFFICES ASSUME NEW m \in Nodes, NEW u \in 0 .. 2, m = n, u = v PROVE IInv'
  BY <1>2
<1>3. Head(todo) = Complete(m, u) /\ Up(Head(todo)) /\ Subject(Head(todo)) = m /\ FreesIn(Head(todo)) = {}
  BY <1>2, ClaimsOf, Subjects
<1> HIDE DEF n, v
<1>4. /\ fut' = [fut EXCEPT ![m].value = u, ![m].state = IF @ \in {PENDING, WAITING} THEN READY ELSE @]
      /\ Then(IF State(m) = WAITING THEN <<Op("call", Waker(m))>> ELSE <<>>)
      /\ UNCHANGED <<kind, inputs, cnt, live, reg, mine, held, done, taken>>
  BY <1>2 DEF Future_complete, Arg, State, Waker, n, v
<1>5. Fixed
  BY <1>4 DEF Fixed
<1>6. FutureOK(m) /\ MineOK(m) /\ BlocksOK(m) /\ OwnerOK(m) /\ fut[m] \in Futures /\ fut \in [Nodes -> Futures]
  BY DEF IInv, Typed
<1>7. Resolves(m, u) /\ Completes(m)
  BY <1>1, <1>2, <1>3, RestFacts DEF Resolves, Completes
<1>8. Unresolved(m) /\ Alive(m) /\ ~Claimed(m) /\ (State(m) = PENDING \/ State(m) = WAITING) /\ m \notin taken
  BY <1>6, <1>7 DEF FutureOK, Unresolved, PENDING, WAITING, READY
<1>9. /\ \A x \in Nodes : x # m => fut'[x] = fut[x]
      /\ State(m)' = READY /\ Waker(m)' = Waker(m) /\ fut'[m].on_drop = fut[m].on_drop /\ fut'[m].value = u
      /\ fut' \in [Nodes -> Futures]
  <2>1. fut[m].state \in {PENDING, WAITING}
    BY <1>8 DEF State
  <2>2. /\ fut' \in [Nodes -> Futures] /\ \A x \in Nodes : x # m => fut'[x] = fut[x]
        /\ fut'[m].state = READY /\ fut'[m].waker = fut[m].waker /\ fut'[m].on_drop = fut[m].on_drop /\ fut'[m].value = u
    <3>1. fut' = Completed(fut, m, u)
      BY <1>4 DEF Completed
    <3> QED
      BY <1>6, <2>1, <3>1, ResolvedFut
  <2> QED
    BY <2>2 DEF State, Waker
<1>10. \A x \in Nodes : Alive(x)' <=> Alive(x)
  BY <1>4 DEF Alive
<1>11. \A x : x # m => Quiet(x)
  BY <1>1, <1>3, UpQuiet
<1>12. /\ ~Drops(m) /\ ~Releases(m) /\ ~FreesNode(m) /\ ~Settles(m) /\ ~Arms(m, 0) /\ ~Arms(m, 1) /\ ~Hooks(m) /\ ~Tallies(m)
       /\ \A c : ~Calls(c)
       /\ \A w : Resolves(m, w) <=> w = u
  <2>1. \A o : o[1] # "free" => (Has(o) <=> o = Complete(m, u))
    BY <1>1, <1>2, <1>3, OnlyHead DEF AtHead
  <2>2. \A a, y : a \notin {"free", "complete"} => ~Has(Op(a, y))
    BY <1>3, <2>1, OpFacts
  <2>3. \A y, w : ~Has(Arm(y, w)) /\ (Has(Complete(y, w)) <=> y = m /\ w = u)
    BY <1>3, <2>1, OpFacts
  <2> QED
    BY <2>2, <2>3, SMT DEF Drops, Releases, FreesNode, Settles, Arms, Hooks, Tallies, Calls, Resolves
<1> DEFINE Wakes == State(m) = WAITING
           c == Waker(m)
           S == IF Wakes THEN {Op("call", c)} ELSE {}
           K == {q \in Combs : Wakes /\ \E r \in {0, 1} : In(q, r) = m /\ c = On(q, r)}
           M == {m} \cup K
<1>13. c \in Wakers /\ (Wakes => c \in Resuming \cup Hooked) /\ (~Wakes => c = Nop) /\ (Wakes => c # Nop)
  BY <1>6, <1>8 DEF FutureOK, Futures, Waker, Wakers
<1>14. todo' \in Seq(AllOps) /\ Ordered' /\ Replaced(S) /\ \A b : Frees(b)' <=> Frees(b)
  <2>1. CASE Wakes
    <3>1. todo' = <<Op("call", c)>> \o Rest
      BY <1>2, <1>4, <2>1, ThenRest
    <3>2. Op("call", c) \in AllOps
      BY <1>13, <2>1, SMT DEF AllOps, Op
    <3>3. Fits(Op("call", c))
      BY <1>1, <1>3, FitsFacts, ClaimsOf
    <3>4. todo' \in Seq(AllOps) /\ Ordered' /\ Replaced({Op("call", c)}) /\ FreesAre(FreesIn(Op("call", c)))
      BY <1>1, <3>1, <3>2, <3>3, Push1
    <3>5. FreesIn(Op("call", c)) = {}
      BY ClaimsOf
    <3> QED
      BY <1>3, <2>1, <3>4, <3>5 DEF FreesAre
  <2>2. CASE ~Wakes
    <3>1. todo' \in Seq(AllOps) /\ Ordered' /\ Replaced({}) /\ FreesAre({})
      BY <1>1, <1>2, <1>4, <2>2, Push0
    <3> QED
      BY <1>3, <2>2, <3>1 DEF FreesAre
  <2> QED
    BY <2>1, <2>2
<1>15. (\A x : Bare(x)') /\ \A b : Calls(b)' <=> Wakes /\ b = c
  <2>1. \A o : o \in S <=> Wakes /\ o = Op("call", c)
    OBVIOUS
  <2> HIDE DEF S, Wakes, c
  <2>2. \A a, y : Op(a, y) \in S <=> Wakes /\ a = "call" /\ y = c
    BY <2>1, OpFacts
  <2>3. \A y, w : Complete(y, w) \notin S /\ Arm(y, w) \notin S
    BY <2>1, OpFacts
  <2>4. \A x : Bare(x)'
    BY <1>1, <1>3, <1>14, <2>2, <2>3, BareNext DEF Bare
  <2>5. ASSUME NEW b PROVE Calls(b)' <=> Wakes /\ b = c
    BY <1>1, <1>3, <1>14, <2>2, BareNext
  <2> QED
    BY <2>4, <2>5
<1>16. Typed'
  BY <1>1, <1>4, <1>9, <1>14 DEF Typed
<1> HIDE DEF S, c, Wakes
<1>17. \A b : BlockKept(b)
  BY <1>4, <1>14 DEF BlockKept
<1>18. \A x : NodeBlocksKept(x)
  BY <1>4, <1>17 DEF NodeBlocksKept
<1>19. \A x : ~Claimed(x)' /\ ~Completes(x)' /\ ~Claimed(x) /\ (x # m => ~Completes(x))
  <2>1. ~Claimed(m)
    BY <1>8
  <2> QED
    BY <1>11, <1>15, <2>1, BareFacts
<1>20. c \in {Nop, Resume(m), Reap(m)} \/ \E p \in Combs, r \in {0, 1} : In(p, r) = m /\ c = On(p, r)
  BY <1>6, Zenon DEF FutureOK, c
<1>21. ASSUME NEW x \in Nodes, x \notin M PROVE Same(x)
  <2>1. x # m /\ Quiet(x)
    BY <1>11, <1>21
  <2>2. \A r : ~(Wakes /\ c = On(x, r))
    <3> SUFFICES ASSUME NEW r, Wakes, c = On(x, r) PROVE FALSE
      OBVIOUS
    <3>1. PICK q \in Combs, w \in {0, 1} : In(q, w) = m /\ c = On(q, w)
      BY <1>13, <1>20, Owners
    <3>2. q = x
      BY <3>1, OnOf
    <3> QED
      BY <1>21, <3>1, <3>2
  <2>3. ~(Wakes /\ c \in {Resume(x), Reap(x), Cas(x), Drp(x)})
    <3>1. CASE c \in {Nop, Resume(m), Reap(m)}
      BY <2>1, <3>1, Owners, NotNop
    <3>2. CASE \E p \in Combs, r \in {0, 1} : In(p, r) = m /\ c = On(p, r)
      BY <3>2, Owners
    <3> QED
      BY <1>20, <3>1, <3>2
  <2>4. Quiet(x)'
    BY <1>15, <2>2, <2>3, SMT DEF Quiet, Bare
  <2>5. OpsSame(x)
    BY <2>1, <2>4, QuietFacts
  <2> QED
    BY <1>4, <1>9, <1>10, <2>1, <2>5 DEF Same
<1>22. /\ FutureOK(m)'
       /\ MineOK(m)'
  <2>1. \A p, r : In(p, r)' = In(p, r)
    BY <1>5, InFrame
  <2>2. ~Unresolved(m)' /\ State(m)' # PENDING /\ State(m)' # WAITING /\ State(m)' # CANCELLED
    BY <1>9 DEF Unresolved, READY, PENDING, WAITING, CANCELLED
  <2>3. FutureOK(m)'
    BY <1>4, <1>6, <1>8, <1>9, <1>10, <1>15, <1>19, <2>1, <2>2 DEF FutureOK, Bare
  <2>4. State(m) # READY
    BY <1>8 DEF READY, PENDING, WAITING
  <2>5. m \in mine => c = Nop /\ ~Wakes
    BY <1>6, <1>8 DEF MineOK, Wakes, c, READY, PENDING, WAITING
  <2>6. m \in held => Wakes
    BY <1>6, <2>4 DEF MineOK, Wakes
  <2>7. Wakes /\ c \in {Resume(m), Reap(m)} => m \in held
    BY <1>6, <1>8 DEF MineOK, Wakes, c
  <2>8. MineOK(m)'
    <3>1. m \in mine => m \notin held /\ Alive(m)
      BY <1>6 DEF MineOK
    <3>2. m \in held => Alive(m) /\ c \in {Resume(m), Reap(m)}
      BY <1>6 DEF MineOK, c
    <3>3. /\ Calls(Resume(m))' <=> Wakes /\ c = Resume(m)
          /\ Calls(Reap(m))' <=> Wakes /\ c = Reap(m)
      BY <1>15
    <3>4. ~Claimed(m)' /\ ~Settles(m)' /\ m \notin taken'
      BY <1>4, <1>8, <1>15, <1>19 DEF Bare
    <3>5. Waker(m)' = c
      BY <1>9 DEF c
    <3>6. mine' = mine /\ held' = held /\ (Alive(m)' <=> Alive(m))
      BY <1>4, <1>10
    <3> QED
      BY <1>9, <2>1, <2>2, <2>5, <2>6, <2>7, <3>1, <3>2, <3>3, <3>4, <3>5, <3>6 DEF MineOK
  <2> QED
    BY <2>3, <2>8
<1>23. Lent(m)' <=> Lent(m)
  <2>1. Lent(m) <=> Wakes
    BY <1>8, <1>12 DEF Lent, Wakes, PENDING, WAITING, CANCELLED
  <2>2. Lent(m)' <=> Wakes
    <3>1. Calls(Waker(m))' <=> Wakes
      BY <1>9, <1>15 DEF c
    <3> QED
      BY <1>8, <1>9, <1>10, <3>1 DEF Lent, READY, WAITING, CANCELLED
  <2> QED
    BY <2>1, <2>2
<1>24. ~Open(m) /\ ~Open(m)'
  <2>1. ~Calls(Cas(m)) /\ ~Calls(Cas(m))'
    <3>1. c # Cas(m)
      BY <1>20, Owners, NotNop, SMT
    <3> QED
      BY <1>12, <1>15, <3>1
  <2> QED
    BY <1>7, <1>9, <2>1 DEF Open, Unresolved, READY, PENDING, WAITING
<1>25. BlocksOK(m)'
  <2>1. BlockKept(Resume(m)) /\ BlockKept(Reap(m)) /\ BlockKept(Cb(m)) /\ BlockKept(Cnt(m)) /\ live' = live
    BY <1>4, <1>17
  <2>2. OneOf(Resume(m), Lent(m) /\ Waker(m) = Resume(m))'
    BY <1>6, <1>9, <1>14, <1>23, <2>1 DEF OneOf, BlocksOK
  <2>3. OneOf(Reap(m), Lent(m) /\ Waker(m) = Reap(m))'
    BY <1>6, <1>9, <1>14, <1>23, <2>1 DEF OneOf, BlocksOK
  <2>4. m \in Leaves => OneOf(Cb(m), m \in reg)' /\ (Drp(m) \in live <=> Alive(m) /\ fut[m].on_drop = Drp(m))'
    BY <1>4, <1>6, <1>9, <1>10, <1>14, <2>1 DEF OneOf, BlocksOK
  <2>5. m \in Combs => (Cas(m) \in live <=> Alive(m) /\ fut[m].on_drop = Cas(m))' /\ OneOf(Cnt(m), IsJoin(m) /\ Open(m))'
    BY <1>4, <1>6, <1>9, <1>10, <1>14, <1>24, <2>1 DEF OneOf, BlocksOK
  <2> QED
    BY <2>2, <2>3, <2>4, <2>5 DEF BlocksOK
<1>26. m \in Leaves => LeafOK(m)'
  <2> SUFFICES ASSUME m \in Leaves PROVE LeafOK(m)'
    OBVIOUS
  <2>1. LeafOK(m)
    BY DEF IInv
  <2>2. m \notin reg /\ m \in done
    BY <1>7, <2>1 DEF LeafOK
  <2>3. ~Calls(Drp(m))'
    <3>1. c # Drp(m)
      BY <1>20, Owners, NotNop, SMT
    <3> QED
      BY <1>15, <3>1
  <2> QED
    BY <1>4, <1>9, <1>19, <2>1, <2>2, <2>3 DEF LeafOK, Unresolved, READY, PENDING, WAITING
<1>27. \A y : y \in Combs /\ y = m => \A w : (Yields(y, w)' <=> Yields(y, w)) /\ (Full(y)' <=> Full(y))
  <2> SUFFICES ASSUME m \in Combs, NEW w PROVE (Yields(m, w)' <=> Yields(m, w)) /\ (Full(m)' <=> Full(m))
    OBVIOUS
  <2>1. ~Resolved(m)
    BY <1>8 DEF Resolved, READY, PENDING, WAITING, CANCELLED
  <2>2. ~Resolves(m, w)' /\ m \notin taken'
    BY <1>4, <1>8, <1>15 DEF Bare
  <2> QED
    BY <1>7, <1>9, <1>12, <2>1, <2>2 DEF Yields, Full, Resolved
<1>28. \A p \in Combs : p \in K => p # m /\ Quiet(p) /\ Open(p) /\ ~Virgin(p) /\ Wakes
                                   /\ \E r \in {0, 1} : In(p, r) = m /\ c = On(p, r) /\ Armed(p, r)
  <2> SUFFICES ASSUME NEW p \in Combs, p \in K
               PROVE  p # m /\ Quiet(p) /\ Open(p) /\ ~Virgin(p) /\ Wakes /\ \E r \in {0, 1} : In(p, r) = m /\ c = On(p, r) /\ Armed(p, r)
    OBVIOUS
  <2>1. PICK r \in {0, 1} : In(p, r) = m /\ c = On(p, r) /\ Wakes
    OBVIOUS
  <2>2. p # m
    BY <1>1, <2>1, Acyclic DEF Typed
  <2>3. m \notin mine \cup held
    BY <1>6, <2>1, Owners, NotNop DEF MineOK, c
  <2>4. \A q : ~Arms(q, 0) /\ ~Arms(q, 1)
    BY <1>11, <1>12 DEF Quiet
  <2>5. PICK q \in Combs, w \in {0, 1} : /\ In(q, w) = m /\ Open(q) /\ ~Virgin(q) /\ Waker(m) = On(q, w) /\ Armed(q, w)
    BY <1>8, <2>3, <2>4, WaiterHolds
  <2>6. q = p /\ w = r
    <3>1. c = On(q, w)
      BY <2>5 DEF c
    <3>2. q = p /\ w = r
      <4>1. c = On(p, r)
        BY <2>1
      <4>2. c = On(q, w)
        BY <3>1
      <4>3. On(p, r) = On(q, w)
        BY <4>1, <4>2
      <4>4. q = p
        BY <4>3, OnOf
      <4>5. w = r
        BY <4>3, OnOf
      <4> QED
        BY <4>4, <4>5
    <3> QED
      BY <3>2
  <2> QED
    BY <1>11, <2>1, <2>2, <2>5, <2>6
<1>29. ASSUME m \in Combs PROVE CombOK(m)' /\ NewOK(m)'
  <2>1. ~Virgin(m) /\ ~Virgin(m)' /\ m \in Nodes
    BY <1>8, <1>9 DEF Virgin, READY, PENDING
  <2>2. CallsOK(m) /\ BuiltOK(m)
    BY <1>29, <2>1 DEF IInv, CombOK
  <2>3. CallsOK(m)'
    <3>1. \A r \in {0, 1} : ~Calls(On(m, r))'
      <4> SUFFICES ASSUME NEW r \in {0, 1}, Wakes, c = On(m, r) PROVE FALSE
        BY <1>15
      <4>1. PICK q \in Combs, w \in {0, 1} : In(q, w) = m /\ c = On(q, w)
        BY <1>13, <1>20, Owners, NotNop DEF Wakes
      <4>2. q = m /\ q # m
        BY <1>1, <4>1, OnOf, Above2
      <4> QED
        BY <4>2
    <3>2. ~Calls(Cas(m))'
      <4>1. c # Cas(m)
        BY <1>20, Owners, NotNop, SMT
      <4> QED
        BY <1>15, <4>1
    <3> QED
      BY <1>9, <1>15, <2>2, <3>1, <3>2 DEF CallsOK, Bare, Unresolved, READY, PENDING, WAITING
  <2>4. PICK D \in SUBSET Nodes : m \in D /\ \A q \in D \cap Combs : {In(q, 0), In(q, 1)} \subseteq D /\ D \cap K = {}
    <3>1. CASE K = {}
      <4>1. \A q \in Nodes \cap Combs : {In(q, 0), In(q, 1)} \subseteq Nodes
        BY <1>1, InNodes
      <4> QED
        BY <3>1, <4>1
    <3>2. CASE K # {}
      <4>1. PICK p \in K : TRUE
        BY <3>2
      <4>2. PICK r \in {0, 1} : In(p, r) = m /\ c = On(p, r)
        OBVIOUS
      <4>3. PICK D \in SUBSET Nodes : m \in D /\ p \notin D /\ \A q \in D \cap Combs : {In(q, 0), In(q, 1)} \subseteq D
        BY <1>1, <4>2, Above2
      <4>4. \A q \in K : q = p
        BY <4>2, BlockFacts
      <4> QED
        BY <4>3, <4>4
    <3> QED
      BY <3>1, <3>2
  <2>5. PICK x \in Nodes, y \in Nodes : In(m, 0) = x /\ In(m, 1) = y
    BY <1>1, <1>29, InNodes
  <2>6. x \notin M /\ y \notin M
    <3>1. x # m /\ y # m
      BY <1>1, <1>29, <2>5, Acyclic DEF Typed
    <3>2. x \notin K /\ y \notin K
      BY <1>29, <2>4, <2>5
    <3> QED
      BY <3>1, <3>2
  <2>7. Same(x) /\ Same(y)
    BY <1>21, <2>6
  <2>8. /\ In(m, 0)' = x /\ In(m, 1)' = y /\ (IsJoin(m)' <=> IsJoin(m)) /\ kind' = kind
    BY <1>5, <2>5, InFrame DEF Fixed
  <2>9. \A z \in {x, y} : /\ Kept(z)' <=> Kept(z)
                          /\ Gone(z)' <=> Gone(z)
                          /\ Spared(z)' <=> Spared(z)
                          /\ Untaken(z)' <=> Untaken(z)
                          /\ Virgin(z)' <=> Virgin(z)
    BY <1>5, <2>7, StateFrame
  <2>10. \A w \in {0, 1} : In(m, w) \in {x, y} /\ In(m, w)' = In(m, w)
    BY <2>5, <2>8, SMT
  <2>11. ReasonOK(m, u) /\ FullOK(m, u)
    <3>1. Yields(m, u)
      BY <1>7 DEF Yields, Resolved
    <3> QED
      BY <1>7, <2>2, <3>1 DEF BuiltOK
  <2>12. ReasonOK(m, u)'
    <3>1. CASE IsJoin(m)
      BY <2>5, <2>8, <2>9, <2>11, <3>1 DEF ReasonOK
    <3>2. CASE ~IsJoin(m)
      <4>1. u \in {0, 1} /\ Spared(In(m, u))
        BY <2>11, <3>2 DEF ReasonOK
      <4>2. PICK z \in {x, y} : In(m, u) = z /\ In(m, u)' = z
        BY <2>10, <4>1
      <4>3. Spared(z)'
        BY <2>9, <4>1, <4>2
      <4> QED
        BY <2>8, <3>2, <4>1, <4>2, <4>3 DEF ReasonOK
    <3> QED
      BY <3>1, <3>2
  <2>13. FullOK(m, u)'
    <3>1. CASE IsJoin(m)
      BY <2>5, <2>8, <2>9, <2>11, <3>1 DEF FullOK
    <3>2. CASE ~IsJoin(m)
      <4>1. u \in {0, 1} /\ 1 - u \in {0, 1}
        BY <2>11, <3>2, SMT DEF ReasonOK
      <4>2. PICK z \in {x, y}, t \in {x, y} : In(m, u) = z /\ In(m, u)' = z /\ In(m, 1 - u) = t /\ In(m, 1 - u)' = t
        BY <2>10, <4>1
      <4>3. Gone(t) /\ Untaken(z) /\ IF kind[m] = "select2" THEN Kept(z) ELSE Gone(z)
        BY <2>11, <3>2, <4>2 DEF FullOK
      <4>4. Gone(t)' /\ Untaken(z)' /\ IF kind'[m] = "select2" THEN Kept(z)' ELSE Gone(z)'
        BY <2>8, <2>9, <4>3
      <4> QED
        BY <2>8, <3>2, <4>2, <4>4 DEF FullOK
    <3> QED
      BY <3>1, <3>2
  <2>14. Full(m)' /\ \A w : Yields(m, w)' => w = u
    <3>1. Full(m)
      BY <1>7, <1>29 DEF Full, Resolved
    <3>2. \A w : Yields(m, w) => w = u
      BY <1>8, <1>12 DEF Yields, READY, PENDING, WAITING, CANCELLED, Resolved
    <3> QED
      BY <1>27, <1>29, <3>1, <3>2
  <2>15. BuiltOK(m)'
    <3>1. \A z \in {x, y} : z \notin mine' \cup held' /\ ~Virgin(z)'
      BY <1>4, <2>2, <2>5, <2>9, SMT DEF BuiltOK
    <3>2. \A r \in {0, 1} : In(m, r)' \notin mine' \cup held' /\ ~Virgin(In(m, r))'
      <4> SUFFICES ASSUME NEW r \in {0, 1} PROVE In(m, r)' \notin mine' \cup held' /\ ~Virgin(In(m, r))'
        OBVIOUS
      <4>1. PICK z \in {x, y} : In(m, r)' = z
        BY <2>10
      <4> QED
        BY <3>1, <4>1
    <3>4. \A w \in 0 .. 2 : ~Resolves(m, w)'
      BY <1>15 DEF Bare
    <3> QED
      BY <1>9, <1>24, <2>12, <2>13, <2>14, <3>2, <3>4 DEF BuiltOK, Resolved
  <2> QED
    BY <2>1, <2>3, <2>15 DEF CombOK, NewOK
<1>30. \A x \in Nodes : (Parent(x) => Parent(x)') /\ \A p \in Combs, r \in {0, 1} : Holder(p, r) => Holder(p, r)'
  <2>1. ASSUME NEW p \in Combs, NEW r \in {0, 1}, Holder(p, r) PROVE Holder(p, r)'
    <3>1. CASE p = m
      BY <1>5, <1>24, <1>27, <2>1, <3>1, InFrame DEF Holder
    <3>2. CASE p \in K
      <4>1. Open(p) /\ p # m /\ p \in Nodes
        BY <1>28, <3>2 DEF Nodes
      <4>2. Open(p)'
        <5>1. ~Calls(Cas(p)) /\ ~Completes(p)' /\ fut'[p] = fut[p] /\ (Alive(p)' <=> Alive(p))
          BY <1>9, <1>10, <1>12, <1>19, <4>1
        <5> QED
          BY <4>1, <5>1 DEF Open, Unresolved, State
      <4> QED
        BY <4>2 DEF Holder
    <3>3. CASE p \notin M
      <4>1. Same(p)
        BY <1>21, <3>3 DEF Nodes
      <4> QED
        BY <1>5, <2>1, <4>1, StateFrame
    <3> QED
      BY <3>1, <3>2, <3>3
  <2>2. ASSUME NEW x \in Nodes, Parent(x) PROVE Parent(x)'
    BY <1>5, <2>1, <2>2, InFrame DEF Parent
  <2> QED
    BY <2>1, <2>2
<1>31. OwnerOK(m)'
  BY <1>4, <1>6, <1>8, <1>10, <1>30 DEF OwnerOK
<1>32. ASSUME NEW p \in K PROVE NodeOK(p)'
  <2>1. p \in Combs /\ p \in Nodes /\ p # m /\ Quiet(p) /\ Open(p) /\ ~Virgin(p) /\ Wakes
    BY <1>28 DEF Nodes
  <2>2. PICK r \in {0, 1} : In(p, r) = m /\ c = On(p, r) /\ Armed(p, r)
    BY <1>28
  <2>3. /\ fut'[p] = fut[p] /\ State(p)' = State(p) /\ Waker(p)' = Waker(p) /\ cnt'[p] = cnt[p]
        /\ Alive(p)' <=> Alive(p)
        /\ Unresolved(p)' <=> Unresolved(p)
    BY <1>4, <1>9, <1>10, <2>1 DEF State, Waker, Unresolved
  <2>4. Bare(p) /\ Bare(p)' /\ ~Claimed(p) /\ ~Claimed(p)' /\ ~Completes(p) /\ ~Completes(p)'
        /\ (\A s : ~Unarmed(p, s)) /\ (\A s : ~Unarmed(p, s)')
    BY <1>15, <2>1, BareFacts
  <2>5. ~Calls(Resume(p))' /\ ~Calls(Reap(p))' /\ ~Calls(Cas(p))' /\ ~Calls(Drp(p))'
        /\ \A s : Calls(On(p, s))' <=> s = r
    <3>1. On(p, r) \notin {Resume(p), Reap(p), Cas(p), Drp(p)}
      BY Owners
    <3>2. \A s : On(p, s) = On(p, r) => s = r
      BY OnOf
    <3> QED
      BY <1>15, <2>1, <2>2, <3>1, <3>2
  <2>6. FutureOK(p) /\ MineOK(p) /\ BlocksOK(p) /\ OwnerOK(p) /\ NewOK(p) /\ CombOK(p)
    BY <2>1 DEF IInv
  <2>7. (\A q, s : In(q, s)' = In(q, s)) /\ (IsJoin(p)' <=> IsJoin(p)) /\ kind' = kind
    BY <1>5, InFrame DEF Fixed
  <2>8. FutureOK(p)'
    BY <1>4, <2>3, <2>4, <2>6, <2>7 DEF FutureOK, Bare
  <2>9. MineOK(p)'
    <3>1. ~Calls(Resume(p)) /\ ~Calls(Reap(p))
      BY <1>12
    <3> QED
      BY <1>4, <2>3, <2>4, <2>5, <2>6, <2>7, <3>1 DEF MineOK, Bare
  <2>10. Waker(p) # On(p, r)
    <3>1. Waker(p) \in {Nop, Resume(p), Reap(p)} \/ \E q \in Combs, s \in {0, 1} : In(q, s) = p /\ Waker(p) = On(q, s)
      BY <2>6, Zenon DEF FutureOK
    <3>2. CASE Waker(p) \in {Nop, Resume(p), Reap(p)}
      BY <2>1, <3>2, Owners, NotNop
    <3>3. CASE \E q \in Combs, s \in {0, 1} : In(q, s) = p /\ Waker(p) = On(q, s)
      <4>1. PICK q \in Combs, s \in {0, 1} : In(q, s) = p /\ Waker(p) = On(q, s)
        BY <3>3
      <4>2. q # p
        BY <1>1, <4>1, Above2
      <4>3. ASSUME Waker(p) = On(p, r) PROVE FALSE
        <5>1. On(q, s) = On(p, r)
          BY <4>1, <4>3
        <5>2. q = p
          BY <5>1, OnOf
        <5> QED
          BY <4>2, <5>2
      <4> QED
        BY <4>3
    <3> QED
      BY <3>1, <3>2, <3>3
  <2>11. Lent(p)' <=> Lent(p)
    <3>1. ~Calls(Waker(p)) /\ ~Calls(Waker(p))'
      BY <1>12, <1>15, <2>2, <2>3, <2>10
    <3> QED
      BY <2>3, <3>1 DEF Lent
  <2>12. Open(p)'
    BY <2>1, <2>3, <2>4, <1>12 DEF Open
  <2>13. BlocksOK(p)'
    <3>1. p \notin Leaves
      BY <1>1, <2>1, InNodes
    <3>2. OneOf(Resume(p), Lent(p) /\ Waker(p) = Resume(p))' /\ OneOf(Reap(p), Lent(p) /\ Waker(p) = Reap(p))'
      BY <1>4, <1>14, <2>3, <2>6, <2>11 DEF OneOf, BlocksOK
    <3>3. (Cas(p) \in live <=> Alive(p) /\ fut[p].on_drop = Cas(p))' /\ OneOf(Cnt(p), IsJoin(p) /\ Open(p))'
      BY <1>4, <1>14, <2>1, <2>3, <2>6, <2>7, <2>12 DEF OneOf, BlocksOK
    <3> QED
      BY <3>1, <3>2, <3>3 DEF BlocksOK
  <2>14. ~Virgin(p)'
    BY <2>1, <2>3 DEF Virgin
  <2>15. CallsOK(p)'
    BY <2>1, <2>3, <2>4, <2>5, <2>6, <1>12 DEF CallsOK, CombOK, Bare, Open
  <2>16. PICK y \in Nodes : In(p, 1 - r) = y /\ y # p
    <3>1. 1 - r \in {0, 1}
      BY SMT
    <3> QED
      BY <1>1, <2>1, <3>1, InNodes
  <2>17. y # m
    <3>1. In(p, 0) # In(p, 1)
      BY <1>1, <2>1, TreesAssumption, SMT DEF Typed, In
    <3>2. In(p, r) # In(p, 1 - r)
      BY <3>1, SMT
    <3> QED
      BY <2>2, <2>16, <3>2
  <2>18. y \notin K
    <3> SUFFICES ASSUME y \in K PROVE FALSE
      OBVIOUS
    <3>1. PICK s \in {0, 1} : c = On(y, s)
      OBVIOUS
    <3>2. On(y, s) = On(p, r)
      BY <2>2, <3>1
    <3> QED
      BY <2>16, <3>2, OnOf
  <2>19. Same(y)
    BY <1>21, <2>17, <2>18
  <2>20. BuiltOK(p) /\ OpenOK(p) /\ KidOK(p, 0) /\ KidOK(p, 1)
    BY <2>1, <2>6 DEF CombOK, BuiltOK, OpenOK
  <2>21. KidOK(p, r)' /\ ~Counted(p, r)' /\ ~Counted(p, r)
    <3>1. Kept(m)'
      BY <1>4, <1>8, <1>9, <1>10, <1>15, <1>19 DEF Kept, Untaken, Bare
    <3>2. Waker(m)' = On(p, r) /\ In(p, r)' = m
      BY <1>9, <2>2, <2>7 DEF c
    <3>3. Calls(On(p, r))'
      BY <2>5
    <3>4. State(m) # READY
      BY <1>8 DEF READY, PENDING, WAITING
    <3> QED
      BY <2>2, <2>4, <3>1, <3>2, <3>3, <3>4 DEF KidOK, Called, Counted
  <2>22. KidOK(p, 1 - r)' /\ (Counted(p, 1 - r)' <=> Counted(p, 1 - r))
    <3> SUFFICES ASSUME NEW s \in {0, 1}, s = 1 - r PROVE KidOK(p, s)' /\ (Counted(p, s)' <=> Counted(p, s))
      BY SMT
    <3>1. KidOK(p, s) /\ In(p, s) = y /\ In(p, s)' = y /\ s # r
      BY <2>7, <2>16, <2>20, SMT
    <3>2. ~Calls(On(p, s)) /\ ~Calls(On(p, s))'
      BY <1>12, <2>5, <3>1
    <3>3. State(y)' = State(y) /\ Waker(y)' = Waker(y) /\ (Alive(y)' <=> Alive(y)) /\ (Claimed(y)' <=> Claimed(y)) /\ (Kept(y)' <=> Kept(y))
      BY <1>5, <2>19, StateFrame
    <3>4. KidOK(p, s)'
      <4>1. Armed(p, s)' <=> Armed(p, s)
        BY <3>1, <3>3 DEF Armed
      <4>2. Got(p, s)' <=> Got(p, s)
        BY <3>1, <3>3 DEF Got
      <4> QED
        BY <2>4, <2>7, <3>1, <3>2, <4>1, <4>2 DEF KidOK
    <3>5. Counted(p, s)' <=> Counted(p, s)
      BY <2>4, <3>1, <3>2, <3>3 DEF Counted
    <3> QED
      BY <3>4, <3>5
  <2>23. KidOK(p, 0)' /\ KidOK(p, 1)' /\ (Counted(p, 0)' <=> Counted(p, 0)) /\ (Counted(p, 1)' <=> Counted(p, 1))
    <3>1. CASE r = 0
      <4>1. 1 - r = 1
        BY <3>1, SMT
      <4> QED
        BY <2>21, <2>22, <3>1, <4>1
    <3>2. CASE r = 1
      <4>1. 1 - r = 0
        BY <3>2, SMT
      <4> QED
        BY <2>21, <2>22, <3>2, <4>1
    <3> QED
      BY <3>1, <3>2
  <2>24. OpenOK(p)'
    <3>1. Count(p)' = Count(p)
      BY <2>23 DEF Count
    <3> QED
      BY <2>3, <2>4, <2>7, <2>20, <2>23, <3>1 DEF OpenOK, Bare
  <2>25. BuiltOK(p)'
    <3>1. ~Resolved(p)
      BY <2>1, <1>12 DEF Open, Unresolved, Resolved, READY, PENDING, WAITING, CANCELLED
    <3>2. \A w : ~Resolves(p, w)' /\ ~Yields(p, w)'
      BY <2>3, <2>4, <3>1 DEF Bare, Yields, Resolved
    <3>3. \A s \in {0, 1} : In(p, s)' \notin mine' \cup held' /\ ~Virgin(In(p, s))'
      <4>1. \A z \in {m, y} : z \notin mine \cup held
        BY <2>2, <2>16, <2>20, SMT DEF BuiltOK
      <4>2. ~Virgin(m)' /\ ~Virgin(y)'
        <5>1. ~Virgin(y)
          <6>1. 1 - r \in {0, 1}
            BY SMT
          <6> QED
            BY <2>16, <2>20, <6>1 DEF BuiltOK
        <5>2. ~Virgin(y)'
          BY <1>5, <2>19, <5>1, StateFrame
        <5> QED
          BY <1>9, <5>2 DEF Virgin, READY, PENDING
      <4>3. ASSUME NEW s \in {0, 1} PROVE In(p, s)' \in {m, y}
        <5>1. s = r \/ s = 1 - r
          BY SMT
        <5> QED
          BY <2>2, <2>7, <2>16, <5>1
      <4>4. ASSUME NEW s \in {0, 1} PROVE In(p, s)' \notin mine' \cup held' /\ ~Virgin(In(p, s))'
        <5>1. PICK z \in {m, y} : In(p, s)' = z
          BY <4>3
        <5> QED
          BY <1>4, <4>1, <4>2, <5>1
      <4> QED
        BY <4>4
    <3> QED
      BY <2>3, <2>7, <2>12, <2>20, <2>24, <3>1, <3>2, <3>3 DEF BuiltOK, Resolved
  <2>26. OwnerOK(p)'
    BY <1>4, <1>12, <1>30, <2>1, <2>3, <2>4, <2>6, <2>7 DEF OwnerOK, Bare
  <2>27. p \notin Leaves
    BY <1>1, <2>1, InNodes
  <2> QED
    BY <2>1, <2>8, <2>9, <2>13, <2>14, <2>15, <2>25, <2>26, <2>27 DEF NodeOK, CombOK, NewOK
<1>33. NodeOK(m)'
  BY <1>22, <1>25, <1>26, <1>29, <1>31 DEF NodeOK
<1>34. \A p \in Combs \ M, r \in {0, 1}, x \in M : In(p, r) = x => Virgin(p) \/ KidSame(x) \/ Faint(x)
  <2> SUFFICES ASSUME NEW p \in Combs \ M, NEW r \in {0, 1}, NEW x \in M, In(p, r) = x, ~Virgin(p) PROVE KidSame(x)
    OBVIOUS
  <2>1. x \notin mine \cup held /\ BuiltOK(p)
    BY DEF IInv, CombOK, BuiltOK
  <2>2. CASE x = m
    <3>1. \A q : ~Arms(q, 0) /\ ~Arms(q, 1)
      BY <1>11, <1>12 DEF Quiet
    <3>2. PICK q \in Combs, w \in {0, 1} : /\ In(q, w) = m /\ Open(q) /\ ~Virgin(q) /\ State(m) = WAITING /\ Waker(m) = On(q, w)
      BY <1>8, <2>1, <2>2, <3>1, WaiterHolds
    <3>3. q = p
      BY <1>1, <2>2, <3>2 DEF UniqueOK
    <3> QED
      BY <3>2, <3>3 DEF Wakes, c
  <2>3. CASE x \in K
    <3>1. x # m /\ Quiet(x) /\ x \in Nodes /\ ~Claimed(x)
      BY <1>19, <1>28, <2>3 DEF Nodes
    <3> QED
      BY <1>4, <1>9, <1>10, <1>15, <1>19, <3>1 DEF KidSame, Quiet, Bare
  <2> QED
    BY <2>2, <2>3
<1>35. ASSUME NEW p \in Combs, NEW r \in {0, 1}
       PROVE  BlockKept(On(p, r)) /\ (HookNeed(p, r)' <=> HookNeed(p, r))
  <2>1. PICK x \in Nodes : In(p, r) = x /\ In(p, r)' = x
    BY <1>1, <1>5, InNodes, InFrame
  <2>2. ~Unarmed(p, r) /\ ~Unarmed(p, r)'
    <3>1. ~Unarmed(p, r)
      BY <1>11, <1>12 DEF Unarmed, Quiet
    <3>2. ~Unarmed(p, r)'
      BY <1>15 DEF Bare, Unarmed
    <3> QED
      BY <3>1, <3>2
  <2>3. Waker(x)' = Waker(x) /\ (x # m => State(x)' = State(x)) /\ (Alive(x)' <=> Alive(x))
    BY <1>9, <1>10 DEF State, Waker
  <2>4. Lent(x) /\ Waker(x) = On(p, r) <=> Lent(x)' /\ Waker(x)' = On(p, r)
    <3>1. CASE x = m
      BY <1>23, <2>3, <3>1
    <3>2. CASE x # m
      <4>1. ~Calls(On(p, r))'
        <5> SUFFICES ASSUME Wakes, c = On(p, r) PROVE FALSE
          BY <1>15
        <5>1. PICK q \in Combs, w \in {0, 1} : In(q, w) = m /\ c = On(q, w)
          BY <1>13, <1>20, Owners
        <5>2. On(q, w) = On(p, r)
          BY <5>1
        <5>3. q = p /\ w = r
          BY <5>2, OnOf
        <5> QED
          BY <2>1, <3>2, <5>1, <5>3
      <4> QED
        BY <1>12, <2>3, <3>2, <4>1 DEF Lent
    <3> QED
      BY <3>1, <3>2
  <2> QED
    BY <1>17, <2>1, <2>2, <2>4 DEF HookNeed
<1>36. UniqueOK'
  <2>1. ASSUME NEW x \in Combs PROVE Virgin(x)' <=> Virgin(x)
    <3>1. CASE x = m
      BY <1>8, <1>9, <3>1 DEF Virgin, READY, PENDING
    <3>2. CASE x # m
      BY <1>9, <1>10, <3>2 DEF Virgin, State, Nodes
    <3> QED
      BY <3>1, <3>2
  <2> QED
    BY <1>1, <1>5, <2>1, UniqueFrame
<1>37. (\E D \in SUBSET Nodes : Doomed(D))'
  <2>1. \A x \in Nodes : ~Drops(x)' /\ ~Calls(Cas(x))'
    <3>1. ASSUME NEW x \in Nodes PROVE c # Cas(x)
      <4>1. CASE c \in {Nop, Resume(m), Reap(m)}
        BY <4>1, Owners, NotNop
      <4>2. CASE \E p \in Combs, r \in {0, 1} : In(p, r) = m /\ c = On(p, r)
        BY <4>2, Owners
      <4> QED
        BY <1>20, <4>1, <4>2
    <3> QED
      BY <1>15, <3>1 DEF Bare
  <2>2. {} \in SUBSET Nodes /\ Doomed({})'
    BY <2>1 DEF Doomed
  <2> QED
    BY <2>2
<1> QED
  <2>1. M \in SUBSET Nodes /\ (\A x \in Nodes \ M : Same(x) /\ NodeBlocksKept(x)) /\ \A x \in M : NodeOK(x)'
    BY <1>18, <1>21, <1>32, <1>33 DEF Nodes
  <2>2. \A x \in Nodes \ M : OwnerOK(x)' \/ \A p \in M \cap Combs, r \in {0, 1} : In(p, r) = x /\ Holder(p, r) => Holder(p, r)'
    BY <1>30
  <2> HIDE DEF M
  <2> QED
    BY <1>5, <1>14, <1>16, <1>34, <1>35, <1>36, <1>37, <2>1, <2>2, StepFrame

-----------------------------------------------------------------------------
(* What the invariant says of a future at such a moment.                    *)

(* Between callbacks nothing is left to run.                                *)
LEMMA IdleFacts ==
  ASSUME Typed, Ordered, todo = <<>>
  PROVE  /\ \A x : Quiet(x)
         /\ \A b : ~Frees(b)
         /\ \A c : ~Calls(c)
<1>1. \A i \in 1 .. Len(todo) : FALSE
  BY SMT
<1>2. \A x : Quiet(x)
  BY UpQuiet
<1> QED
  BY <1>1, <1>2 DEF Frees, Calls, Has

(* A combinator that still waits for its inputs. *)
LEMMA OpenFacts ==
  ASSUME IInv, NEW p \in Combs, Open(p)
  PROVE  /\ ~Virgin(p) /\ BuiltOK(p) /\ CallsOK(p) /\ OpenOK(p) /\ State(p) # READY
         /\ \A r \in {0, 1} : KidOK(p, r)
<1>1. Alive(p) /\ CombOK(p)
  BY DEF Open, IInv
<1>2. ~Virgin(p)
  BY <1>1 DEF Virgin
<1>3. State(p) # READY
  BY <1>1 DEF Open, CombOK, CallsOK, Unresolved, PENDING, WAITING, READY, CANCELLED
<1>4. OpenOK(p) /\ BuiltOK(p) /\ CallsOK(p)
  BY <1>1, <1>2 DEF CombOK, BuiltOK
<1> QED
  BY <1>2, <1>3, <1>4 DEF OpenOK

(* An input its constructor has still to look at.                           *)
LEMMA UnarmedFacts ==
  ASSUME IInv, NEW p \in Combs, NEW r \in {0, 1}, NEW x, In(p, r) = x, Unarmed(p, r)
  PROVE  /\ p \in mine /\ p \in Nodes /\ Alive(p) /\ State(p) = PENDING /\ Waker(p) = Nop /\ Open(p) /\ ~Virgin(p)
         /\ KidOK(p, r) /\ Loose(x) /\ ~Completes(p)
<1>1. p \in mine /\ State(p) = PENDING
  BY DEF IInv, CombOK, CallsOK, Unarmed
<1>2. Alive(p) /\ Waker(p) = Nop /\ p \in Nodes
  BY <1>1 DEF IInv, MineOK, Nodes
<1>3. ~Completes(p)
  <2>1. ASSUME NEW v, Resolves(p, v) PROVE FALSE
    <3>1. PICK w \in {0, 1} : Has(Arm(p, w))
      BY DEF Unarmed, Arms
    <3>2. Up(Complete(p, v)) /\ Up(Arm(p, w)) /\ Complete(p, v)[1] = "complete" /\ Arm(p, w)[1] = "arm"
      BY ClaimsOf, OpFacts
    <3>3. Complete(p, v) = Arm(p, w)
      BY <2>1, <3>1, <3>2, UpOnce DEF IInv, Resolves
    <3> QED
      BY <3>2, <3>3
  <2> QED
    BY <2>1 DEF Completes
<1>4. Open(p)
  BY <1>1, <1>2, <1>3 DEF Open, Unresolved
<1>5. KidOK(p, r)
  BY <1>4, OpenFacts
<1> QED
  BY <1>1, <1>2, <1>3, <1>4, <1>5, OpenFacts DEF KidOK

(* What the program holds is an input of nothing. *)
LEMMA MineView ==
  ASSUME IInv, NEW x \in mine \cup held, NEW p \in Combs, NEW r \in {0, 1}, In(p, r) = x
  PROVE  Virgin(p)
BY DEF IInv, CombOK, BuiltOK

(* Whose waker a waker is.                                                  *)
LEMMA WakerOn ==
  ASSUME IInv, NEW x \in Nodes
  PROVE  /\ \A p \in Combs, r \in {0, 1} : Waker(x) = On(p, r) => In(p, r) = x /\ p # x
         /\ \A y \in Nodes : Waker(x) # Cas(y) /\ Waker(x) # Drp(y)
         /\ \A y \in Nodes : Waker(x) = Resume(y) \/ Waker(x) = Reap(y) => y = x
<1>1. Waker(x) \in {Nop, Resume(x), Reap(x)} \/ \E p \in Combs, r \in {0, 1} : In(p, r) = x /\ Waker(x) = On(p, r)
  BY Zenon DEF IInv, FutureOK
<1>2. CASE Waker(x) \in {Nop, Resume(x), Reap(x)}
  <2>1. ASSUME NEW p \in Combs, NEW r \in {0, 1}, Waker(x) = On(p, r) PROVE In(p, r) = x /\ p # x
    BY <1>2, <2>1, Owners, NotNop
  <2>2. \A y \in Nodes : Waker(x) # Cas(y) /\ Waker(x) # Drp(y) /\ (Waker(x) = Resume(y) \/ Waker(x) = Reap(y) => y = x)
    BY <1>2, Owners, NotNop
  <2> QED
    BY <2>1, <2>2
<1>3. CASE \E p \in Combs, r \in {0, 1} : In(p, r) = x /\ Waker(x) = On(p, r)
  <2>1. PICK q \in Combs, w \in {0, 1} : In(q, w) = x /\ Waker(x) = On(q, w)
    BY <1>3
  <2>2. q # x
    BY <2>1, Above2 DEF IInv
  <2>3. ASSUME NEW p \in Combs, NEW r \in {0, 1}, Waker(x) = On(p, r) PROVE In(p, r) = x /\ p # x
    <3>1. On(q, w) = On(p, r)
      BY <2>1, <2>3
    <3>2. q = p
      BY <3>1, OnOf
    <3>3. w = r
      BY <3>1, OnOf
    <3> QED
      BY <2>1, <2>2, <3>2, <3>3
  <2>4. \A y \in Nodes : Waker(x) # Cas(y) /\ Waker(x) # Drp(y) /\ (Waker(x) = Resume(y) \/ Waker(x) = Reap(y) => y = x)
    BY <2>1, Owners
  <2> QED
    BY <2>3, <2>4
<1> QED
  BY <1>1, <1>2, <1>3

(* The blocks of a node whose waker, on_drop and needs stay. *)
LEMMA BlocksSame ==
  ASSUME Fixed, NEW x \in Nodes, NodeBlocksKept(x), BlocksOK(x),
         Lent(x)' <=> Lent(x), Waker(x)' = Waker(x), fut'[x].on_drop = fut[x].on_drop,
         Alive(x)' <=> Alive(x), x \in reg' <=> x \in reg, x \in Combs => (Open(x)' <=> Open(x))
  PROVE  BlocksOK(x)'
<1>1. OneOf(Resume(x), Lent(x) /\ Waker(x) = Resume(x))' /\ OneOf(Reap(x), Lent(x) /\ Waker(x) = Reap(x))'
  BY OneOfFrame DEF OneOf, BlocksOK, NodeBlocksKept
<1>2. x \in Leaves => OneOf(Cb(x), x \in reg)' /\ (Drp(x) \in live <=> Alive(x) /\ fut[x].on_drop = Drp(x))'
  BY OneOfFrame DEF OneOf, BlocksOK, NodeBlocksKept
<1>3. ASSUME x \in Combs
      PROVE  (Cas(x) \in live <=> Alive(x) /\ fut[x].on_drop = Cas(x))' /\ OneOf(Cnt(x), IsJoin(x) /\ Open(x))'
  <2>1. (IsJoin(x) /\ Open(x))' <=> IsJoin(x) /\ Open(x)
    BY <1>3, InFrame
  <2>2. OneOf(Cnt(x), IsJoin(x) /\ Open(x))'
    BY <1>3, <2>1, OneOfFrame DEF OneOf, BlocksOK, NodeBlocksKept
  <2> QED
    BY <1>3, <2>2 DEF BlocksOK, NodeBlocksKept
<1> QED
  BY <1>1, <1>2, <1>3 DEF BlocksOK

-----------------------------------------------------------------------------
(* Steps of one future alone.                                               *)

(* A node that stays as it is but for what is left to free, drop or settle  *)
(* of it.                                                                   *)
Claiming(z) ==
  /\ NodeBlocksKept(z) /\ fut'[z] = fut[z]
  /\ Alive(z)' <=> Alive(z)
  /\ z \in taken' <=> z \in taken
  /\ z \in reg' <=> z \in reg
  /\ z \in done' <=> z \in done
  /\ z \in Combs => cnt'[z] = cnt[z]
  /\ z \notin mine' \cup held' /\ (z \in held => Claimed(z)')
  /\ ~Virgin(z) /\ ~Runs(z) /\ ~Runs(z)'
  /\ Releases(z)' <=> Releases(z)
  /\ Calls(Cas(z))' <=> Calls(Cas(z))
  /\ Calls(Drp(z))' <=> Calls(Drp(z))
  /\ ~Calls(Resume(z)) /\ ~Calls(Reap(z)) /\ ~Calls(Resume(z))' /\ ~Calls(Reap(z))'
  /\ Drops(z) => Drops(z)'
  /\ FreesNode(z) => FreesNode(z)'
  /\ Settles(z) => Settles(z)'
  /\ Drops(z)' => \/ Drops(z)
                  \/ /\ Alive(z) /\ State(z) # CANCELLED /\ z \notin taken /\ ~Settles(z)'
                     /\ State(z) = READY => Waker(z) = Nop
  /\ FreesNode(z)' => FreesNode(z) \/ (Alive(z) /\ State(z) = READY)
  /\ Settles(z)' => Settles(z) \/ (State(z) = READY /\ z \notin taken /\ ~Drops(z)' /\ Gone(z)')

(* Such a future keeps its part of the invariant.                           *)
LEMMA ClaimFrame ==
  ASSUME IInv, Fixed, NEW z \in Nodes, Claiming(z), OwnerOK(z)',
         z \in Combs => \A r \in {0, 1} : \A a \in Nodes : In(z, r) = a => KidSame(a) \/ Faint(a)
  PROVE  NodeOK(z)'
<1>1. /\ State(z)' = State(z) /\ Waker(z)' = Waker(z) /\ fut'[z] = fut[z] /\ (Alive(z)' <=> Alive(z))
      /\ Unresolved(z)' <=> Unresolved(z)
      /\ Virgin(z)' <=> Virgin(z)
  BY DEF Claiming, State, Waker, Unresolved, Virgin
<1>2. FutureOK(z) /\ MineOK(z) /\ BlocksOK(z) /\ (z \in Leaves => LeafOK(z)) /\ (z \in Combs => CombOK(z)) /\ Typed
  BY DEF IInv
<1>3. ~Calls(Resume(z)) /\ ~Calls(Reap(z))
  BY DEF Claiming
<1>4. (\A v \in 0 .. 2 : ~Resolves(z, v) /\ ~Resolves(z, v)') /\ ~Completes(z) /\ ~Completes(z)'
  BY DEF Claiming, Runs, Completes
<1>5. /\ ~Arms(z, 0) /\ ~Arms(z, 1) /\ ~Hooks(z) /\ ~Tallies(z) /\ ~Arms(z, 0)' /\ ~Arms(z, 1)' /\ ~Hooks(z)' /\ ~Tallies(z)'
      /\ \A s \in {0, 1} : ~Calls(On(z, s)) /\ ~Calls(On(z, s))'
  BY SMT DEF Claiming, Runs
<1>6. Claimed(z) => Claimed(z)'
  BY DEF Claiming, Claimed
<1>7. Gone(z) => Gone(z)'
  BY <1>1, <1>6 DEF Gone
<1>8. \A p, r : In(p, r)' = In(p, r)
  BY InFrame
<1>9. FutureOK(z)'
  <2>1. Drops(z)' => Alive(z)' /\ State(z)' # CANCELLED /\ (State(z)' = READY => Waker(z)' = Nop) /\ z \notin taken'
    BY <1>1, <1>2, <1>8 DEF FutureOK, Claiming
  <2>2. Releases(z)' => Alive(z)' /\ State(z)' = CANCELLED
    BY <1>1, <1>2 DEF FutureOK, Claiming
  <2>3. FreesNode(z)' => Alive(z)' /\ State(z)' = READY
    BY <1>1, <1>2 DEF FutureOK, Claiming
  <2>4. Settles(z)' => State(z)' = READY /\ z \notin taken' /\ ~Drops(z)' /\ Gone(z)'
    BY <1>1, <1>2, <1>7 DEF FutureOK, Claiming
  <2>5. Alive(z)' /\ State(z)' = CANCELLED => Releases(z)'
    BY <1>1, <1>2 DEF FutureOK, Claiming
  <2>6. z \in taken' => State(z)' = READY
    BY <1>1, <1>2 DEF FutureOK, Claiming
  <2> QED
    BY <1>1, <1>2, <1>4, <1>8, <2>1, <2>2, <2>3, <2>4, <2>5, <2>6 DEF FutureOK
<1>10. MineOK(z)'
  BY <1>1, <1>2, <1>6, <1>8 DEF MineOK, Claiming
<1>11. z \in Leaves => LeafOK(z)'
  BY <1>1, <1>2, <1>4 DEF LeafOK, Claiming
<1>12. ASSUME z \in Combs PROVE Open(z)' <=> Open(z)
  BY <1>1, <1>4 DEF Open, Claiming
<1>13. BlocksOK(z)'
  <2>1. OneOf(Resume(z), Lent(z) /\ Waker(z) = Resume(z))'
    <3>1. (Lent(z) /\ Waker(z) = Resume(z))' <=> (Lent(z) /\ Waker(z) = Resume(z))
      BY <1>1, <1>3 DEF Lent, Claiming
    <3> QED
      BY <1>2, <3>1, OneOfFrame DEF OneOf, BlocksOK, NodeBlocksKept, Claiming
  <2>2. OneOf(Reap(z), Lent(z) /\ Waker(z) = Reap(z))'
    <3>1. (Lent(z) /\ Waker(z) = Reap(z))' <=> (Lent(z) /\ Waker(z) = Reap(z))
      BY <1>1, <1>3 DEF Lent, Claiming
    <3> QED
      BY <1>2, <3>1, OneOfFrame DEF OneOf, BlocksOK, NodeBlocksKept, Claiming
  <2>3. z \in Leaves => OneOf(Cb(z), z \in reg)' /\ (Drp(z) \in live <=> Alive(z) /\ fut[z].on_drop = Drp(z))'
    <3>1. z \in reg' <=> z \in reg
      BY DEF Claiming
    <3>2. z \in Leaves => OneOf(Cb(z), z \in reg)'
      BY <1>2, <3>1, OneOfFrame DEF OneOf, BlocksOK, NodeBlocksKept, Claiming
    <3> QED
      BY <1>1, <1>2, <3>2 DEF BlocksOK, NodeBlocksKept, Claiming
  <2>4. ASSUME z \in Combs
        PROVE  (Cas(z) \in live <=> Alive(z) /\ fut[z].on_drop = Cas(z))' /\ OneOf(Cnt(z), IsJoin(z) /\ Open(z))'
    <3>1. (IsJoin(z) /\ Open(z))' <=> IsJoin(z) /\ Open(z)
      BY <1>12, <2>4, InFrame
    <3>2. OneOf(Cnt(z), IsJoin(z) /\ Open(z))'
      BY <1>2, <2>4, <3>1, OneOfFrame DEF OneOf, BlocksOK, NodeBlocksKept, Claiming
    <3> QED
      BY <1>1, <1>2, <2>4, <3>2 DEF BlocksOK, NodeBlocksKept, Claiming
  <2> QED
    BY <2>1, <2>2, <2>3, <2>4 DEF BlocksOK
<1>14. ASSUME z \in Combs PROVE CombOK(z)' /\ NewOK(z)'
  <2>1. PICK a \in Nodes, b \in Nodes : In(z, 0) = a /\ In(z, 1) = b
    BY <1>2, <1>14, InNodes
  <2>2. (KidSame(a) \/ Faint(a)) /\ (KidSame(b) \/ Faint(b))
    BY <1>14, <2>1
  <2>3. Virgin(z)' <=> Virgin(z)
    BY <1>1
  <2>4. ~Virgin(z)' => BuiltOK(z)'
    <3>1. \A v \in 0 .. 2 : (Yields(z, v)' <=> Yields(z, v)) /\ (Resolves(z, v)' <=> Resolves(z, v))
      BY <1>1, <1>4 DEF Yields, Claiming, Resolved
    <3>2. Full(z)' <=> Full(z)
      BY <1>1, <1>4 DEF Full, Claiming, Resolved
    <3>3. \A s \in {0, 1} : Calls(On(z, s))' <=> Calls(On(z, s))
      BY <1>5
    <3>4. Like(z)
      BY <1>1, <1>5, <1>12, <1>14, <3>1, <3>2, <3>3 DEF Like, Claiming, Resolved
    <3> QED
      BY <1>2, <1>14, <2>1, <2>2, <3>4, BuiltFrame DEF CombOK
  <2>5. CallsOK(z)'
    BY <1>1, <1>2, <1>4, <1>5, <1>14 DEF CallsOK, CombOK, Claiming
  <2> QED
    BY <1>1, <2>4, <2>5 DEF CombOK, NewOK, Claiming
<1> QED
  BY <1>9, <1>10, <1>11, <1>13, <1>14 DEF NodeOK

(* No drop runs.                                                            *)
LEMMA NoDoom ==
  ASSUME \A x \in Nodes : ~Drops(x)' /\ ~Calls(Cas(x))'
  PROVE  (\E D \in SUBSET Nodes : Doomed(D))'
<1>1. {} \in SUBSET Nodes /\ Doomed({})'
  BY DEF Doomed
<1> QED
  BY <1>1

(* All but n stays as it was. *)
Alone(n) == \A x \in Nodes : x # n => Same(x) /\ NodeBlocksKept(x)

(* What holds n, and what n holds, when only n changes.                     *)
LEMMA AloneFacts ==
  ASSUME IInv, Fixed, NEW n \in Nodes, Alone(n)
  PROVE  /\ Parent(n) => Parent(n)'
         /\ n \in Combs => \A r \in {0, 1} : \A a \in Nodes : In(n, r) = a => Same(a) /\ KidSame(a)
<1>1. Typed
  BY DEF IInv
<1>2. ASSUME NEW p \in Combs, NEW r \in {0, 1}, In(p, r) = n, Holder(p, r) PROVE In(p, r)' = n /\ Holder(p, r)'
  <2>1. p # n
    BY <1>1, <1>2, Above2
  <2>2. Same(p)
    BY <2>1 DEF Nodes, Alone
  <2> QED
    BY <1>2, <2>2, InFrame, StateFrame
<1>3. ASSUME n \in Combs, NEW r \in {0, 1}, NEW a \in Nodes, In(n, r) = a PROVE Same(a) /\ KidSame(a)
  <2>1. a # n
    BY <1>1, <1>3, Above2
  <2> QED
    BY <2>1, KidStates DEF Alone
<1> QED
  BY <1>2, <1>3 DEF Parent

(* A step that changes one future.                                          *)
LEMMA SoleStep ==
  ASSUME IInv, Fixed, Typed', Ordered', NEW n \in Nodes, Alone(n), NodeOK(n)', (\E D \in SUBSET Nodes : Doomed(D))',
         n \in Combs => (Virgin(n)' <=> Virgin(n)),
         n \in mine \cup held \/ KidSame(n) \/ Faint(n),
         n \in Combs => \A r \in {0, 1} : \A x \in Nodes : In(n, r) = x => OwnerOK(x)' \/ (Holder(n, r) => Holder(n, r)'),
         \A p \in Combs, r \in {0, 1} : BlockKept(On(p, r)),
         \A r \in {0, 1} : Unarmed(n, r)' <=> Unarmed(n, r),
         \A r \in {0, 1} : Calls(On(n, r))' <=> Calls(On(n, r)),
         \A p \in Combs, r \in {0, 1} : In(p, r) = n =>
            ((Lent(n) /\ Waker(n) = On(p, r))' <=> (Lent(n) /\ Waker(n) = On(p, r)))
  PROVE  IInv'
<1> DEFINE M == {n}
<1>1. Typed /\ UniqueOK
  BY DEF IInv
<1>2. UniqueOK'
  <2>1. ASSUME NEW x \in Combs PROVE Virgin(x)' <=> Virgin(x)
    <3>1. CASE x = n
      BY <3>1
    <3>2. CASE x # n
      <4>1. Same(x)
        BY <3>2 DEF Alone, Nodes
      <4> QED
        BY <4>1, StateFrame
    <3> QED
      BY <3>1, <3>2
  <2> QED
    BY <1>1, <2>1, UniqueFrame
<1>3. ASSUME NEW p \in Combs, NEW r \in {0, 1} PROVE HookNeed(p, r)' <=> HookNeed(p, r)
  <2>1. PICK x \in Nodes : In(p, r) = x /\ In(p, r)' = x
    BY <1>1, InNodes, InFrame
  <2>2. (Unarmed(p, r)' <=> Unarmed(p, r)) /\ (Calls(On(p, r))' <=> Calls(On(p, r)))
    <3>1. CASE p = n
      BY <3>1
    <3>2. CASE p # n
      <4>1. Same(p)
        BY <3>2 DEF Alone, Nodes
      <4> QED
        BY <4>1, StateFrame DEF Same, OpsSame
    <3> QED
      BY <3>1, <3>2
  <2>3. (Lent(x) /\ Waker(x) = On(p, r))' <=> (Lent(x) /\ Waker(x) = On(p, r))
    <3>1. CASE x = n
      BY <2>1, <3>1
    <3>2. CASE x # n
      <4>1. Same(x)
        BY <3>2 DEF Alone
      <4>2. State(x)' = State(x) /\ Waker(x)' = Waker(x) /\ (Alive(x)' <=> Alive(x))
        BY <4>1, StateFrame
      <4> QED
        BY <2>2, <4>2 DEF Lent
    <3> QED
      BY <3>1, <3>2
  <2> QED
    BY <2>1, <2>2, <2>3 DEF HookNeed
<1>4. \A p \in Combs \ M, r \in {0, 1}, x \in M : In(p, r) = x => Virgin(p) \/ KidSame(x) \/ Faint(x)
  BY MineView
<1>5. ASSUME NEW x \in Nodes \ M
      PROVE  OwnerOK(x)' \/ \A p \in M \cap Combs, r \in {0, 1} : In(p, r) = x /\ Holder(p, r) => Holder(p, r)'
  <2>1. CASE n \in Combs
    <3>1. CASE OwnerOK(x)'
      BY <3>1
    <3>2. CASE ~OwnerOK(x)'
      BY <2>1, <3>2
    <3> QED
      BY <3>1, <3>2
  <2>2. CASE n \notin Combs
    BY <2>2
  <2> QED
    BY <2>1, <2>2
<1>6. M \in SUBSET Nodes /\ (\A x \in Nodes \ M : Same(x) /\ NodeBlocksKept(x)) /\ \A x \in M : NodeOK(x)'
  BY DEF Alone
<1> HIDE DEF M
<1> QED
  BY <1>2, <1>3, <1>4, <1>5, <1>6, StepFrame

-----------------------------------------------------------------------------
(* The program and the loop.                                                *)

(* Fire: the loop completes a leaf.                                         *)
LEMMA FireStep ==
  ASSUME IInv, NEW l \in Leaves, Fire(l)
  PROVE  IInv'
<1> DEFINE a == Complete(l, 0)
           b == FreeAll({Cb(l)})
<1>1. Typed /\ Ordered /\ UniqueOK /\ l \in Nodes /\ l \notin Combs
  BY InNodes DEF IInv
<1>2. /\ todo = <<>> /\ l \in reg /\ Start(<<a, b>>)
      /\ reg' = reg \ {l} /\ done' = done \cup {l}
      /\ UNCHANGED <<kind, inputs, fut, cnt, live, mine, held, taken>>
  BY DEF Fire, Idle
<1>3. /\ FutureOK(l) /\ MineOK(l) /\ BlocksOK(l) /\ OwnerOK(l) /\ LeafOK(l)
  BY <1>1 DEF IInv
<1>4. (\A x : Quiet(x)) /\ (\A c : ~Frees(c)) /\ (\A c : ~Calls(c))
  BY <1>1, <1>2, IdleFacts
<1>5. Alive(l) /\ l \notin done /\ Unresolved(l) /\ ~Claimed(l) /\ ~Completes(l)
  BY <1>2, <1>3, <1>4, QuietFacts DEF LeafOK
<1>6. todo' \in Seq(AllOps) /\ Ordered' /\ Replaced({a, b}) /\ \A c : Frees(c)' <=> c = Cb(l)
  <2>1. Cb(l) \in Envs
    BY EnvKinds
  <2>2. a \in AllOps /\ b \in AllOps
    <3>1. a \in AllOps
      BY <1>1, SMT DEF AllOps, Complete
    <3>2. {Cb(l)} \in SUBSET Envs
      BY <2>1
    <3>3. FreeAll({Cb(l)}) \in AllOps
      BY <3>2, SMT DEF AllOps, FreeAll, Op
    <3> QED
      BY <3>1, <3>3
  <2>3. Above(a, b) /\ Fits(a) /\ Fits(b)
    <3>1. a[1] = "complete" /\ b[1] = "free" /\ Claims(a) = {}
      BY OpFacts, ClaimsOf
    <3>2. Fits(a)
      BY <1>1, <1>2, <3>1, FitsFacts
    <3>3. Fits(b)
      BY <1>1, <1>4, <2>1, FitsFacts
    <3> QED
      BY <3>1, <3>2, <3>3, SMT DEF Above
  <2>4. todo' = <<a, b>> \o Rest
    <3>1. <<a, b>> \in Seq(AllOps)
      BY <2>2
    <3> QED
      BY <1>2, <3>1, ThenRest
  <2> HIDE DEF a, b
  <2>5. todo' \in Seq(AllOps) /\ Ordered' /\ Replaced({a, b}) /\ FreesAre(FreesIn(a) \cup FreesIn(b))
    BY <1>1, <2>2, <2>3, <2>4, Push2
  <2>6. FreesIn(a) = {} /\ FreesIn(b) = {Cb(l)}
    BY ClaimsOf DEF a, b
  <2> QED
    BY <1>4, <2>5, <2>6 DEF FreesAre
<1>7. Typed'
  BY <1>1, <1>2, <1>6 DEF Typed
<1>8. Fixed
  BY <1>2 DEF Fixed
<1>9. Alone(l)
  <2> SUFFICES ASSUME NEW x \in Nodes, x # l PROVE Same(x) /\ NodeBlocksKept(x)
    BY DEF Alone
  <2>1. OpsSame(x)
    <3>1. \A o \in {a, b} : o[1] # "free" => Subject(o) # x
      BY Subjects, OpFacts
    <3> HIDE DEF a, b
    <3> QED
      BY <1>2, <1>6, <3>1, SameOps
  <2>2. Same(x)
    BY <1>2, <2>1 DEF Same, Alive
  <2>3. {Resume(x), Reap(x), Cb(x), Cnt(x)} \cap {Cb(l)} = {}
    BY Owners
  <2> QED
    BY <1>2, <1>4, <1>6, <2>2, <2>3 DEF NodeBlocksKept, BlockKept
<1>10. /\ ~Drops(l)' /\ ~Releases(l)' /\ ~FreesNode(l)' /\ ~Settles(l)' /\ ~Arms(l, 0)' /\ ~Arms(l, 1)' /\ ~Hooks(l)' /\ ~Tallies(l)'
       /\ \A c : ~Calls(c)'
       /\ \A w : Resolves(l, w)' <=> w = 0
       /\ \A x : ~Drops(x)'
  <2>1. \A o : o \in {a, b} <=> o = a \/ o = b
    OBVIOUS
  <2>2. \A c, x : Op(c, x) \in {a, b} => c \in {"complete", "free"}
    BY <2>1, OpFacts
  <2>3. \A x, w : Arm(x, w) \notin {a, b} /\ (Complete(x, w) \in {a, b} <=> x = l /\ w = 0)
    BY <2>1, OpFacts
  <2> HIDE DEF a, b
  <2>4. \A x : /\ ~Drops(x)' /\ ~Releases(x)' /\ ~FreesNode(x)' /\ ~Settles(x)' /\ ~Hooks(x)' /\ ~Tallies(x)' /\ ~Calls(x)'
               /\ \A w : ~Arms(x, w)' /\ (Resolves(x, w)' <=> x = l /\ w = 0)
    BY <1>1, <1>2, <1>6, <2>2, <2>3, BareNext
  <2> QED
    BY <2>4
<1>11. Completes(l)' /\ ~Claimed(l)'
  BY <1>10 DEF Completes, Claimed
<1>12. State(l)' = State(l) /\ Waker(l)' = Waker(l) /\ fut'[l] = fut[l] /\ (Alive(l)' <=> Alive(l)) /\ (Unresolved(l)' <=> Unresolved(l))
  BY <1>2 DEF State, Waker, Alive, Unresolved
<1>13. FutureOK(l)' /\ MineOK(l)'
  <2>1. \A p, r : In(p, r)' = In(p, r)
    BY <1>8, InFrame
  <2>2. State(l) # READY /\ State(l) # CANCELLED
    BY <1>5 DEF Unresolved, PENDING, WAITING, READY, CANCELLED
  <2>3. FutureOK(l)'
    BY <1>2, <1>3, <1>5, <1>10, <1>11, <1>12, <2>1, <2>2 DEF FutureOK
  <2>4. MineOK(l)'
    BY <1>2, <1>3, <1>4, <1>5, <1>10, <1>11, <1>12, <2>1, <2>2 DEF MineOK
  <2> QED
    BY <2>3, <2>4
<1>14. Lent(l)' <=> Lent(l)
  BY <1>4, <1>10, <1>12 DEF Lent
<1>15. BlocksOK(l)'
  <2>1. OneOf(Resume(l), Lent(l) /\ Waker(l) = Resume(l))' /\ OneOf(Reap(l), Lent(l) /\ Waker(l) = Reap(l))'
    <3>1. Resume(l) # Cb(l) /\ Reap(l) # Cb(l)
      BY Owners
    <3> QED
      BY <1>2, <1>3, <1>4, <1>6, <1>12, <1>14, <3>1 DEF BlocksOK, OneOf
  <2>2. OneOf(Cb(l), l \in reg)'
    BY <1>1, <1>2, <1>3, <1>6 DEF BlocksOK, OneOf
  <2> QED
    BY <1>1, <1>2, <1>3, <1>12, <2>1, <2>2 DEF BlocksOK
<1>16. LeafOK(l)'
  <2>1. State(l) # READY
    BY <1>5 DEF Unresolved, PENDING, WAITING, READY
  <2> QED
    BY <1>2, <1>3, <1>5, <1>10, <1>11, <1>12, <2>1 DEF LeafOK
<1>17. OwnerOK(l)'
  BY <1>1, <1>2, <1>3, <1>5, <1>8, <1>9, <1>10, <1>12, AloneFacts, InFrame DEF OwnerOK, Unresolved, PENDING,
     WAITING, READY
<1>18. KidSame(l)
  BY <1>2, <1>4, <1>5, <1>10, <1>11, <1>12 DEF KidSame, Quiet
<1>19. (\E D \in SUBSET Nodes : Doomed(D))'
  BY <1>10, NoDoom
<1>20. \A p \in Combs, r \in {0, 1} : BlockKept(On(p, r))
  BY <1>2, <1>4, <1>6, Owners DEF BlockKept
<1>21. (\A r \in {0, 1} : (Unarmed(l, r)' <=> Unarmed(l, r)) /\ (Calls(On(l, r))' <=> Calls(On(l, r))))
       /\ \A p \in Combs, r \in {0, 1} : In(p, r) = l => ((Lent(l) /\ Waker(l) = On(p, r))' <=> (Lent(l) /\ Waker(l) = On(p, r)))
  BY <1>4, <1>10, <1>12, <1>14 DEF Unarmed, Quiet
<1> HIDE DEF a, b
<1> QED
  BY <1>1, <1>6, <1>7, <1>8, <1>9, <1>13, <1>15, <1>16, <1>17, <1>18, <1>19, <1>20, <1>21, SoleStep DEF NodeOK

(* Drop: the program drops what it holds.                                   *)
LEMMA DropStep ==
  ASSUME IInv, NEW n \in Nodes, Drop(n)
  PROVE  IInv'
<1> DEFINE a == Op("drop", n)
<1>1. Typed /\ Ordered /\ UniqueOK
  BY DEF IInv
<1>2. /\ todo = <<>> /\ Start(<<a>>)
      /\ n \in mine \/ (n \in held /\ Waker(n) = Resume(n))
      /\ mine' = mine \ {n} /\ held' = held \ {n}
      /\ UNCHANGED <<kind, inputs, fut, cnt, live, reg, done, taken>>
  BY DEF Drop, Idle, Waker, State
<1>3. FutureOK(n) /\ MineOK(n) /\ OwnerOK(n) /\ (n \in Combs => CombOK(n) /\ NewOK(n))
  BY DEF IInv
<1>4. (\A x : Quiet(x)) /\ (\A c : ~Frees(c)) /\ (\A c : ~Calls(c))
  BY <1>1, <1>2, IdleFacts
<1>5. Alive(n) /\ State(n) # CANCELLED /\ n \notin taken /\ (State(n) = READY => Waker(n) = Nop) /\ ~Virgin(n)
  <2>1. Alive(n) /\ n \notin taken /\ ~Virgin(n)
    BY <1>2, <1>3 DEF MineOK, Virgin
  <2>2. CASE n \in mine
    BY <1>1, <1>2, <1>3, <2>1, <2>2 DEF MineOK, PENDING, READY, CANCELLED
  <2>3. CASE n \in held
    BY <1>3, <1>4, <2>1, <2>3 DEF MineOK, WAITING, READY, CANCELLED
  <2> QED
    BY <1>2, <2>2, <2>3
<1>6. todo' \in Seq(AllOps) /\ Ordered' /\ Replaced({a}) /\ \A c : ~Frees(c)'
  <2>1. a \in AllOps
    BY SMT DEF AllOps, Op
  <2>2. Fits(a)
    BY <1>1, <1>4, FitsFacts, QuietFacts
  <2>3. todo' = <<a>> \o Rest
    <3>1. <<a>> \in Seq(AllOps)
      BY <2>1
    <3> QED
      BY <1>2, <3>1, ThenRest
  <2>4. todo' \in Seq(AllOps) /\ Ordered' /\ Replaced({a}) /\ FreesAre(FreesIn(a))
    <3> HIDE DEF a
    <3> QED
      BY <1>1, <2>1, <2>2, <2>3, Push1
  <2>5. FreesIn(a) = {}
    BY ClaimsOf
  <2> QED
    BY <1>4, <2>4, <2>5 DEF FreesAre
<1>7. Typed' /\ Fixed
  BY <1>1, <1>2, <1>6 DEF Typed, Fixed
<1>8. Alone(n)
  <2> SUFFICES ASSUME NEW x \in Nodes, x # n PROVE Same(x) /\ NodeBlocksKept(x)
    BY DEF Alone
  <2>1. OpsSame(x)
    <3>1. \A o \in {a} : o[1] # "free" => Subject(o) # x
      BY Subjects, OpFacts
    <3> HIDE DEF a
    <3> QED
      BY <1>2, <1>6, <3>1, SameOps
  <2> QED
    BY <1>2, <1>4, <1>6, <2>1 DEF Same, Alive, NodeBlocksKept, BlockKept
<1>9. \A x : /\ ~Releases(x)' /\ ~FreesNode(x)' /\ ~Settles(x)' /\ ~Hooks(x)' /\ ~Tallies(x)' /\ ~Calls(x)'
             /\ \A w : ~Arms(x, w)' /\ ~Resolves(x, w)'
             /\ Drops(x)' <=> x = n
  <2>1. \A c, x : Op(c, x) \in {a} <=> c = "drop" /\ x = n
    BY OpFacts
  <2>2. \A x, w : Arm(x, w) \notin {a} /\ Complete(x, w) \notin {a}
    BY OpFacts
  <2> HIDE DEF a
  <2> QED
    BY <1>1, <1>2, <1>6, <2>1, <2>2, BareNext
<1>10. \A x : ~Runs(x)'
  BY <1>9 DEF Runs, Completes
<1>11. State(n)' = State(n) /\ Waker(n)' = Waker(n) /\ fut'[n] = fut[n] /\ (Alive(n)' <=> Alive(n)) /\ (Unresolved(n)' <=> Unresolved(n)) /\ (Virgin(n)' <=> Virgin(n))
  BY <1>2 DEF State, Waker, Alive, Unresolved, Virgin
<1>12. OwnerOK(n)'
  BY <1>2, <1>5, <1>7, <1>9, <1>11, InFrame DEF OwnerOK, Claimed
<1>13. Claiming(n)
  BY <1>2, <1>4, <1>5, <1>6, <1>9, <1>10, <1>11, QuietFacts DEF Claiming, Quiet, Claimed, NodeBlocksKept, BlockKept
<1>14. NodeOK(n)'
  BY <1>7, <1>8, <1>12, <1>13, AloneFacts, ClaimFrame
<1>15. (\E D \in SUBSET Nodes : Doomed(D))'
  <2>1. \A p \in Nodes \cap Combs : {In(p, 0)', In(p, 1)'} \subseteq Nodes
    BY <1>1, <1>7, InNodes, InFrame
  <2>2. Nodes \in SUBSET Nodes /\ Doomed(Nodes)'
    BY <1>10, <2>1 DEF Doomed
  <2> QED
    BY <2>2
<1>16. ASSUME n \in Combs, NEW r \in {0, 1} PROVE Holder(n, r) => Holder(n, r)'
  <2>1. Open(n)' <=> Open(n)
    BY <1>4, <1>9, <1>11, QuietFacts DEF Open, Completes
  <2>2. \A v : Yields(n, v)' <=> Yields(n, v)
    BY <1>2, <1>4, <1>9, <1>11 DEF Yields, Quiet, Resolved
  <2> QED
    BY <1>7, <2>1, <2>2, InFrame DEF Holder
<1>17. /\ \A p \in Combs, r \in {0, 1} : BlockKept(On(p, r))
       /\ \A r \in {0, 1} : (Unarmed(n, r)' <=> Unarmed(n, r)) /\ (Calls(On(n, r))' <=> Calls(On(n, r)))
       /\ Lent(n)' <=> Lent(n)
  BY <1>2, <1>4, <1>6, <1>9, <1>11, QuietFacts DEF BlockKept, Unarmed, Lent
<1> HIDE DEF a
<1> QED
  BY <1>1, <1>2, <1>6, <1>7, <1>8, <1>11, <1>14, <1>15, <1>16, <1>17, SoleStep

(* Parking c on a future the program holds. *)
LEMMA ParkStep ==
  ASSUME IInv, NEW n \in Nodes, n \in mine, NEW c \in {Resume(n), Reap(n)},
         todo = <<>>, mine' = mine \ {n}, held' = held \cup {n}, live' = live \cup {c},
         fut' = Parked(fut, n, c),
         Start(IF State(n) = PENDING THEN <<>> ELSE <<Op("call", c)>>),
         UNCHANGED <<kind, inputs, cnt, reg, done, taken>>
  PROVE  IInv'
<1> DEFINE a == Op("call", c)
           Calling1 == State(n) # PENDING
           S == IF Calling1 THEN {a} ELSE {}
<1>1. Typed /\ Ordered /\ UniqueOK
  BY DEF IInv
<1>3. FutureOK(n) /\ MineOK(n) /\ BlocksOK(n) /\ OwnerOK(n) /\ (n \in Combs => CombOK(n) /\ NewOK(n)) /\ (n \in Leaves => LeafOK(n))
  BY DEF IInv
<1>4. (\A x : Quiet(x)) /\ (\A b : ~Frees(b)) /\ (\A b : ~Calls(b))
  BY <1>1, IdleFacts
<1>5. Alive(n) /\ State(n) \in {PENDING, READY} /\ n \notin taken /\ Waker(n) = Nop /\ n \notin held /\ ~Virgin(n) /\ ~Lent(n)
  BY <1>3, <1>4 DEF MineOK, Virgin, Lent, PENDING, READY, WAITING, CANCELLED
<1>6. todo' \in Seq(AllOps) /\ Ordered' /\ Replaced(S) /\ \A b : ~Frees(b)'
  <2>1. c \in Resuming
    BY EnvKinds
  <2>2. CASE Calling1
    <3>1. a \in AllOps
      BY <2>1, SMT DEF AllOps, Op
    <3>2. Fits(a)
      BY <1>1, FitsFacts, ClaimsOf
    <3>3. todo' = <<a>> \o Rest
      <4>1. <<a>> \in Seq(AllOps)
        BY <3>1
      <4> QED
        BY <2>2, <4>1, ThenRest
    <3>4. todo' \in Seq(AllOps) /\ Ordered' /\ Replaced({a}) /\ FreesAre(FreesIn(a))
      <4> HIDE DEF a
      <4> QED
        BY <1>1, <3>1, <3>2, <3>3, Push1
    <3>5. FreesIn(a) = {}
      BY ClaimsOf
    <3> QED
      BY <1>4, <2>2, <3>4, <3>5 DEF FreesAre
  <2>3. CASE ~Calling1
    <3>1. todo' = todo
      BY <2>3 DEF Start
    <3>2. todo' \in Seq(AllOps) /\ Ordered'
      BY <1>1, <3>1 DEF Typed, Ordered
    <3>3. (\A o : Has(o)' <=> Has(o)) /\ \A b : Frees(b)' <=> Frees(b)
      BY <3>1 DEF Has, Frees
    <3>4. Replaced({})
      BY <3>3 DEF Replaced, AtHead
    <3> QED
      BY <1>4, <2>3, <3>2, <3>3, <3>4
  <2> QED
    BY <2>2, <2>3
<1>7. /\ fut' \in [Nodes -> Futures] /\ \A x \in Nodes : x # n => fut'[x] = fut[x]
      /\ State(n)' = (IF State(n) = PENDING THEN WAITING ELSE State(n)) /\ Waker(n)' = c
      /\ fut'[n].on_drop = fut[n].on_drop /\ fut'[n].value = fut[n].value
  <2>1. c \in Wakers
    BY EnvKinds DEF Wakers
  <2>2. fut \in [Nodes -> Futures]
    BY <1>1 DEF Typed
  <2> QED
    BY <2>1, <2>2, ParkedFut DEF State, Waker
<1>8. Typed' /\ Fixed
  <2>1. c \in LiveBlocks
    BY EnvKinds DEF LiveBlocks
  <2> QED
    BY <1>1, <1>6, <1>7, <2>1 DEF Typed, Fixed
<1>9. \A x : Bare(x)' /\ (Calls(x)' <=> Calling1 /\ x = c)
  <2>1. \A x, y : Op(x, y) \in S <=> Calling1 /\ x = "call" /\ y = c
    BY OpFacts
  <2>2. \A x, w : Arm(x, w) \notin S /\ Complete(x, w) \notin S
    BY OpFacts
  <2> HIDE DEF S, Calling1
  <2> QED
    BY <1>1, <1>6, <2>1, <2>2, BareNext DEF Bare
<1>10. /\ \A x : ~Claimed(x)' /\ ~Completes(x)' /\ ~Claimed(x) /\ ~Completes(x)
       /\ \A x, r : ~Unarmed(x, r) /\ ~Unarmed(x, r)'
  BY <1>4, <1>9, BareFacts
<1>11. \A x : x # n => c # Resume(x) /\ c # Reap(x)
  BY Owners
<1>12. \A x, r : c # On(x, r) /\ c # Cas(x) /\ c # Drp(x) /\ c # Fut(x) /\ c # Cb(x) /\ c # Cnt(x)
  BY Owners
<1>13. Alone(n)
  <2> SUFFICES ASSUME NEW x \in Nodes, x # n PROVE Same(x) /\ NodeBlocksKept(x)
    BY DEF Alone
  <2>1. OpsSame(x)
    <3>1. \A o \in S : o[1] # "free" => Subject(o) # x
      BY Subjects, Tags
    <3> HIDE DEF S
    <3> QED
      BY <1>6, <3>1, SameOps
  <2>2. Alive(x)' <=> Alive(x)
    BY <1>12 DEF Alive
  <2>3. Same(x)
    BY <1>7, <2>1, <2>2 DEF Same
  <2>4. NodeBlocksKept(x)
    BY <1>4, <1>6, <1>11, <1>12 DEF NodeBlocksKept, BlockKept
  <2> QED
    BY <2>3, <2>4
<1>14. (Alive(n)' <=> Alive(n)) /\ (Unresolved(n)' <=> Unresolved(n)) /\ (Virgin(n)' <=> Virgin(n))
       /\ State(n)' \in {WAITING, READY} /\ (State(n)' = READY <=> State(n) = READY) /\ (State(n)' = READY <=> Calling1) /\ (Resolved(n)' <=> Resolved(n))
  BY <1>5, <1>7, <1>12 DEF Alive, Unresolved, Resolved, Virgin, PENDING, WAITING, READY, CANCELLED
<1>15. Lent(n)'
  BY <1>5, <1>7, <1>9, <1>14 DEF Lent, WAITING, CANCELLED
<1>16. FutureOK(n)' /\ MineOK(n)'
  <2>1. \A p, r : In(p, r)' = In(p, r)
    BY <1>8, InFrame
  <2>2. c # Nop /\ (c = Resume(n) => c # Reap(n)) /\ State(n)' # PENDING /\ State(n)' # CANCELLED
    BY <1>14, Owners, NotNop DEF READY, PENDING, WAITING, CANCELLED
  <2>3. FutureOK(n)'
    BY <1>5, <1>7, <1>9, <1>10, <1>14, <2>1, <2>2 DEF FutureOK, Bare
  <2>4. MineOK(n)'
    BY <1>5, <1>7, <1>9, <1>10, <1>14, <2>1, <2>2 DEF MineOK, Bare
  <2> QED
    BY <2>3, <2>4
<1>17. n \in Leaves => LeafOK(n)'
  BY <1>3, <1>4, <1>7, <1>9, <1>10, <1>12, <1>14 DEF LeafOK
<1>18. n \in Combs => (Open(n)' <=> Open(n)) /\ (Full(n)' <=> Full(n)) /\ \A v : Yields(n, v)' <=> Yields(n, v)
  BY <1>4, <1>7, <1>9, <1>10, <1>12, <1>14 DEF Open, Full, Yields, Quiet, Bare
<1>19. BlocksOK(n)'
  <2>1. /\ Resume(n) \in live' <=> c = Resume(n)
        /\ Reap(n) \in live' <=> c = Reap(n)
    <3>1. Resume(n) \notin live /\ Reap(n) \notin live
      BY <1>3, <1>4, <1>5 DEF BlocksOK, OneOf
    <3> QED
      BY <3>1
  <2>2. n \in Leaves => OneOf(Cb(n), n \in reg)' /\ (Drp(n) \in live <=> Alive(n) /\ fut[n].on_drop = Drp(n))'
    BY <1>3, <1>4, <1>6, <1>7, <1>12, <1>14 DEF BlocksOK, OneOf
  <2>3. n \in Combs => (Cas(n) \in live <=> Alive(n) /\ fut[n].on_drop = Cas(n))' /\ OneOf(Cnt(n), IsJoin(n) /\ Open(n))'
    BY <1>3, <1>4, <1>6, <1>7, <1>8, <1>12, <1>14, <1>18, InFrame DEF BlocksOK, OneOf
  <2> QED
    BY <1>6, <1>7, <1>15, <2>1, <2>2, <2>3 DEF BlocksOK, OneOf
<1>20. n \in Combs => CombOK(n)' /\ NewOK(n)'
  <2> SUFFICES ASSUME n \in Combs PROVE CombOK(n)' /\ NewOK(n)'
    OBVIOUS
  <2>1. PICK x \in Nodes, y \in Nodes : In(n, 0) = x /\ In(n, 1) = y
    BY <1>1, InNodes
  <2>2. Like(n)
    BY <1>4, <1>7, <1>9, <1>12, <1>14, <1>18 DEF Like, Quiet, Bare
  <2>3. ~Virgin(n)' => BuiltOK(n)'
    <3>1. KidSame(x) /\ KidSame(y)
      BY <1>8, <1>13, <2>1, AloneFacts
    <3> QED
      BY <1>3, <1>8, <2>1, <2>2, <3>1, BuiltFrame DEF CombOK
  <2>4. CallsOK(n)'
    BY <1>3, <1>7, <1>9, <1>12, <1>14 DEF CallsOK, CombOK, Bare
  <2> QED
    BY <1>5, <1>14, <2>3, <2>4 DEF CombOK, NewOK
<1>21. OwnerOK(n)'
  BY DEF OwnerOK
<1>22. (\E D \in SUBSET Nodes : Doomed(D))'
  BY <1>9, <1>12, NoDoom DEF Bare
<1>23. n \in Combs => \A r \in {0, 1} : Holder(n, r) => Holder(n, r)'
  BY <1>8, <1>18, InFrame DEF Holder
<1>24. \A p \in Combs, r \in {0, 1} : BlockKept(On(p, r)) /\ Waker(n) # On(p, r) /\ Waker(n)' # On(p, r)
  BY <1>4, <1>5, <1>6, <1>7, <1>12, NotNop DEF BlockKept
<1>25. \A r \in {0, 1} : (Unarmed(n, r)' <=> Unarmed(n, r)) /\ (Calls(On(n, r))' <=> Calls(On(n, r)))
  BY <1>4, <1>9, <1>10, <1>12
<1> HIDE DEF a, S, Calling1
<1> QED
  <2>1. NodeOK(n)'
    BY <1>16, <1>17, <1>19, <1>20, <1>21 DEF NodeOK
  <2> QED
    BY <1>6, <1>8, <1>13, <1>14, <1>22, <1>23, <1>24, <1>25, <2>1, SoleStep

(* A resolved future passes from the program to the awaiter, or to spawn,   *)
(* which frees its waker c and the future, once it settled what it resolved *)
(* to if anybody took that.                                                 *)
LEMMA HandOver ==
  ASSUME IInv, NEW n \in Nodes, n \in mine \cup held, State(n) = READY, NEW c \in {Resume(n), Reap(n)},
         todo = <<>> \/ Head(todo) = Op("call", c), NEW takes \in BOOLEAN, takes \/ c = Reap(n),
         NEW S, S = {Op("Future_free", n)} \cup (IF takes THEN {Op("settle", n)} ELSE {}),
         todo' \in Seq(AllOps), Ordered', Replaced(S), \A b : Frees(b)' <=> Frees(b) \/ b = c,
         \A x \in Nodes : x # n => fut'[x] = fut[x], fut' \in [Nodes -> Futures],
         State(n)' = READY, Waker(n)' = c, fut'[n].on_drop = fut[n].on_drop, fut'[n].value = fut[n].value,
         live' = live \cup {c}, ~Frees(c), c \in live \/ ~Lent(n), Waker(n) \in {c, Nop},
         mine' = mine \ {n}, held' = held \ {n},
         UNCHANGED <<kind, inputs, cnt, reg, done, taken>>
  PROVE  IInv'
<1>1. Typed /\ Ordered /\ UniqueOK
  BY DEF IInv
<1>2. todo = <<>> \/ (todo # <<>> /\ Up(Head(todo)) /\ Subject(Head(todo)) = n /\ Head(todo)[1] = "call")
  BY ClaimsOf, EnvKinds, Subjects
<1>3. FutureOK(n) /\ MineOK(n) /\ BlocksOK(n) /\ OwnerOK(n) /\ (n \in Combs => CombOK(n) /\ NewOK(n)) /\ (n \in Leaves => LeafOK(n))
  BY DEF IInv
<1>4. (\A x : Bare(x)) /\ (\A x : x # n => Quiet(x)) /\ \A b : Calls(b) => b = c
  <2>1. CASE todo = <<>>
    BY <1>1, <2>1, IdleFacts, BareFacts
  <2>2. CASE todo # <<>>
    <3>1. \A b : Calls(b) => Op("call", b) = Op("call", c)
      BY <1>1, <2>2, AtOnce DEF AtHead
    <3>2. \A b : Calls(b) => b = c
      BY <3>1, OpFacts
    <3> QED
      BY <1>1, <1>2, <2>2, <3>2, UpBare, UpQuiet
  <2> QED
    BY <2>1, <2>2
<1>5. Alive(n) /\ n \notin taken /\ ~Virgin(n) /\ ~Unresolved(n)
  BY <1>3 DEF MineOK, Virgin, Unresolved, PENDING, READY, WAITING
<1>6. /\ \A x : ~Drops(x)' /\ ~Releases(x)' /\ ~Hooks(x)' /\ ~Tallies(x)' /\ ~Calls(x)' /\ \A w : ~Arms(x, w)' /\ ~Resolves(x, w)'
      /\ \A x : (FreesNode(x)' <=> x = n) /\ (Settles(x)' <=> takes /\ x = n)
  <2>1. \A a, x : Op(a, x) \in S <=> x = n /\ (a = "Future_free" \/ (takes /\ a = "settle"))
    BY OpFacts
  <2>2. \A x, w : Arm(x, w) \notin S /\ Complete(x, w) \notin S
    BY OpFacts
  <2>3. PICK Z : Z = S
    OBVIOUS
  <2>4. /\ Replaced(Z) /\ \A x, w : Arm(x, w) \notin Z /\ Complete(x, w) \notin Z
        /\ \A a, x : Op(a, x) \in Z <=> x = n /\ (a = "Future_free" \/ (takes /\ a = "settle"))
    BY <2>1, <2>2, <2>3
  <2>5. \A x : /\ Drops(x)' <=> FALSE
               /\ Releases(x)' <=> FALSE
               /\ Hooks(x)' <=> FALSE
               /\ Tallies(x)' <=> FALSE
               /\ Calls(x)' <=> FALSE
               /\ FreesNode(x)' <=> x = n
               /\ Settles(x)' <=> takes /\ x = n
               /\ \A w : ~Arms(x, w)' /\ ~Resolves(x, w)'
    BY <1>1, <1>2, <2>4, BareNext
  <2> QED
    BY <2>5
<1>7. /\ \A x : ~Claimed(x) /\ ~Completes(x) /\ ~Completes(x)' /\ ~Runs(x)'
      /\ \A x, r : ~Unarmed(x, r) /\ ~Unarmed(x, r)'
      /\ Claimed(n)'
  BY <1>4, <1>6, BareFacts DEF Completes, Unarmed, Runs, Claimed
<1>8. \A x : x # n => c # Resume(x) /\ c # Reap(x)
  BY Owners
<1>9. \A x, r : c # On(x, r) /\ c # Cas(x) /\ c # Drp(x) /\ c # Fut(x) /\ c # Cb(x) /\ c # Cnt(x)
  BY Owners
<1>10. Typed' /\ Fixed
  <2>1. c \in LiveBlocks
    BY EnvKinds DEF LiveBlocks
  <2> QED
    BY <1>1, <2>1 DEF Typed, Fixed
<1>11. Alone(n)
  <2> SUFFICES ASSUME NEW x \in Nodes, x # n PROVE Same(x) /\ NodeBlocksKept(x)
    BY DEF Alone
  <2>1. OpsSame(x)
    <3>1. \A o \in S : o[1] # "free" => Subject(o) # x
      BY Subjects
    <3> QED
      BY <1>2, <3>1, SameOps
  <2>2. Alive(x)' <=> Alive(x)
    BY <1>9 DEF Alive
  <2>3. Same(x)
    BY <2>1, <2>2 DEF Same
  <2>4. NodeBlocksKept(x)
    BY <1>8, <1>9 DEF NodeBlocksKept, BlockKept
  <2> QED
    BY <2>3, <2>4
<1>12. (Alive(n)' <=> Alive(n)) /\ ~Unresolved(n)' /\ ~Virgin(n)' /\ ~Lent(n)'
       /\ State(n)' # PENDING /\ State(n)' # WAITING /\ State(n)' # CANCELLED
  BY <1>5, <1>6, <1>9 DEF Alive, Unresolved, Virgin, Lent, PENDING, WAITING, READY, CANCELLED
<1>13. FutureOK(n)' /\ MineOK(n)'
  <2>1. \A p, r : In(p, r)' = In(p, r)
    BY <1>10, InFrame
  <2>2. Gone(n)'
    BY <1>7 DEF Gone
  <2>3. FutureOK(n)'
    BY <1>5, <1>6, <1>7, <1>12, <2>1, <2>2 DEF FutureOK
  <2>4. MineOK(n)'
    BY <1>6, <1>7, <1>12 DEF MineOK
  <2> QED
    BY <2>3, <2>4
<1>14. n \in Leaves => LeafOK(n)'
  <2>1. n \in Leaves => ~Calls(Drp(n))
    BY <1>4, <1>9
  <2> QED
    BY <1>3, <1>6, <1>7, <1>12, <2>1 DEF LeafOK
<1>15. n \in Combs => ~Open(n) /\ ~Open(n)' /\ (Resolved(n)' <=> Resolved(n)) /\ (Full(n)' <=> Full(n)) /\ \A v : Yields(n, v)' <=> Yields(n, v)
  <2>1. ~Calls(Cas(n))
    BY <1>4, <1>9
  <2> QED
    BY <1>4, <1>5, <1>6, <1>7, <1>12, <2>1 DEF Open, Full, Yields, Bare, Resolved
<1>16. BlocksOK(n)'
  <2>1. \A b \in {Resume(n), Reap(n)} : (b \in live => Frees(b) \/ b = c) /\ (Frees(b) => b \in live)
    <3>1. \A b \in {Resume(n), Reap(n)} : OneOf(b, Lent(n) /\ Waker(n) = b)
      BY <1>3 DEF BlocksOK
    <3>2. \A b \in {Resume(n), Reap(n)} : b # Nop
      BY NotNop
    <3> QED
      BY <3>1, <3>2 DEF OneOf
  <2>2. n \in Leaves => OneOf(Cb(n), n \in reg)' /\ (Drp(n) \in live <=> Alive(n) /\ fut[n].on_drop = Drp(n))'
    BY <1>3, <1>9, <1>12 DEF BlocksOK, OneOf
  <2>3. n \in Combs => (Cas(n) \in live <=> Alive(n) /\ fut[n].on_drop = Cas(n))' /\ OneOf(Cnt(n), IsJoin(n) /\ Open(n))'
    BY <1>3, <1>9, <1>12, <1>15 DEF BlocksOK, OneOf
  <2> QED
    BY <1>12, <2>1, <2>2, <2>3 DEF BlocksOK, OneOf
<1>17. n \in Combs => CombOK(n)' /\ NewOK(n)'
  <2> SUFFICES ASSUME n \in Combs PROVE CombOK(n)' /\ NewOK(n)'
    OBVIOUS
  <2>1. PICK x \in Nodes, y \in Nodes : In(n, 0) = x /\ In(n, 1) = y
    BY <1>1, InNodes
  <2>2. \A s \in {0, 1} : ~Calls(On(n, s))
    BY <1>4, <1>9
  <2>3. Like(n)
    BY <1>4, <1>5, <1>6, <1>12, <1>15, <2>2 DEF Like, Bare
  <2>4. ~Virgin(n)' => BuiltOK(n)'
    <3>1. KidSame(x) /\ KidSame(y)
      BY <1>10, <1>11, <2>1, AloneFacts
    <3> QED
      BY <1>3, <1>10, <2>1, <2>3, <3>1, BuiltFrame DEF CombOK
  <2>5. CallsOK(n)'
    BY <1>3, <1>6, <1>12 DEF CallsOK, CombOK
  <2> QED
    BY <1>12, <2>4, <2>5 DEF CombOK, NewOK
<1>18. OwnerOK(n)'
  BY <1>6, <1>7, <1>10, InFrame DEF OwnerOK
<1>19. (\E D \in SUBSET Nodes : Doomed(D))'
  BY <1>6, NoDoom
<1>20. n \in Combs => \A r \in {0, 1} : Holder(n, r) => Holder(n, r)'
  BY <1>10, <1>15, InFrame DEF Holder
<1>21. \A p \in Combs, r \in {0, 1} : BlockKept(On(p, r)) /\ Waker(n) # On(p, r) /\ Waker(n)' # On(p, r)
  BY <1>9, NotNop DEF BlockKept
<1>22. \A r \in {0, 1} : (Unarmed(n, r)' <=> Unarmed(n, r)) /\ (Calls(On(n, r))' <=> Calls(On(n, r)))
  BY <1>4, <1>6, <1>7, <1>9
<1> QED
  <2>1. NodeOK(n)'
    BY <1>13, <1>14, <1>16, <1>17, <1>18 DEF NodeOK
  <2> QED
    BY <1>5, <1>10, <1>11, <1>12, <1>19, <1>20, <1>21, <1>22, <2>1, SoleStep

(* Await.                                                                   *)
LEMMA AwaitStep ==
  ASSUME IInv, NEW n \in Nodes, Await(n)
  PROVE  IInv'
<1> DEFINE c == Resume(n)
<1>1. /\ todo = <<>> /\ n \in mine
      /\ mine' = mine \ {n} /\ held' = held \cup {n} /\ live' = live \cup {c}
      /\ Start(IF State(n) = PENDING THEN <<>> ELSE <<Op("call", c)>>)
      /\ UNCHANGED <<kind, inputs, cnt, reg, done, taken>>
  BY DEF Await, Idle, State
<1>2. fut' = Parked(fut, n, c)
  BY DEF Await, Parked
<1>3. c \in {Resume(n), Reap(n)}
  OBVIOUS
<1> HIDE DEF c
<1> QED
  BY <1>1, <1>2, <1>3, ParkStep

(* What spawn's waker, or spawn itself, leaves to free. *)
LEMMA Reaps ==
  ASSUME IInv, NEW n \in Nodes, NEW c \in {Resume(n), Reap(n)}, ~Frees(c), ~Claimed(n), ~Settles(n),
         NEW ops \in {<<Op("Future_free", n), FreeAll({c})>>, <<FreeAll({c}), Op("Future_free", n)>>},
         todo' = ops \o Rest, todo = <<>> \/ FreesIn(Head(todo)) = {}
  PROVE  /\ todo' \in Seq(AllOps) /\ Ordered' /\ \A b : Frees(b)' <=> Frees(b) \/ b = c
         /\ Replaced({Op("Future_free", n), FreeAll({c})})
<1> DEFINE a == Op("Future_free", n)
           b == FreeAll({c})
<1>1. Typed /\ Ordered
  BY DEF IInv
<1>2. a \in AllOps /\ b \in AllOps
  <2>1. {c} \in SUBSET Envs
    BY EnvKinds
  <2>2. FreeAll({c}) \in AllOps
    BY <2>1, SMT DEF AllOps, FreeAll, Op
  <2>3. a \in AllOps
    BY SMT DEF AllOps, Op
  <2> QED
    BY <2>2, <2>3
<1>3. Fits(a) /\ Fits(b)
  <2>1. {c} \in SUBSET Envs
    BY EnvKinds
  <2> QED
    BY <1>1, <2>1, FitsFacts
<1>4. a[1] = "Future_free" /\ b[1] = "free" /\ Claims(a) = {Fut(n)} /\ Claims(b) = {c} /\ ~Up(a) /\ ~Up(b)
      /\ FreesIn(a) = {} /\ FreesIn(b) = {c}
  BY OpFacts, ClaimsOf
<1>5. c # Fut(n)
  BY Owners
<1>6. Above(a, b) /\ Above(b, a)
  BY <1>4, <1>5 DEF Above
<1>7. todo' = <<a, b>> \o Rest \/ todo' = <<b, a>> \o Rest
  OBVIOUS
<1> HIDE DEF a, b
<1>8. todo' \in Seq(AllOps) /\ Ordered' /\ Replaced({a, b}) /\ FreesAre({c})
  <2>1. CASE todo' = <<a, b>> \o Rest
    <3>1. todo' \in Seq(AllOps) /\ Ordered' /\ Replaced({a, b}) /\ FreesAre(FreesIn(a) \cup FreesIn(b))
      BY <1>1, <1>2, <1>3, <1>6, <2>1, Push2
    <3>2. FreesIn(a) \cup FreesIn(b) = {c}
      BY <1>4
    <3> QED
      BY <3>1, <3>2
  <2>2. CASE todo' = <<b, a>> \o Rest
    <3>1. todo' \in Seq(AllOps) /\ Ordered' /\ Replaced({b, a}) /\ FreesAre(FreesIn(b) \cup FreesIn(a))
      BY <1>1, <1>2, <1>3, <1>6, <2>2, Push2
    <3>2. FreesIn(b) \cup FreesIn(a) = {c} /\ {b, a} = {a, b}
      BY <1>4
    <3> QED
      BY <3>1, <3>2
  <2> QED
    BY <1>7, <2>1, <2>2
<1> QED
  BY <1>8 DEF FreesAre, a, b

(* The frees do not matter to Replaced.                                     *)
LEMMA NoFrees2 == ASSUME NEW S, NEW T, Replaced(S), T \subseteq S, \A o \in S \ T : o[1] = "free" PROVE Replaced(T)
BY DEF Replaced

(* Spawn.                                                                   *)
LEMMA SpawnStep ==
  ASSUME IInv, NEW n \in Nodes, Spawn(n)
  PROVE  IInv'
<1> DEFINE c == Reap(n)
<1>1. /\ todo = <<>> /\ n \in mine
      /\ mine' = mine \ {n} /\ live' = live \cup {c}
      /\ UNCHANGED <<kind, inputs, cnt, reg, done, taken>>
  BY DEF Spawn, Idle
<1>2. fut' = Parked(fut, n, c)
  BY DEF Spawn, Parked
<1>3. c \in {Resume(n), Reap(n)} /\ c = Reap(n)
  OBVIOUS
<1>4. CASE State(n) = PENDING
  <2>1. Start(IF State(n) = PENDING THEN <<>> ELSE <<Op("call", c)>>) /\ held' = held \cup {n}
    BY <1>4 DEF Spawn, State
  <2> HIDE DEF c
  <2> QED
    BY <1>1, <1>2, <1>3, <2>1, ParkStep
<1>5. CASE State(n) # PENDING
  <2>1. Start(<<FreeAll({c}), Op("Future_free", n)>>) /\ held' = held
    BY <1>5 DEF Spawn, State
  <2>2. Typed /\ Ordered /\ MineOK(n) /\ BlocksOK(n)
    BY DEF IInv
  <2>3. (\A x : Quiet(x)) /\ (\A b : ~Frees(b)) /\ \A b : ~Calls(b)
    BY <1>1, <2>2, IdleFacts
  <2>4. State(n) = READY /\ n \notin held /\ Waker(n) = Nop /\ ~Claimed(n) /\ ~Settles(n)
    BY <1>1, <1>5, <2>2 DEF MineOK
  <2>5. ~Lent(n)
    BY <2>3, <2>4 DEF Lent, READY, WAITING, CANCELLED
  <2>6. <<FreeAll({c}), Op("Future_free", n)>> \in Seq(AllOps)
    <3>1. {c} \in SUBSET Envs
      BY EnvKinds
    <3>2. FreeAll({c}) \in AllOps
      BY <3>1, SMT DEF AllOps, FreeAll, Op
    <3>3. Op("Future_free", n) \in AllOps
      BY SMT DEF AllOps, Op
    <3> QED
      BY <3>2, <3>3
  <2>7. todo' = <<FreeAll({c}), Op("Future_free", n)>> \o Rest
    BY <1>1, <2>1, <2>6, ThenRest
  <2>8. /\ fut' \in [Nodes -> Futures] /\ \A x \in Nodes : x # n => fut'[x] = fut[x]
        /\ State(n)' = READY /\ Waker(n)' = c
        /\ fut'[n].on_drop = fut[n].on_drop /\ fut'[n].value = fut[n].value
    <3>1. c \in Wakers
      BY EnvKinds DEF Wakers
    <3>2. fut \in [Nodes -> Futures]
      BY <2>2 DEF Typed
    <3> QED
      BY <1>2, <1>5, <2>4, <3>1, <3>2, ParkedFut DEF State, Waker
  <2> HIDE DEF c
  <2>9. todo' \in Seq(AllOps) /\ Ordered' /\ (\A b : Frees(b)' <=> Frees(b) \/ b = c)
        /\ Replaced({Op("Future_free", n), FreeAll({c})})
    BY <1>1, <1>3, <2>3, <2>4, <2>7, Reaps
  <2>10. PICK takes, S : takes \in BOOLEAN /\ ~takes /\ S = {Op("Future_free", n)} \cup (IF takes THEN {Op("settle", n)} ELSE {})
    OBVIOUS
  <2>11. Replaced(S)
    BY <2>9, <2>10, NoFrees2, OpFacts
  <2>12. held' = held \ {n}
    BY <2>1, <2>4
  <2> QED
    BY <1>1, <1>3, <2>3, <2>4, <2>5, <2>8, <2>9, <2>10, <2>11, <2>12, HandOver
<1> QED
  BY <1>4, <1>5

(* CallReap: spawn's waker.                                                 *)
LEMMA ReapStep ==
  ASSUME IInv, CallReap
  PROVE  IInv'
<1>1. Typed /\ Ordered
  BY DEF IInv
<1>2. /\ todo # <<>> /\ Head(todo)[1] = "call" /\ Head(todo)[2][1] = "reap"
      /\ held' = held \ {Head(todo)[2][2]}
      /\ Then(<<Op("Future_free", Head(todo)[2][2]), FreeAll({Waker(Head(todo)[2][2])})>>)
      /\ UNCHANGED <<kind, inputs, fut, cnt, live, reg, mine, done, taken>>
  BY DEF CallReap, Calling, Running, Arg, Waker
<1>3. PICK n \in Nodes : n = Head(todo)[2][2] /\ Head(todo) = Op("call", Reap(n))
  BY <1>1, <1>2, RestFacts, Forms
<1>4. Calls(Reap(n)) /\ MineOK(n) /\ BlocksOK(n)
  BY <1>1, <1>2, <1>3, RestFacts DEF Calls, IInv
<1>5. n \in held /\ State(n) = READY /\ Waker(n) = Reap(n) /\ Alive(n) /\ n \notin mine /\ ~Claimed(n) /\ ~Settles(n)
  BY <1>4, Owners DEF MineOK
<1> DEFINE c == Reap(n)
<1>6. c \in {Resume(n), Reap(n)} /\ ~Frees(c) /\ c \in live
  BY <1>4, <1>5 DEF BlocksOK, OneOf, Lent
<1>7. FreesIn(Head(todo)) = {}
  BY <1>3, ClaimsOf
<1>8. todo' = <<Op("Future_free", n), FreeAll({c})>> \o Rest /\ Head(todo) = Op("call", c)
  BY <1>2, <1>3, <1>5, ThenRest
<1>9. Waker(n) = c
  BY <1>5
<1> HIDE DEF c
<1>10. todo' \in Seq(AllOps) /\ Ordered' /\ (\A b : Frees(b)' <=> Frees(b) \/ b = c)
      /\ Replaced({Op("Future_free", n), FreeAll({c})})
  BY <1>5, <1>6, <1>7, <1>8, Reaps
<1>11. PICK S : S = {Op("Future_free", n)} \cup (IF FALSE THEN {Op("settle", n)} ELSE {})
  OBVIOUS
<1>12. Replaced(S)
  BY <1>10, <1>11, NoFrees2, OpFacts
<1>13. mine' = mine \ {n} /\ live' = live \cup {c} /\ held' = held \ {n}
  BY <1>2, <1>3, <1>5, <1>6
<1>14. fut' \in [Nodes -> Futures] /\ fut' = fut /\ State(n)' = READY /\ Waker(n)' = c
  BY <1>1, <1>2, <1>5, <1>9 DEF Typed, State, Waker
<1> QED
  BY <1>2, <1>5, <1>6, <1>8, <1>9, <1>10, <1>11, <1>12, <1>13, <1>14, HandOver

(* CallResume: the awaiter is resumed.                                      *)
LEMMA ResumeStep ==
  ASSUME IInv, CallResume
  PROVE  IInv'
<1>1. Typed /\ Ordered
  BY DEF IInv
<1>2. /\ todo # <<>> /\ Head(todo)[1] = "call" /\ Head(todo)[2][1] = "resume"
      /\ held' = held \ {Head(todo)[2][2]}
      /\ Then(<<FreeAll({Waker(Head(todo)[2][2])}), Op("settle", Head(todo)[2][2]), Op("Future_free", Head(todo)[2][2])>>)
      /\ UNCHANGED <<kind, inputs, fut, cnt, live, reg, mine, done, taken>>
  BY DEF CallResume, Calling, Running, Arg, Waker
<1>3. PICK n \in Nodes : n = Head(todo)[2][2] /\ Head(todo) = Op("call", Resume(n))
  BY <1>1, <1>2, RestFacts, Forms
<1>4. Calls(Resume(n)) /\ MineOK(n) /\ BlocksOK(n)
  BY <1>1, <1>2, <1>3, RestFacts DEF Calls, IInv
<1>5. n \in held /\ State(n) = READY /\ Waker(n) = Resume(n) /\ Alive(n) /\ n \notin mine /\ ~Claimed(n) /\ ~Settles(n)
  BY <1>4 DEF MineOK
<1> DEFINE c == Resume(n)
           a == FreeAll({c})
           s == Op("settle", n)
           b == Op("Future_free", n)
<1>6. c \in {Resume(n), Reap(n)} /\ ~Frees(c) /\ c \in live
  BY <1>4, <1>5 DEF BlocksOK, OneOf, Lent
<1>7. FreesIn(Head(todo)) = {}
  BY <1>3, ClaimsOf
<1>8. todo' = <<a, s, b>> \o Rest /\ Head(todo) = Op("call", c)
  BY <1>2, <1>3, <1>5, ThenRest
<1>9. Waker(n) = c
  BY <1>5
<1>10. a \in AllOps /\ s \in AllOps /\ b \in AllOps /\ {c} \in SUBSET Envs
  <2>1. {c} \in SUBSET Envs
    BY EnvKinds
  <2>2. FreeAll({c}) \in AllOps
    BY <2>1, SMT DEF AllOps, FreeAll, Op
  <2>3. s \in AllOps
    BY SMT DEF AllOps, Op
  <2>4. b \in AllOps
    BY SMT DEF AllOps, Op
  <2> QED
    BY <2>1, <2>2, <2>3, <2>4
<1>11. Fits(a) /\ Fits(s) /\ Fits(b)
  BY <1>1, <1>5, <1>6, <1>10, FitsFacts
<1>12. Above(a, s) /\ Above(a, b) /\ Above(s, b)
  <2>1. a[1] = "free" /\ s[1] = "settle" /\ b[1] = "Future_free" /\ Claims(a) = {c} /\ Claims(s) = {Drp(n)} /\ Claims(b) = {Fut(n)}
        /\ ~Up(a) /\ ~Up(s) /\ ~Up(b)
    BY OpFacts, ClaimsOf
  <2>2. c # Drp(n) /\ c # Fut(n) /\ Fut(n) # Drp(n)
    BY Owners
  <2> QED
    BY <2>1, <2>2 DEF Above
<1>13. FreesIn(a) = {c} /\ FreesIn(s) = {} /\ FreesIn(b) = {}
  BY ClaimsOf
<1>14. a[1] = "free" /\ s[1] # "free" /\ b[1] # "free"
  BY OpFacts
<1> HIDE DEF c
<1>15. todo' \in Seq(AllOps) /\ Ordered' /\ (\A z : Frees(z)' <=> Frees(z) \/ z = c) /\ Replaced({a, s, b})
  <2> HIDE DEF a, s, b
  <2>1. todo' \in Seq(AllOps) /\ Ordered' /\ Replaced({a, s, b}) /\ FreesAre(FreesIn(a) \cup FreesIn(s) \cup FreesIn(b))
    BY <1>1, <1>8, <1>10, <1>11, <1>12, Push3
  <2> QED
    BY <1>7, <1>13, <2>1 DEF FreesAre
<1>16. PICK S : S = {b} \cup (IF TRUE THEN {s} ELSE {})
  OBVIOUS
<1>17. Replaced(S)
  BY <1>14, <1>15, <1>16, NoFrees2
<1>18. mine' = mine \ {n} /\ live' = live \cup {c} /\ held' = held \ {n}
  BY <1>2, <1>3, <1>5, <1>6
<1>19. fut' \in [Nodes -> Futures] /\ fut' = fut /\ State(n)' = READY /\ Waker(n)' = c
  BY <1>1, <1>2, <1>5, <1>9 DEF Typed, State, Waker
<1> QED
  BY <1>2, <1>5, <1>6, <1>8, <1>9, <1>15, <1>16, <1>17, <1>18, <1>19, HandOver

-----------------------------------------------------------------------------
(* The drop of a leaf, and the end of a join.                               *)

(* CallLeafDrop: a leaf's on_drop takes it off the loop.                    *)
LEMMA LeafDropStep ==
  ASSUME IInv, Discipline, CallLeafDrop
  PROVE  IInv'
<1>1. Typed /\ Ordered
  BY DEF IInv
<1>2. todo # <<>> /\ Head(todo)[1] = "call" /\ Head(todo)[2][1] = "drp"
  BY DEF CallLeafDrop, Calling, Running, Arg
<1>3. PICK l \in Leaves : l = Head(todo)[2][2] /\ Head(todo) = Op("call", Drp(l))
  BY <1>1, <1>2, RestFacts, Forms
<1>4. Calls(Drp(l)) /\ LeafOK(l) /\ FutureOK(l) /\ MineOK(l) /\ BlocksOK(l) /\ OwnerOK(l) /\ l \in Nodes /\ l \notin Combs
  BY <1>1, <1>2, <1>3, RestFacts, InNodes DEF Calls, IInv
<1>5. l \in reg /\ State(l) = CANCELLED
  BY <1>4 DEF LeafOK
<1>6. /\ reg' = reg \ {l} /\ done' = done /\ Then(<<FreeAll({Cb(l)})>>)
      /\ UNCHANGED <<kind, inputs, fut, cnt, live, mine, held, taken>>
  <2>1. Cleanup[l] = None /\ None \notin reg
    BY <1>1, CleanupAssumption DEF Discipline, Typed, Nodes
  <2> DEFINE k == Cleanup[l]
             ops == (IF l \in reg THEN <<FreeAll({Cb(l)})>> ELSE <<>>)
               \o (IF k \in reg \ {l} THEN <<Complete(k, 0), FreeAll({Cb(k)})>> ELSE <<>>)
  <2>2. /\ reg' = reg \ {l, k} /\ done' = (IF k \in reg \ {l} THEN done \cup {k} ELSE done) /\ Then(ops)
        /\ UNCHANGED <<kind, inputs, fut, cnt, live, mine, held, taken>>
    BY <1>3 DEF CallLeafDrop, Arg
  <2>3. reg \ {l, k} = reg \ {l} /\ k \notin reg \ {l}
    BY <2>1
  <2>4. ops = <<FreeAll({Cb(l)})>>
    <3>1. ops = <<FreeAll({Cb(l)})>> \o <<>>
      BY <1>5, <2>3
    <3> HIDE DEF ops
    <3> QED
      BY <3>1, SMT
  <2> QED
    BY <2>2, <2>3, <2>4
<1> DEFINE a == FreeAll({Cb(l)})
<1>7. ~Frees(Cb(l)) /\ Cb(l) \in live
  BY <1>4, <1>5 DEF BlocksOK, OneOf
<1>8. todo' \in Seq(AllOps) /\ Ordered' /\ Replaced({a}) /\ \A b : Frees(b)' <=> Frees(b) \/ b = Cb(l)
  <2>1. {Cb(l)} \in SUBSET Envs
    BY EnvKinds
  <2>2. a \in AllOps
    BY <2>1, SMT DEF AllOps, FreeAll, Op
  <2>3. Fits(a)
    BY <1>1, <1>7, <2>1, FitsFacts
  <2>4. todo' = <<a>> \o Rest
    BY <1>2, <1>6, ThenRest
  <2>5. FreesIn(a) = {Cb(l)} /\ FreesIn(Head(todo)) = {}
    BY <1>3, ClaimsOf
  <2> HIDE DEF a
  <2>6. todo' \in Seq(AllOps) /\ Ordered' /\ Replaced({a}) /\ FreesAre(FreesIn(a))
    BY <1>1, <2>2, <2>3, <2>4, Push1
  <2> QED
    BY <2>5, <2>6 DEF FreesAre
<1>9. Typed' /\ Fixed
  BY <1>1, <1>6, <1>8 DEF Typed, Fixed
<1>10. \A o : o[1] # "free" => (Has(o)' <=> Has(o) /\ o # Op("call", Drp(l)))
  <2>1. a[1] = "free"
    BY OpFacts
  <2> QED
    BY <1>2, <1>3, <1>8, <2>1 DEF Replaced, AtHead
<1>11. /\ \A x : /\ Drops(x)' <=> Drops(x)
                 /\ Releases(x)' <=> Releases(x)
                 /\ FreesNode(x)' <=> FreesNode(x)
                 /\ Settles(x)' <=> Settles(x)
                 /\ Hooks(x)' <=> Hooks(x)
                 /\ Tallies(x)' <=> Tallies(x)
                 /\ Calls(x)' <=> Calls(x) /\ x # Drp(l)
                 /\ \A w : (Resolves(x, w)' <=> Resolves(x, w)) /\ (Arms(x, w)' <=> Arms(x, w))
  <2>1. \A c, x : c # "free" => (Has(Op(c, x))' <=> Has(Op(c, x)) /\ (c # "call" \/ x # Drp(l)))
    BY <1>10, OpFacts
  <2>2. \A x, w : (Has(Arm(x, w))' <=> Has(Arm(x, w))) /\ (Has(Complete(x, w))' <=> Has(Complete(x, w)))
    BY <1>10, OpFacts
  <2> QED
    BY <2>1, <2>2, SMT DEF Drops, Releases, FreesNode, Settles, Hooks, Tallies, Calls, Resolves, Arms
<1>12. \A x : (Claimed(x)' <=> Claimed(x)) /\ (Completes(x)' <=> Completes(x))
  BY <1>11 DEF Claimed, Completes
<1>13. \A x : (Runs(x)' <=> Runs(x)) /\ \A r : Unarmed(x, r)' <=> Unarmed(x, r)
  BY <1>11, <1>12, Owners DEF Runs, Unarmed
<1>14. Alone(l)
  <2> SUFFICES ASSUME NEW x \in Nodes, x # l PROVE Same(x) /\ NodeBlocksKept(x)
    BY DEF Alone
  <2>1. OpsSame(x)
    <3>1. \A o \in {a} : o[1] # "free" => Subject(o) # x
      BY OpFacts
    <3>2. Subject(Head(todo)) = l
      BY <1>3, Subjects
    <3> HIDE DEF a
    <3> QED
      BY <1>2, <1>8, <3>1, <3>2, SameOps
  <2>2. Same(x)
    BY <1>6, <2>1 DEF Same, Alive
  <2>3. {Resume(x), Reap(x), Cb(x), Cnt(x)} \cap {Cb(l)} = {}
    BY Owners
  <2> QED
    BY <1>6, <1>8, <2>2, <2>3 DEF NodeBlocksKept, BlockKept
<1>15. State(l)' = State(l) /\ Waker(l)' = Waker(l) /\ fut'[l] = fut[l] /\ (Alive(l)' <=> Alive(l)) /\ (Unresolved(l)' <=> Unresolved(l))
       /\ ~Unresolved(l)
  BY <1>5, <1>6 DEF State, Waker, Alive, Unresolved, PENDING, WAITING, CANCELLED
<1>16. FutureOK(l)' /\ MineOK(l)'
  <2>1. \A p, r : In(p, r)' = In(p, r)
    BY <1>9, InFrame
  <2>2. Gone(l)' <=> Gone(l)
    BY <1>12, <1>15 DEF Gone
  <2>3. FutureOK(l)'
    BY <1>4, <1>6, <1>11, <1>12, <1>15, <2>1, <2>2 DEF FutureOK
  <2>4. MineOK(l)'
    BY <1>4, <1>6, <1>11, <1>12, <1>15, <2>1, Owners DEF MineOK
  <2> QED
    BY <2>3, <2>4
<1>17. Lent(l)' <=> Lent(l)
  <2>1. Waker(l) # Drp(l)
    BY <1>4, WakerOn
  <2> QED
    BY <1>11, <1>15, <2>1 DEF Lent
<1>18. BlocksOK(l)'
  <2>1. OneOf(Resume(l), Lent(l) /\ Waker(l) = Resume(l))' /\ OneOf(Reap(l), Lent(l) /\ Waker(l) = Reap(l))'
    BY <1>4, <1>6, <1>8, <1>15, <1>17, Owners DEF BlocksOK, OneOf
  <2>2. OneOf(Cb(l), l \in reg)'
    BY <1>4, <1>6, <1>7, <1>8 DEF OneOf
  <2> QED
    BY <1>4, <1>6, <1>15, <2>1, <2>2 DEF BlocksOK
<1>19. LeafOK(l)'
  BY <1>4, <1>5, <1>6, <1>11, <1>12, <1>15 DEF LeafOK
<1>20. OwnerOK(l)'
  BY <1>4, <1>6, <1>9, <1>11, <1>12, <1>14, <1>15, AloneFacts, InFrame DEF OwnerOK
<1>21. KidSame(l)
  BY <1>6, <1>11, <1>12, <1>15 DEF KidSame
<1>22. (\E D \in SUBSET Nodes : Doomed(D))'
  <2>1. PICK D \in SUBSET Nodes : Doomed(D)
    BY DEF IInv
  <2> QED
    BY <1>9, <1>11, <1>13, <2>1, DoomedFrame DEF Doomed
<1>23. \A p \in Combs, r \in {0, 1} : BlockKept(On(p, r))
  BY <1>6, <1>8, Owners DEF BlockKept
<1>24. \A r \in {0, 1} : (Unarmed(l, r)' <=> Unarmed(l, r)) /\ (Calls(On(l, r))' <=> Calls(On(l, r)))
  BY <1>11, <1>13, Owners
<1> HIDE DEF a
<1> QED
  BY <1>4, <1>8, <1>9, <1>14, <1>15, <1>16, <1>17, <1>18, <1>19, <1>20, <1>21, <1>22, <1>23, <1>24,
     SoleStep DEF NodeOK

(* The last steps of a join, and of a constructor. *)
LEMMA LastSteps ==
  ASSUME IInv, todo # <<>>, NEW n \in Combs, Head(todo) \in {Op("tally", n), Op("hook", n)}
  PROVE  /\ Up(Head(todo)) /\ Subject(Head(todo)) = n /\ Head(todo)[1] \in {"tally", "hook"} /\ FreesIn(Head(todo)) = {}
         /\ \A x : x # n => Quiet(x)
         /\ \A c : ~Calls(c)
         /\ ~Claimed(n) /\ ~Settles(n) /\ ~Completes(n) /\ ~Arms(n, 0) /\ ~Arms(n, 1)
         /\ Unresolved(n) /\ Alive(n) /\ Open(n)
         /\ Hooks(n) => n \in mine /\ State(n) = PENDING
         /\ \A r \in {0, 1} : ~Unarmed(n, r) /\ KidOK(n, r) /\ ~Calls(On(n, r))
         /\ Hooks(n) <=> Head(todo) = Op("hook", n)
         /\ Tallies(n) <=> Head(todo) = Op("tally", n)
<1>1. Typed /\ Ordered /\ CombOK(n) /\ CallsOK(n)
  BY DEF IInv, CombOK
<1>2. Up(Head(todo)) /\ Subject(Head(todo)) = n /\ Head(todo)[1] \in {"tally", "hook"} /\ FreesIn(Head(todo)) = {}
  BY ClaimsOf, Subjects, OpFacts
<1>3. \A x : x # n => Quiet(x)
  BY <1>1, <1>2, UpQuiet
<1>4. \A o : o[1] # "free" => (Has(o) <=> AtHead(o))
  BY <1>1, <1>2, OnlyHead
<1>5. \A a, x : a # "free" => (Has(Op(a, x)) <=> Head(todo) = Op(a, x))
  BY <1>4, OpFacts DEF AtHead
<1>6. \A x, w : ~Has(Arm(x, w)) /\ ~Has(Complete(x, w))
  BY <1>2, <1>4, OpFacts DEF AtHead
<1>7. /\ ~Claimed(n) /\ ~Settles(n) /\ ~Completes(n) /\ ~Arms(n, 0) /\ ~Arms(n, 1) /\ \A c : ~Calls(c)
      /\ Hooks(n) <=> Head(todo) = Op("hook", n)
      /\ Tallies(n) <=> Head(todo) = Op("tally", n)
  BY <1>2, <1>5, <1>6, OpFacts DEF Claimed, Drops, Releases, FreesNode, Settles, Completes, Resolves, Arms, Calls,
     Hooks, Tallies
<1>8. Unresolved(n) /\ Alive(n) /\ (Hooks(n) => n \in mine /\ State(n) = PENDING)
  <2>1. MineOK(n)
    BY <1>1 DEF IInv, Nodes
  <2> QED
    BY <1>1, <1>7, <2>1 DEF CallsOK, MineOK, Unresolved
<1>9. Open(n)
  BY <1>7, <1>8 DEF Open
<1>10. \A r \in {0, 1} : KidOK(n, r)
  BY <1>9, OpenFacts
<1> QED
  BY <1>2, <1>3, <1>7, <1>8, <1>9, <1>10 DEF Unarmed

(* Both inputs are counted: the join resolves.                              *)
LEMMA JoinDone ==
  ASSUME IInv, todo # <<>>, NEW n \in Combs, Head(todo) \in {Op("tally", n), Op("hook", n)},
         IsJoin(n), Count(n) = 2, Then(<<FreeAll({Cnt(n)}), Complete(n, 2)>>),
         cnt' \in [Combs -> 0 .. 2], \A x \in Combs : x # n => cnt'[x] = cnt[x],
         UNCHANGED <<kind, inputs, fut, live, reg, mine, held, done, taken>>
  PROVE  IInv'
<1>1. Typed /\ Ordered /\ n \in Nodes /\ n \notin Leaves
  BY InNodes DEF IInv
<1>2. FutureOK(n) /\ MineOK(n) /\ BlocksOK(n) /\ OwnerOK(n) /\ CombOK(n) /\ NewOK(n) /\ BuiltOK(n) /\ CallsOK(n) /\ OpenOK(n)
  BY <1>1, LastSteps, OpenFacts DEF IInv
<1> DEFINE a == FreeAll({Cnt(n)})
           b == Complete(n, 2)
<1>3. Cnt(n) \in live /\ ~Frees(Cnt(n))
  BY <1>2, LastSteps DEF BlocksOK, OneOf
<1>4. todo' \in Seq(AllOps) /\ Ordered' /\ Replaced({a, b}) /\ \A e : Frees(e)' <=> Frees(e) \/ e = Cnt(n)
  <2>1. {Cnt(n)} \in SUBSET Envs
    BY EnvKinds
  <2>2. a \in AllOps
    BY <2>1, SMT DEF AllOps, FreeAll, Op
  <2>3. b \in AllOps
    BY <1>1 DEF AllOps, Complete
  <2>4. Fits(a) /\ Fits(b)
    BY <1>1, <1>3, <2>1, LastSteps, ClaimsOf, FitsFacts
  <2>5. Above(a, b)
    BY ClaimsOf, OpFacts DEF Above
  <2>6. todo' = <<a, b>> \o Rest
    BY ThenRest
  <2>7. FreesIn(a) = {Cnt(n)} /\ FreesIn(b) = {} /\ FreesIn(Head(todo)) = {}
    BY LastSteps, ClaimsOf
  <2> HIDE DEF a, b
  <2>8. todo' \in Seq(AllOps) /\ Ordered' /\ Replaced({a, b}) /\ FreesAre(FreesIn(a) \cup FreesIn(b))
    BY <1>1, <2>2, <2>3, <2>4, <2>5, <2>6, Push2
  <2> QED
    BY <2>7, <2>8 DEF FreesAre
<1>5. Typed' /\ Fixed
  BY <1>1, <1>4 DEF Typed, Fixed
<1>6. /\ \A x : ~Drops(x)' /\ ~Releases(x)' /\ ~FreesNode(x)' /\ ~Settles(x)' /\ ~Hooks(x)' /\ ~Tallies(x)' /\ ~Calls(x)'
      /\ \A x, w : ~Arms(x, w)' /\ (Resolves(x, w)' <=> x = n /\ w = 2)
  <2>1. \A c, x : c \notin {"free", "complete"} => Op(c, x) \notin {a, b}
    BY OpFacts
  <2>2. \A x, w : Arm(x, w) \notin {a, b} /\ (Complete(x, w) \in {a, b} <=> x = n /\ w = 2)
    BY OpFacts
  <2>3. Up(Head(todo))
    BY LastSteps
  <2> HIDE DEF a, b
  <2> QED
    BY <1>1, <1>4, <2>1, <2>2, <2>3, BareNext, ZenonT(40)
<1>7. /\ \A x : ~Claimed(x)' /\ (Completes(x)' <=> x = n)
      /\ \A x, r : ~Unarmed(x, r)'
  BY <1>6 DEF Claimed, Completes, Unarmed
<1>8. Alone(n)
  <2> SUFFICES ASSUME NEW x \in Nodes, x # n PROVE Same(x) /\ NodeBlocksKept(x)
    BY DEF Alone
  <2>1. OpsSame(x)
    <3>1. \A o \in {a, b} : o[1] # "free" => Subject(o) # x
      BY OpFacts, Subjects
    <3> HIDE DEF a, b
    <3> QED
      BY <1>4, <3>1, LastSteps, SameOps
  <2>2. Same(x)
    BY <2>1 DEF Same, Alive
  <2>3. {Resume(x), Reap(x), Cb(x), Cnt(x)} \cap {Cnt(n)} = {}
    BY Owners
  <2> QED
    BY <1>4, <2>2, <2>3 DEF NodeBlocksKept, BlockKept
<1>9. /\ State(n)' = State(n) /\ Waker(n)' = Waker(n) /\ fut'[n] = fut[n] /\ (Alive(n)' <=> Alive(n))
      /\ (Unresolved(n)' <=> Unresolved(n)) /\ (Virgin(n)' <=> Virgin(n)) /\ ~Virgin(n)
      /\ Unresolved(n) /\ Alive(n) /\ ~Claimed(n) /\ State(n) # READY /\ State(n) # CANCELLED
  BY LastSteps DEF State, Waker, Alive, Unresolved, Virgin, PENDING, WAITING, READY, CANCELLED
<1>10. ~Open(n)' /\ (Lent(n)' <=> Lent(n)) /\ (IsJoin(n)' <=> IsJoin(n)) /\ (Yields(n, 2) /\ IsJoin(n))'
  BY <1>5, <1>6, <1>7, <1>9, LastSteps, InFrame DEF Open, Lent, Yields, Resolved
<1>11. FutureOK(n)' /\ MineOK(n)'
  <2>1. \A p, r : In(p, r)' = In(p, r)
    BY <1>5, InFrame
  <2>2. FutureOK(n)'
    BY <1>2, <1>6, <1>7, <1>9, <2>1 DEF FutureOK
  <2>3. MineOK(n)'
    BY <1>2, <1>6, <1>7, <1>9, <2>1, LastSteps DEF MineOK
  <2> QED
    BY <2>2, <2>3
<1>12. BlocksOK(n)'
  <2>1. OneOf(Resume(n), Lent(n) /\ Waker(n) = Resume(n))' /\ OneOf(Reap(n), Lent(n) /\ Waker(n) = Reap(n))'
    BY <1>2, <1>4, <1>9, <1>10, Owners DEF BlocksOK, OneOf
  <2>2. OneOf(Cnt(n), IsJoin(n) /\ Open(n))'
    BY <1>3, <1>4, <1>10 DEF OneOf
  <2> QED
    BY <1>1, <1>2, <1>9, <2>1, <2>2 DEF BlocksOK
<1>13. PICK x \in Nodes, y \in Nodes : In(n, 0) = x /\ In(n, 1) = y /\ In(n, 0)' = x /\ In(n, 1)' = y
  BY <1>1, <1>5, InNodes, InFrame
<1>14. KidSame(x) /\ KidSame(y)
  BY <1>1, <1>5, <1>8, <1>13, AloneFacts
<1>15. Kept(x) /\ Kept(y) /\ Spared(x) /\ Spared(y)
  <2>1. Counted(n, 0) /\ Counted(n, 1)
    BY DEF Count
  <2>2. State(x) = READY /\ State(y) = READY
    BY <1>13, <2>1 DEF Counted
  <2>3. Kept(x) /\ Kept(y)
    BY <1>13, <2>2, LastSteps DEF KidOK, Armed, Got, WAITING, READY
  <2> QED
    BY <2>2, <2>3 DEF Spared, Kept, Claimed
<1>16. Kept(x)' /\ Kept(y)' /\ Spared(x)' /\ Spared(y)'
  BY <1>14, <1>15, KidStates
<1>17. \A v \in 0 .. 2 : (Yields(n, v)' => FullOK(n, v)') /\ (Resolves(n, v)' => ReasonOK(n, v)')
  BY <1>6, <1>10, <1>13, <1>16 DEF FullOK, ReasonOK
<1>18. BuiltOK(n)'
  <2>1. \A r \in {0, 1} : (In(n, r) \notin mine \cup held /\ ~Virgin(In(n, r)))'
    BY <1>2, <1>9, <1>13, <1>14, KidStates DEF BuiltOK
  <2>2. State(n)' # READY /\ Full(n)'
    BY <1>7, <1>9 DEF Full, Resolved
  <2> QED
    BY <1>9, <1>10, <1>17, <2>1, <2>2 DEF BuiltOK, Resolved
<1>19. CombOK(n)' /\ NewOK(n)'
  <2>1. CallsOK(n)'
    BY <1>2, <1>6, <1>9 DEF CallsOK
  <2> QED
    BY <1>9, <1>18, <2>1 DEF CombOK, NewOK
<1>20. OwnerOK(n)'
  BY <1>1, <1>2, <1>5, <1>6, <1>7, <1>8, <1>9, AloneFacts, InFrame DEF OwnerOK
<1>21. n \in mine \cup held \/ KidSame(n)
  BY <1>6, <1>7, <1>9, LastSteps DEF KidSame, Claimed
<1>22. (\E D \in SUBSET Nodes : Doomed(D))'
  BY <1>6, NoDoom
<1>23. \A r \in {0, 1} : Holder(n, r)'
  BY <1>10 DEF Holder
<1>24. \A p \in Combs, r \in {0, 1} : BlockKept(On(p, r))
  BY <1>4, Owners DEF BlockKept
<1>25. \A r \in {0, 1} : (Unarmed(n, r)' <=> Unarmed(n, r)) /\ (Calls(On(n, r))' <=> Calls(On(n, r)))
  BY <1>6, <1>7, LastSteps
<1>26. NodeOK(n)'
  BY <1>1, <1>11, <1>12, <1>19, <1>20 DEF NodeOK
<1> HIDE DEF a, b
<1> QED
  BY <1>1, <1>4, <1>5, <1>8, <1>9, <1>10, <1>21, <1>22, <1>23, <1>24, <1>25, <1>26, SoleStep

(* The join counted one input, or the constructor is done and hooks the     *)
(* cascade: the combinator still waits.                                     *)
LEMMA StillOpen ==
  ASSUME IInv, todo # <<>>, NEW n \in Combs, Head(todo) \in {Op("tally", n), Op("hook", n)},
         Then(<<>>), fut' = Disposes(fut, n, Cas(n)), live' = live \cup {Cas(n)},
         cnt' \in [Combs -> 0 .. 2], \A x \in Combs : x # n => cnt'[x] = cnt[x],
         IsJoin(n) => Count(n) = cnt'[n] /\ cnt'[n] # 2,
         UNCHANGED <<kind, inputs, reg, mine, held, done, taken>>
  PROVE  IInv'
<1>1. Typed /\ Ordered /\ n \in Nodes /\ n \notin Leaves
  BY InNodes DEF IInv
<1>2. FutureOK(n) /\ MineOK(n) /\ BlocksOK(n) /\ OwnerOK(n) /\ CombOK(n) /\ NewOK(n) /\ BuiltOK(n) /\ CallsOK(n) /\ OpenOK(n)
  BY <1>1, LastSteps, OpenFacts DEF IInv
<1>3. todo' \in Seq(AllOps) /\ Ordered' /\ Replaced({}) /\ \A e : Frees(e)' <=> Frees(e)
  <2>1. FreesIn(Head(todo)) = {}
    BY LastSteps
  <2> QED
    BY <1>1, <2>1, Push0 DEF FreesAre
<1>4. /\ fut' \in [Nodes -> Futures] /\ \A x \in Nodes : x # n => fut'[x] = fut[x]
      /\ State(n)' = State(n) /\ Waker(n)' = Waker(n) /\ fut'[n].on_drop = Cas(n) /\ fut'[n].value = fut[n].value
  <2>1. Cas(n) \in {Nop} \cup OnDrops /\ fut \in [Nodes -> Futures]
    BY <1>1, EnvKinds DEF Typed
  <2> QED
    BY <1>1, <2>1, DisposesFut DEF State, Waker
<1>5. Typed' /\ Fixed
  <2>1. Cas(n) \in LiveBlocks
    BY EnvKinds DEF LiveBlocks
  <2> QED
    BY <1>1, <1>3, <1>4, <2>1 DEF Typed, Fixed
<1>6. /\ \A x : ~Drops(x)' /\ ~Releases(x)' /\ ~FreesNode(x)' /\ ~Settles(x)' /\ ~Hooks(x)' /\ ~Tallies(x)' /\ ~Calls(x)'
      /\ \A x, w : ~Arms(x, w)' /\ ~Resolves(x, w)'
  BY <1>1, <1>3, LastSteps, BareNext
<1>7. /\ \A x : ~Claimed(x)' /\ ~Completes(x)'
      /\ \A x, r : ~Unarmed(x, r)'
  BY <1>6 DEF Claimed, Completes, Unarmed
<1>8. \A b : b # Cas(n) => (b \in live' <=> b \in live)
  OBVIOUS
<1>9. Alone(n)
  <2> SUFFICES ASSUME NEW x \in Nodes, x # n PROVE Same(x) /\ NodeBlocksKept(x)
    BY DEF Alone
  <2>1. OpsSame(x)
    BY <1>3, LastSteps, SameOps
  <2>2. {Resume(x), Reap(x), Cb(x), Cnt(x), Drp(x), Cas(x), Fut(x)} \cap {Cas(n)} = {}
    BY Owners
  <2>3. Same(x)
    BY <1>4, <2>1, <2>2 DEF Same, Alive
  <2> QED
    BY <1>3, <2>2, <2>3 DEF NodeBlocksKept, BlockKept
<1>10. {Resume(n), Reap(n), Cb(n), Cnt(n), Drp(n), Fut(n)} \cap {Cas(n)} = {}
  BY Owners
<1>11. /\ (Alive(n)' <=> Alive(n)) /\ (Unresolved(n)' <=> Unresolved(n)) /\ (Virgin(n)' <=> Virgin(n)) /\ ~Virgin(n)
       /\ Unresolved(n) /\ Alive(n) /\ ~Claimed(n) /\ State(n) # READY /\ State(n) # CANCELLED
  BY <1>4, <1>10, LastSteps DEF Alive, Unresolved, Virgin, PENDING, WAITING, READY, CANCELLED
<1>12. Open(n)' /\ (Lent(n)' <=> Lent(n)) /\ (IsJoin(n)' <=> IsJoin(n))
  BY <1>4, <1>5, <1>6, <1>7, <1>11, LastSteps, InFrame DEF Open, Lent
<1>13. FutureOK(n)' /\ MineOK(n)'
  <2>1. \A p, r : In(p, r)' = In(p, r)
    BY <1>5, InFrame
  <2>2. FutureOK(n)'
    BY <1>2, <1>4, <1>6, <1>7, <1>11, <2>1 DEF FutureOK
  <2>3. MineOK(n)'
    BY <1>2, <1>4, <1>6, <1>7, <1>11, <2>1, LastSteps DEF MineOK
  <2> QED
    BY <2>2, <2>3
<1>14. BlocksOK(n)'
  <2>1. OneOf(Resume(n), Lent(n) /\ Waker(n) = Resume(n))' /\ OneOf(Reap(n), Lent(n) /\ Waker(n) = Reap(n))'
    BY <1>2, <1>3, <1>4, <1>10, <1>12 DEF BlocksOK, OneOf
  <2>2. OneOf(Cnt(n), IsJoin(n) /\ Open(n))'
    BY <1>2, <1>3, <1>10, <1>12, LastSteps DEF BlocksOK, OneOf
  <2> QED
    BY <1>1, <1>4, <1>11, <2>1, <2>2 DEF BlocksOK
<1>15. PICK x \in Nodes, y \in Nodes : In(n, 0) = x /\ In(n, 1) = y /\ In(n, 0)' = x /\ In(n, 1)' = y
  BY <1>1, <1>5, InNodes, InFrame
<1>16. KidSame(x) /\ KidSame(y)
  BY <1>1, <1>5, <1>9, <1>15, AloneFacts
<1>17. \A r \in {0, 1} : KidOK(n, r)' /\ (Counted(n, r)' <=> Counted(n, r))
  <2> SUFFICES ASSUME NEW r \in {0, 1} PROVE KidOK(n, r)' /\ (Counted(n, r)' <=> Counted(n, r))
    OBVIOUS
  <2>1. PICK z : In(n, r) = z /\ In(n, r)' = z /\ KidSame(z)
    BY <1>15, <1>16
  <2>2. KidOK(n, r) /\ ~Unarmed(n, r) /\ ~Calls(On(n, r))
    BY LastSteps
  <2>3. Armed(n, r) \/ (IsJoin(n) /\ Got(n, r))
    BY <2>2 DEF KidOK
  <2>4. State(z)' = State(z) /\ Waker(z)' = Waker(z) /\ (Kept(z)' <=> Kept(z)) /\ (Alive(z)' <=> Alive(z)) /\ (Claimed(z)' <=> Claimed(z))
    BY <2>1, KidStates
  <2>5. (Armed(n, r) \/ (IsJoin(n) /\ Got(n, r)))'
    BY <1>12, <2>1, <2>3, <2>4 DEF Armed, Got
  <2> QED
    BY <1>6, <1>7, <2>1, <2>2, <2>4, <2>5 DEF KidOK, Counted
<1>18. OpenOK(n)'
  <2>1. Count(n)' = Count(n)
    BY <1>17 DEF Count
  <2> QED
    BY <1>4, <1>6, <1>12, <1>17, <2>1 DEF OpenOK
<1>19. BuiltOK(n)'
  <2>1. \A r \in {0, 1} : (In(n, r) \notin mine \cup held /\ ~Virgin(In(n, r)))'
    BY <1>2, <1>11, <1>15, <1>16, KidStates DEF BuiltOK
  <2>2. State(n)' # READY /\ \A v : ~Yields(n, v)' /\ ~Resolves(n, v)'
    BY <1>4, <1>6, <1>11 DEF Yields, Resolved
  <2> QED
    BY <1>11, <1>12, <1>18, <2>1, <2>2 DEF BuiltOK, Resolved, Unresolved, PENDING, WAITING, CANCELLED
<1>20. CombOK(n)' /\ NewOK(n)'
  <2>1. CallsOK(n)'
    BY <1>2, <1>4, <1>6, <1>11 DEF CallsOK
  <2> QED
    BY <1>11, <1>19, <2>1 DEF CombOK, NewOK
<1>21. OwnerOK(n)'
  BY <1>1, <1>2, <1>5, <1>6, <1>7, <1>9, <1>11, AloneFacts, InFrame DEF OwnerOK
<1>22. n \in mine \cup held \/ KidSame(n)
  <2>1. CASE Head(todo) = Op("hook", n)
    BY <2>1, LastSteps
  <2>2. CASE Head(todo) # Op("hook", n)
    <3>1. fut[n].on_drop = Cas(n)
      BY <1>2, <2>2, LastSteps DEF OpenOK
    <3>2. fut'[n] = fut[n]
      <4>1. fut[n] \in Futures /\ fut'[n] \in Futures
        BY <1>1, <1>4 DEF Typed
      <4> QED
        BY <1>4, <3>1, <4>1 DEF Futures, State, Waker
    <3> QED
      BY <1>6, <1>7, <1>11, <3>2, LastSteps DEF KidSame, Claimed
  <2> QED
    BY <2>1, <2>2
<1>23. (\E D \in SUBSET Nodes : Doomed(D))'
  BY <1>6, NoDoom
<1>24. \A r \in {0, 1} : Holder(n, r)'
  BY <1>12 DEF Holder
<1>25. \A p \in Combs, r \in {0, 1} : BlockKept(On(p, r))
  BY <1>3, Owners DEF BlockKept
<1>26. \A r \in {0, 1} : (Unarmed(n, r)' <=> Unarmed(n, r)) /\ (Calls(On(n, r))' <=> Calls(On(n, r)))
  BY <1>6, <1>7, LastSteps
<1>27. NodeOK(n)'
  BY <1>1, <1>13, <1>14, <1>20, <1>21 DEF NodeOK
<1> QED
  BY <1>1, <1>3, <1>4, <1>5, <1>9, <1>11, <1>12, <1>22, <1>23, <1>24, <1>25, <1>26, <1>27, SoleStep

(* Tally: a join counts an input.                                           *)
LEMMA TallyStep ==
  ASSUME IInv, Tally
  PROVE  IInv'
<1>1. Typed /\ Ordered
  BY DEF IInv
<1>2. todo # <<>> /\ Head(todo)[1] = "tally"
  BY DEF Tally, Running
<1>3. PICK n \in Combs : n = Head(todo)[2] /\ Head(todo) = Op("tally", n)
  BY <1>1, <1>2, RestFacts, Forms
<1>4. CombOK(n) /\ CallsOK(n) /\ OpenOK(n) /\ BlocksOK(n) /\ n \in Nodes /\ Tallies(n) /\ ~Hooks(n) /\ Alive(n)
      /\ ~Arms(n, 0) /\ ~Arms(n, 1)
  BY <1>1, <1>2, <1>3, LastSteps, OpenFacts, InNodes, OpFacts DEF IInv
<1>5. IsJoin(n) /\ cnt \in [Combs -> 0 .. 2] /\ Count(n) = cnt[n] + 1 /\ cnt[n] # 2 /\ fut[n].on_drop = Cas(n)
  BY <1>1, <1>4 DEF CallsOK, OpenOK, Typed
<1>6. /\ cnt' = [cnt EXCEPT ![n] = @ + 1]
      /\ Then(IF cnt[n] + 1 = 2 THEN <<FreeAll({Cnt(n)}), Complete(n, 2)>> ELSE <<>>)
      /\ UNCHANGED <<kind, inputs, fut, live, reg, mine, held, done, taken>>
  BY <1>3 DEF Tally, Arg
<1>7. cnt[n] + 1 \in 0 .. 2 /\ cnt'[n] = cnt[n] + 1 /\ cnt' \in [Combs -> 0 .. 2] /\ \A x \in Combs : x # n => cnt'[x] = cnt[x]
  <2>1. cnt[n] \in 0 .. 2
    BY <1>5
  <2>2. cnt[n] + 1 \in 0 .. 2
    BY <1>5, <2>1
  <2> QED
    BY <1>5, <1>6, <2>2
<1>8. CASE cnt[n] + 1 = 2
  BY <1>2, <1>3, <1>5, <1>6, <1>7, <1>8, JoinDone
<1>9. CASE cnt[n] + 1 # 2
  <2>1. fut' = Disposes(fut, n, Cas(n))
    <3>1. fut \in [Nodes -> Futures] /\ fut[n] \in Futures
      BY <1>1, <1>4 DEF Typed
    <3>2. [fut[n] EXCEPT !.on_drop = Cas(n)] = fut[n]
      BY <1>5, <3>1 DEF Futures
    <3>3. Disposes(fut, n, Cas(n)) = [fut EXCEPT ![n] = [fut[n] EXCEPT !.on_drop = Cas(n)]]
      BY DEF Disposes
    <3> QED
      BY <1>6, <3>1, <3>2, <3>3
  <2>2. live' = live \cup {Cas(n)}
    BY <1>4, <1>5, <1>6 DEF BlocksOK
  <2>3. Then(<<>>) /\ Count(n) = cnt'[n] /\ cnt'[n] # 2
    BY <1>5, <1>6, <1>7, <1>9
  <2> QED
    BY <1>2, <1>3, <1>6, <1>7, <2>1, <2>2, <2>3, StillOpen
<1> QED
  BY <1>8, <1>9

(* Hook: the end of a constructor.                                          *)
LEMMA HookedStep ==
  ASSUME IInv, Hook
  PROVE  IInv'
<1>1. Typed /\ Ordered
  BY DEF IInv
<1>2. todo # <<>> /\ Head(todo)[1] = "hook"
  BY DEF Hook, Running
<1>3. PICK n \in Combs : n = Head(todo)[2] /\ Head(todo) = Op("hook", n)
  BY <1>1, <1>2, RestFacts, Forms
<1>4. OpenOK(n) /\ ~Tallies(n)
  BY <1>1, <1>2, <1>3, LastSteps, OpenFacts, OpFacts
<1>5. cnt \in [Combs -> 0 .. 2] /\ (IsJoin(n) => Count(n) = cnt[n])
  BY <1>1, <1>4 DEF OpenOK, Typed
<1>6. /\ IF IsJoin(n) /\ cnt[n] = 2
           THEN /\ Then(<<FreeAll({Cnt(n)}), Complete(n, 2)>>)
                /\ UNCHANGED <<fut, live>>
           ELSE /\ fut' = Disposes(fut, n, Cas(n))
                /\ live' = live \cup {Cas(n)}
                /\ Then(<<>>)
      /\ UNCHANGED <<kind, inputs, cnt, reg, mine, held, done, taken>>
  BY <1>3 DEF Hook, Arg, Disposes
<1>7. CASE IsJoin(n) /\ cnt[n] = 2
  BY <1>2, <1>3, <1>5, <1>6, <1>7, JoinDone
<1>8. CASE ~(IsJoin(n) /\ cnt[n] = 2)
  BY <1>2, <1>3, <1>5, <1>6, <1>8, StillOpen
<1> QED
  BY <1>7, <1>8

-----------------------------------------------------------------------------
(* Drops: Future_drop and the cascade, which touch a combinator and its inputs. *)

(* Writing out concatenations. *)
LEMMA Cat ==
  ASSUME NEW T
  PROVE  /\ \A s \in Seq(T) : <<>> \o s = s /\ s \o <<>> = s
         /\ \A a, b \in T : <<a>> \o <<b>> = <<a, b>>
         /\ \A a, b, c \in T : <<a>> \o <<b, c>> = <<a, b, c>> /\ <<a, b>> \o <<c>> = <<a, b, c>>
         /\ \A a, b, c, d \in T : <<a, b>> \o <<c, d>> = <<a, b, c, d>> /\ <<a, b, c>> \o <<d>> = <<a, b, c, d>>
<1>1. ASSUME NEW s \in Seq(T) PROVE <<>> \o s = s /\ s \o <<>> = s
  BY SeqEqual
<1>2. ASSUME NEW a \in T, NEW b \in T PROVE <<a>> \o <<b>> = <<a, b>>
  <2>1. <<a>> \o <<b>> \in Seq(T) /\ <<a, b>> \in Seq(T) /\ Len(<<a>> \o <<b>>) = Len(<<a, b>>)
        /\ \A i \in 1 .. Len(<<a>> \o <<b>>) : (<<a>> \o <<b>>)[i] = <<a, b>>[i]
    OBVIOUS
  <2> QED
    BY <2>1, SeqEqual
<1>3. ASSUME NEW a \in T, NEW b \in T, NEW c \in T
      PROVE  <<a>> \o <<b, c>> = <<a, b, c>> /\ <<a, b>> \o <<c>> = <<a, b, c>>
  <2>1. ASSUME NEW s \in Seq(T), Len(s) = 3, s[1] = a, s[2] = b, s[3] = c PROVE s = <<a, b, c>>
    BY <2>1, SeqEqual
  <2> DEFINE s == <<a>> \o <<b, c>>
             t == <<a, b>> \o <<c>>
  <2>2. s \in Seq(T) /\ Len(s) = 3 /\ s[1] = a /\ s[2] = b /\ s[3] = c
    OBVIOUS
  <2>3. t \in Seq(T) /\ Len(t) = 3 /\ t[1] = a /\ t[2] = b /\ t[3] = c
    OBVIOUS
  <2> HIDE DEF s, t
  <2>4. s = <<a, b, c>> /\ t = <<a, b, c>>
    BY <2>1, <2>2, <2>3
  <2> QED
    BY <2>4 DEF s, t
<1>4. ASSUME NEW a \in T, NEW b \in T, NEW c \in T, NEW d \in T
      PROVE  <<a, b>> \o <<c, d>> = <<a, b, c, d>> /\ <<a, b, c>> \o <<d>> = <<a, b, c, d>>
  <2>1. ASSUME NEW s \in Seq(T), Len(s) = 4, s[1] = a, s[2] = b, s[3] = c, s[4] = d PROVE s = <<a, b, c, d>>
    BY <2>1, SeqEqual
  <2> DEFINE s == <<a, b>> \o <<c, d>>
             t == <<a, b, c>> \o <<d>>
  <2>2. s \in Seq(T) /\ Len(s) = 4 /\ s[1] = a /\ s[2] = b /\ s[3] = c /\ s[4] = d
    OBVIOUS
  <2>3. t \in Seq(T) /\ Len(t) = 4 /\ t[1] = a /\ t[2] = b /\ t[3] = c /\ t[4] = d
    OBVIOUS
  <2> HIDE DEF s, t
  <2>4. s = <<a, b, c, d>> /\ t = <<a, b, c, d>>
    BY <2>1, <2>2, <2>3
  <2> QED
    BY <2>4 DEF s, t
<1> QED
  BY <1>1, <1>2, <1>3, <1>4

(* The same for the stack's operations, one form each.                       *)
LEMMA Cat2 == \A k, l \in AllOps : <<k>> \o <<l>> = <<k, l>>
  BY Cat

LEMMA Cat0 == \A k \in AllOps : <<>> \o <<k>> = <<k>> /\ <<k>> \o <<>> = <<k>>
<1>1. \A k \in AllOps : <<k>> \in Seq(AllOps)
  OBVIOUS
<1> QED
  BY <1>1, Cat

LEMMA Cat3 == \A k, l, m \in AllOps : <<k>> \o <<l, m>> = <<k, l, m>>
  BY Cat

(* What is on the stack once the head, which is not one of the operations   *)
(* with three fields, gave way to the operations of S.                      *)
LEMMA OpsAfter ==
  ASSUME todo # <<>>, NEW S, Replaced(S), NEW a, NEW n, Head(todo) = Op(a, n), a \notin {"arm", "complete"}
  PROVE  /\ \A x : Drops(x)' <=> Op("drop", x) \in S \/ (Drops(x) /\ ~(a = "drop" /\ x = n))
         /\ \A x : Releases(x)' <=> Op("release", x) \in S \/ (Releases(x) /\ ~(a = "release" /\ x = n))
         /\ \A x : FreesNode(x)' <=> Op("Future_free", x) \in S \/ (FreesNode(x) /\ ~(a = "Future_free" /\ x = n))
         /\ \A x : Settles(x)' <=> Op("settle", x) \in S \/ (Settles(x) /\ ~(a = "settle" /\ x = n))
         /\ \A x : Hooks(x)' <=> Op("hook", x) \in S \/ (Hooks(x) /\ ~(a = "hook" /\ x = n))
         /\ \A x : Tallies(x)' <=> Op("tally", x) \in S \/ (Tallies(x) /\ ~(a = "tally" /\ x = n))
         /\ \A x : Calls(x)' <=> Op("call", x) \in S \/ (Calls(x) /\ ~(a = "call" /\ x = n))
         /\ \A x, w : Resolves(x, w)' <=> Complete(x, w) \in S \/ Resolves(x, w)
         /\ \A x, w : Arms(x, w)' <=> Arm(x, w) \in S \/ Arms(x, w)
<1>1. \A c, x : AtHead(Op(c, x)) <=> c = a /\ x = n
  BY OpFacts DEF AtHead
<1>2. \A x, w : ~AtHead(Arm(x, w)) /\ ~AtHead(Complete(x, w))
  BY OpFacts DEF AtHead
<1> QED
  BY <1>1, <1>2, OpsNow

(* Future_drop, up to on_drop.                                              *)
LEMMA FutureDropStep ==
  ASSUME IInv, Future_drop
  PROVE  IInv'
<1>1. Typed /\ Ordered
  BY DEF IInv
<1>2. todo # <<>> /\ Head(todo)[1] = "drop"
  BY DEF Future_drop, Running
<1>3. PICK n \in Nodes : n = Head(todo)[2] /\ Head(todo) = Op("drop", n)
  BY <1>1, <1>2, RestFacts, Forms
<1>4. Drops(n) /\ FutureOK(n) /\ MineOK(n) /\ BlocksOK(n) /\ OwnerOK(n) /\ (n \in Leaves => LeafOK(n)) /\ (n \in Combs => CombOK(n) /\ NewOK(n))
  BY <1>1, <1>2, <1>3, RestFacts DEF Drops, IInv
<1>5. /\ Claimed(n) /\ Alive(n) /\ State(n) # CANCELLED /\ n \notin taken /\ ~Settles(n) /\ n \notin mine \cup held /\ ~Completes(n)
      /\ State(n) = READY => Waker(n) = Nop
      /\ State(n) = PENDING => Waker(n) = Nop
  BY <1>4 DEF Claimed, FutureOK, MineOK
<1>6. ~Releases(n) /\ ~FreesNode(n)
  <2>1. \A a \in {"release", "Future_free"} : Has(Op(a, n)) => AtHead(Op(a, n))
    BY <1>1, <1>2, <1>3, ClaimsOf, HeadClaims
  <2> QED
    BY <1>3, <2>1, OpFacts DEF AtHead, Releases, FreesNode
<1>7. (\A c : ~Calls(c)) /\ \A x : ~Tallies(x)
  BY <1>1, <1>3, AtOnce, OpFacts DEF AtHead
<1> DEFINE d == fut[n].on_drop
           ready == State(n) = READY
           S == {Op("release", n)} \cup (IF ready THEN {} ELSE {Op("call", d)})
<1>8. fut \in [Nodes -> Futures] /\ fut[n] \in Futures
  BY <1>1 DEF Typed
<1>9. ready \/ Unresolved(n)
  <2>1. State(n) \in PENDING .. CANCELLED
    BY <1>8 DEF Futures, State
  <2> QED
    BY <1>5, <2>1 DEF Unresolved, PENDING, WAITING, READY, CANCELLED
<1>10. ~ready => /\ n \in Leaves => d = Drp(n) /\ n \in reg
                 /\ n \in Combs => d = Cas(n) /\ Open(n)
  <2>1. ASSUME ~ready, n \in Leaves PROVE d = Drp(n) /\ n \in reg
    BY <1>4, <1>5, <1>9, <2>1 DEF LeafOK
  <2>2. ASSUME ~ready, n \in Combs PROVE d = Cas(n) /\ Open(n)
    <3>1. Open(n)
      BY <1>5, <1>9, <2>2 DEF Open
    <3>2. ~Arms(n, 0) /\ ~Arms(n, 1) /\ ~Hooks(n)
      BY <1>4, <1>5, <2>2 DEF CombOK, CallsOK
    <3> QED
      BY <2>2, <3>1, <3>2, OpenFacts DEF OpenOK
  <2> QED
    BY <2>1, <2>2
<1>11. ~ready => d \in OnDrops
  BY <1>10, EnvKinds DEF Nodes
<1>12. /\ fut' = Cancelled(fut, n)
       /\ Then((IF ready THEN <<>> ELSE <<Op("call", d)>>) \o <<Op("release", n)>>)
       /\ UNCHANGED <<kind, inputs, cnt, live, reg, mine, held, done, taken>>
  BY <1>3 DEF Future_drop, Arg, Cancelled, State
<1>13. todo' \in Seq(AllOps) /\ Ordered' /\ Replaced(S) /\ \A b : Frees(b)' <=> Frees(b)
  <2> DEFINE a == Op("call", d)
             b == Op("release", n)
  <2>1. b \in AllOps /\ Fits(b) /\ FreesIn(b) = {} /\ FreesIn(Head(todo)) = {}
    <3>1. b \in AllOps
      BY SMT DEF AllOps, Op
    <3>2. Fits(b)
      BY <1>1, <1>2, <1>3, ClaimsOf, FitsFacts
    <3> QED
      BY <1>3, <3>1, <3>2, ClaimsOf
  <2>2. CASE ready
    <3>1. (IF ready THEN <<>> ELSE <<Op("call", d)>>) \o <<Op("release", n)>> = <<b>>
      <4>1. <<>> \o <<b>> = <<b>>
        BY SMT
      <4> QED
        BY <2>2, <4>1
    <3>2. todo' = <<b>> \o Rest
      BY <1>2, <1>12, <3>1, ThenRest
    <3>3. S = {b}
      BY <2>2
    <3> HIDE DEF b, S
    <3>4. todo' \in Seq(AllOps) /\ Ordered' /\ Replaced({b}) /\ FreesAre(FreesIn(b))
      BY <1>1, <2>1, <3>2, Push1
    <3> QED
      BY <2>1, <3>3, <3>4 DEF FreesAre
  <2>3. CASE ~ready
    <3>1. a \in AllOps /\ Fits(a) /\ FreesIn(a) = {} /\ Above(a, b)
      <4>1. a \in AllOps
        BY <1>11, <2>3, SMT DEF AllOps, Op
      <4>2. Claims(a) = {} /\ ~Up(a)
        <5>1. d \notin Resuming \cup Hooked
          BY <1>10, <2>3, EnvKinds DEF Nodes
        <5> QED
          BY <5>1, ClaimsOf
      <4>3. Fits(a)
        BY <1>1, <4>2, FitsFacts
      <4> QED
        BY <4>1, <4>2, <4>3, ClaimsOf, OpFacts DEF Above
    <3>2. (IF ready THEN <<>> ELSE <<Op("call", d)>>) \o <<Op("release", n)>> = <<a, b>>
      <4> HIDE DEF a, b
      <4>1. <<a>> \o <<b>> = <<a, b>>
        BY <2>1, <3>1, Cat2
      <4> QED
        BY <2>3, <4>1 DEF a, b
    <3>3. todo' = <<a, b>> \o Rest
      BY <1>2, <1>12, <3>2, ThenRest
    <3>4. S = {a, b}
      BY <2>3
    <3> HIDE DEF a, b, S
    <3>5. todo' \in Seq(AllOps) /\ Ordered' /\ Replaced({a, b}) /\ FreesAre(FreesIn(a) \cup FreesIn(b))
      BY <1>1, <2>1, <3>1, <3>3, Push2
    <3> QED
      BY <2>1, <3>1, <3>4, <3>5 DEF FreesAre
  <2> QED
    BY <2>2, <2>3
<1>14. /\ fut' \in [Nodes -> Futures] /\ \A x \in Nodes : x # n => fut'[x] = fut[x]
       /\ State(n)' = CANCELLED /\ Waker(n)' = Waker(n) /\ fut'[n].on_drop = fut[n].on_drop /\ fut'[n].value = fut[n].value
  BY <1>8, <1>12, CancelledFut DEF State, Waker
<1>15. Typed' /\ Fixed
  BY <1>1, <1>12, <1>13, <1>14 DEF Typed, Fixed
<1>16. /\ \A x : /\ Drops(x)' <=> Drops(x) /\ x # n
                 /\ Releases(x)' <=> Releases(x) \/ x = n
                 /\ FreesNode(x)' <=> FreesNode(x)
                 /\ Settles(x)' <=> Settles(x)
                 /\ Hooks(x)' <=> Hooks(x)
                 /\ ~Tallies(x)'
                 /\ Calls(x)' <=> ~ready /\ x = d
       /\ \A x, w : (Resolves(x, w)' <=> Resolves(x, w)) /\ (Arms(x, w)' <=> Arms(x, w))
  <2>1. \A c, x : Op(c, x) \in S <=> (c = "release" /\ x = n) \/ (~ready /\ c = "call" /\ x = d)
    BY OpFacts
  <2>2. \A x, w : Arm(x, w) \notin S /\ Complete(x, w) \notin S
    BY OpFacts
  <2> HIDE DEF S, d, ready
  <2> QED
    BY <1>2, <1>3, <1>7, <1>13, <2>1, <2>2, OpsAfter
<1>17. ~ready => \A x, r : d # On(x, r) /\ d # Resume(x) /\ d # Reap(x)
  BY <1>10, Owners DEF Nodes
<1>18. /\ \A x : ~Calls(Resume(x))' /\ ~Calls(Reap(x))' /\ \A r : ~Calls(On(x, r))'
       /\ \A x : (Calls(Cas(x))' => x = n) /\ (Calls(Drp(x))' => x = n)
       /\ n \in Combs => (Calls(Cas(n))' <=> ~ready)
       /\ n \in Leaves => (Calls(Drp(n))' <=> ~ready)
  <2>1. \A x : (~ready => d # Cas(x) \/ x = n) /\ (~ready => d # Drp(x) \/ x = n)
    BY <1>10, Owners DEF Nodes
  <2> HIDE DEF d, ready
  <2> QED
    BY <1>10, <1>16, <1>17, <2>1
<1>19. \A x : /\ x # n => (Claimed(x)' <=> Claimed(x))
              /\ Completes(x)' <=> Completes(x)
  BY <1>16 DEF Claimed, Completes
<1>20. \A x : (Runs(x)' <=> Runs(x)) /\ \A r : Unarmed(x, r)' <=> Unarmed(x, r)
  BY <1>7, <1>16, <1>18, <1>19 DEF Runs, Unarmed
<1>21. Alone(n)
  <2> SUFFICES ASSUME NEW x \in Nodes, x # n PROVE Same(x) /\ NodeBlocksKept(x)
    BY DEF Alone
  <2>1. OpsSame(x)
    BY <1>7, <1>16, <1>18 DEF OpsSame
  <2>2. Same(x)
    BY <1>12, <1>14, <2>1 DEF Same, Alive
  <2> QED
    BY <1>12, <1>13, <2>2 DEF NodeBlocksKept, BlockKept
<1>22. /\ (Alive(n)' <=> Alive(n)) /\ ~Unresolved(n)' /\ ~Virgin(n)' /\ ~Virgin(n) /\ Claimed(n)'
       /\ State(n)' # READY /\ State(n)' # PENDING /\ State(n)' # WAITING /\ Lent(n)' /\ Releases(n)'
  BY <1>5, <1>12, <1>14, <1>16 DEF Alive, Unresolved, Virgin, Claimed, Lent, PENDING, WAITING, READY, CANCELLED
<1>23. Waker(n) # Nop => Lent(n)
  BY <1>5, <1>9 DEF Lent, Unresolved
<1>24. FutureOK(n)' /\ MineOK(n)'
  <2>1. \A p, r : In(p, r)' = In(p, r)
    BY <1>15, InFrame
  <2>2. FutureOK(n)'
    <3>1. ~Drops(n)' /\ ~FreesNode(n)' /\ ~Settles(n)' /\ ~Completes(n)' /\ n \notin taken'
      BY <1>5, <1>6, <1>12, <1>16, <1>19
    <3>2. Waker(n)' \in {Nop, Resume(n), Reap(n)} \/ \E p \in Combs, r \in {0, 1} : In(p, r)' = n /\ Waker(n)' = On(p, r)
      BY <1>4, <1>14, <2>1 DEF FutureOK
    <3> QED
      BY <1>5, <1>14, <1>22, <3>1, <3>2 DEF FutureOK
  <2>3. MineOK(n)'
    BY <1>5, <1>12, <1>18, <1>22 DEF MineOK
  <2> QED
    BY <2>2, <2>3
<1>25. n \in Leaves => LeafOK(n)'
  <2> SUFFICES ASSUME n \in Leaves PROVE LeafOK(n)'
    OBVIOUS
  <2>1. n \in reg' => Calls(Drp(n))'
    <3>1. n \in reg => Unresolved(n)
      BY <1>4, <1>7 DEF LeafOK
    <3>2. Unresolved(n) => ~ready
      BY DEF Unresolved, PENDING, WAITING, READY
    <3> QED
      BY <1>12, <1>18, <3>1, <3>2
  <2>2. Calls(Drp(n))' => n \in reg' /\ fut'[n].on_drop = Drp(n)
    BY <1>10, <1>12, <1>14, <1>18
  <2>3. fut'[n].on_drop \in {Nop, Drp(n)} /\ ~Completes(n)' /\ (n \in reg' => n \notin done')
    BY <1>4, <1>5, <1>12, <1>14, <1>19 DEF LeafOK
  <2> QED
    BY <1>5, <1>14, <1>22, <2>1, <2>2, <2>3 DEF LeafOK
<1>26. ASSUME n \in Combs
       PROVE  /\ (Open(n)' <=> Open(n)) /\ (Full(n)' <=> Full(n)) /\ (Resolved(n)' <=> Resolved(n))
              /\ \A v : Yields(n, v)' <=> Yields(n, v)
  <2>1. Open(n)' <=> ~ready
    BY <1>5, <1>18, <1>22, <1>26 DEF Open
  <2>2. Open(n) <=> ~ready
    BY <1>7, <1>10, <1>26 DEF Open, Unresolved, PENDING, WAITING, READY
  <2>3. ready => fut[n].value # None
    BY <1>4, <1>22, <1>26, CleanupAssumption DEF CombOK, BuiltOK, Resolved
  <2>4. ~ready => fut[n].value = None
    BY <1>4, <1>9, <1>26 DEF CombOK, CallsOK
  <2>5. Resolved(n)' <=> Resolved(n)
    BY <1>5, <1>9, <1>14, <2>3, <2>4 DEF Resolved, PENDING, WAITING, READY, CANCELLED, Unresolved
  <2> QED
    BY <1>12, <1>14, <1>16, <1>19, <2>1, <2>2, <2>5 DEF Yields, Full
<1>27. BlocksOK(n)'
  <2>1. OneOf(Resume(n), Lent(n) /\ Waker(n) = Resume(n))' /\ OneOf(Reap(n), Lent(n) /\ Waker(n) = Reap(n))'
    BY <1>4, <1>12, <1>13, <1>14, <1>22, <1>23, NotNop DEF BlocksOK, OneOf
  <2>2. n \in Combs => OneOf(Cnt(n), IsJoin(n) /\ Open(n))'
    BY <1>4, <1>12, <1>13, <1>15, <1>26, InFrame DEF BlocksOK, OneOf
  <2>3. n \in Leaves => OneOf(Cb(n), n \in reg)'
    BY <1>4, <1>12, <1>13 DEF BlocksOK, OneOf
  <2> QED
    BY <1>4, <1>12, <1>14, <1>22, <2>1, <2>2, <2>3 DEF BlocksOK
<1>28. ASSUME n \in Combs
       PROVE  CombOK(n)' /\ NewOK(n)' /\ \A r \in {0, 1} : Holder(n, r) => Holder(n, r)'
  <2>1. PICK x \in Nodes, y \in Nodes : In(n, 0) = x /\ In(n, 1) = y
    BY <1>1, <1>28, InNodes
  <2>2. KidSame(x) /\ KidSame(y)
    BY <1>15, <1>21, <1>28, <2>1, AloneFacts
  <2>3. CallsOK(n)'
    BY <1>4, <1>5, <1>9, <1>12, <1>14, <1>16, <1>18, <1>22, <1>28 DEF CombOK, CallsOK
  <2>4. NewOK(n)'
    BY <1>22 DEF NewOK
  <2>5. Like(n)
    BY <1>7, <1>12, <1>14, <1>16, <1>18, <1>22, <1>26, <1>28 DEF Like
  <2>6. ~Virgin(n)' => BuiltOK(n)'
    BY <1>4, <1>15, <1>28, <2>1, <2>2, <2>5, BuiltFrame DEF CombOK
  <2>7. \A r \in {0, 1} : Holder(n, r) => Holder(n, r)'
    BY <1>15, <1>26, <1>28, InFrame DEF Holder
  <2> QED
    BY <2>3, <2>4, <2>6, <2>7 DEF CombOK
<1>29. OwnerOK(n)'
  BY <1>22 DEF OwnerOK
<1>30. Faint(n)
  BY <1>5, <1>12, <1>22, <1>4 DEF Faint, Gone, Spared
<1>31. (\E D \in SUBSET Nodes : Doomed(D))'
  <2>1. PICK D \in SUBSET Nodes : Doomed(D)
    BY DEF IInv
  <2>2. n \in D
    BY <1>4, <2>1 DEF Doomed
  <2>3. \A x \in Nodes : Drops(x)' \/ Calls(Cas(x))' => x \in D
    BY <1>16, <1>18, <2>1, <2>2 DEF Doomed
  <2>4. \A x \in D : ~Runs(x)'
    BY <1>20, <2>1 DEF Doomed
  <2> QED
    BY <1>15, <2>1, <2>3, <2>4, DoomedFrame
<1>32. \A p \in Combs, r \in {0, 1} : BlockKept(On(p, r))
  BY <1>12, <1>13 DEF BlockKept
<1>33. \A r \in {0, 1} : (Unarmed(n, r)' <=> Unarmed(n, r)) /\ (Calls(On(n, r))' <=> Calls(On(n, r)))
  BY <1>7, <1>18, <1>20
<1>34. \A p \in Combs, r \in {0, 1} : (Lent(n) /\ Waker(n) = On(p, r))' <=> (Lent(n) /\ Waker(n) = On(p, r))
  <2>1. \A p \in Combs, r \in {0, 1} : On(p, r)' = On(p, r) /\ On(p, r) # Nop
    BY NotNop DEF On
  <2> QED
    BY <1>14, <1>22, <1>23, <2>1
<1>35. NodeOK(n)'
  BY <1>24, <1>25, <1>27, <1>28, <1>29 DEF NodeOK
<1> HIDE DEF d, ready, S
<1> QED
  BY <1>13, <1>15, <1>21, <1>22, <1>28, <1>30, <1>31, <1>32, <1>33, <1>34, <1>35, SoleStep

(* A combinator has two inputs.                                             *)
LEMMA KidsDiffer == ASSUME Typed, NEW p \in Combs PROVE In(p, 0) # In(p, 1)
  BY TreesAssumption, SMT DEF Typed, In

(* An input that was dealt with, and still holds what it held.              *)
Moved(z) ==
  /\ NodeOK(z)'
  /\ z \in Combs => ~Virgin(z) /\ ~Virgin(z)' /\ \A r \in {0, 1} : Holder(z, r) => Holder(z, r)'

(* All but a combinator and its inputs stays as it was.                     *)
LEMMA Family ==
  ASSUME IInv, Fixed, Typed', Ordered', (\E D \in SUBSET Nodes : Doomed(D))',
         NEW p \in Combs, NEW x \in Nodes, NEW y \in Nodes, In(p, 0) = x, In(p, 1) = y,
         ~Virgin(p), ~Virgin(p)', p \in mine \cup held \/ KidSame(p) \/ Faint(p), NodeOK(p)',
         \A z \in Nodes : z \notin {p, x, y} => Same(z) /\ NodeBlocksKept(z),
         \A z \in {x, y} : Moved(z) \/ (Same(z) /\ NodeBlocksKept(z) /\ OwnerOK(z)'),
         \A q \in Combs, r \in {0, 1} : HookOK(q, r)' \/ (BlockKept(On(q, r)) /\ (HookNeed(q, r)' <=> HookNeed(q, r)))
  PROVE  IInv'
<1> DEFINE M == {p} \cup {z \in {x, y} : Moved(z)}
<1>1. Typed /\ UniqueOK /\ p \in Nodes
  BY InNodes DEF IInv
<1>2. \A z : z \in M <=> z = p \/ (z \in {x, y} /\ Moved(z))
  OBVIOUS
<1>3. M \in SUBSET Nodes
  BY <1>1
<1> HIDE DEF M
<1>4. UniqueOK'
  <2>1. ASSUME NEW c \in Combs PROVE Virgin(c)' <=> Virgin(c)
    <3>1. CASE c = p
      BY <3>1
    <3>2. CASE c # p /\ Moved(c)
      BY <3>2 DEF Moved
    <3>3. CASE c # p /\ ~Moved(c)
      <4>1. Same(c)
        BY <3>3 DEF Nodes
      <4> QED
        BY <4>1, StateFrame
    <3> QED
      BY <3>1, <3>2, <3>3
  <2> QED
    BY <1>1, <2>1, UniqueFrame
<1>5. \A z \in Nodes \ M : Same(z) /\ NodeBlocksKept(z)
  BY <1>2
<1>6. \A z \in M : NodeOK(z)'
  BY <1>2 DEF Moved
<1>7. ASSUME NEW q \in Combs \ M, NEW r \in {0, 1}, NEW z \in M, In(q, r) = z PROVE Virgin(q) \/ KidSame(z) \/ Faint(z)
  <2>1. CASE z = p
    BY <1>7, <2>1, MineView
  <2>2. CASE z \in {x, y}
    <3>1. PICK u \in {0, 1} : In(p, u) = z
      BY <2>2
    <3>2. In(q, r) = In(p, u)
      BY <1>7, <3>1
    <3>3. Virgin(q) \/ q = p
      BY <1>1, <3>2 DEF UniqueOK
    <3> QED
      BY <1>2, <3>3
  <2> QED
    BY <1>2, <2>1, <2>2
<1>8. ASSUME NEW z \in Nodes \ M
      PROVE  OwnerOK(z)' \/ \A q \in M \cap Combs, r \in {0, 1} : In(q, r) = z /\ Holder(q, r) => Holder(q, r)'
  <2>1. CASE z \in {x, y}
    BY <1>2, <2>1
  <2>2. CASE z \notin {x, y}
    <3> SUFFICES ASSUME NEW q \in M \cap Combs, NEW r \in {0, 1}, In(q, r) = z, Holder(q, r) PROVE Holder(q, r)'
      OBVIOUS
    <3>1. q # p
      BY <2>2
    <3> QED
      BY <1>2, <3>1 DEF Moved
  <2> QED
    BY <2>1, <2>2
<1> QED
  BY <1>3, <1>4, <1>5, <1>6, <1>7, <1>8, StepFrame

(* An input of which something was freed, dropped or settled.               *)
LEMMA ClaimMoved ==
  ASSUME IInv, Fixed, NEW p \in Combs, NEW z \in {In(p, 0), In(p, 1)}, ~Virgin(p), p \in mine \cup held \/ KidSame(p) \/ Faint(p),
         NEW x, NEW y, In(p, 0) = x, In(p, 1) = y, \A a \in Nodes : a \notin {p, x, y} => Same(a),
         Claiming(z), OwnerOK(z)'
  PROVE  Moved(z)
<1>1. Typed /\ UniqueOK /\ z \in Nodes
  BY InNodes DEF IInv
<1>2. ~Virgin(z) /\ (Virgin(z)' <=> Virgin(z))
  BY DEF Claiming, Virgin, State, Alive
<1>3. ASSUME z \in Combs, NEW r \in {0, 1}, NEW a \in Nodes, In(z, r) = a PROVE KidSame(a) \/ Faint(a)
  <2>1. CASE a = p
    BY <1>2, <1>3, <2>1, MineView
  <2>2. CASE a \in {x, y}
    <3>1. PICK u \in {0, 1} : In(p, u) = a
      BY <2>2
    <3>2. In(z, r) = In(p, u)
      BY <1>3, <3>1
    <3>3. z = p
      BY <1>1, <1>2, <1>3, <3>2 DEF UniqueOK
    <3> QED
      BY <1>1, <3>3, InNodes, Acyclic DEF Typed
  <2>3. CASE a \notin {p, x, y}
    BY <2>3, KidStates
  <2> QED
    BY <2>1, <2>2, <2>3
<1>4. NodeOK(z)'
  BY <1>1, <1>3, ClaimFrame
<1>5. ASSUME z \in Combs, NEW r \in {0, 1}, Holder(z, r) PROVE Holder(z, r)'
  <2>1. ~Completes(z) /\ ~Completes(z)' /\ \A v \in 0 .. 2 : ~Resolves(z, v)
    BY DEF Claiming, Runs, Completes
  <2>2. State(z)' = State(z) /\ (Alive(z)' <=> Alive(z)) /\ (Calls(Cas(z))' <=> Calls(Cas(z))) /\ (z \in taken' <=> z \in taken) /\ fut'[z] = fut[z]
    BY DEF Claiming, State
  <2>3. Open(z) => Open(z)'
    BY <2>1, <2>2 DEF Open, Unresolved
  <2>4. \A v \in 0 .. 2 : Yields(z, v) => Yields(z, v)'
    BY <2>1, <2>2 DEF Yields, Resolved
  <2>5. IsJoin(z)' <=> IsJoin(z)
    BY InFrame
  <2> QED
    BY <1>5, <2>3, <2>4, <2>5 DEF Holder
<1> QED
  BY <1>2, <1>4, <1>5 DEF Moved

(* CallCascade: a dropped combinator drops its inputs.                      *)
LEMMA CascadeStep ==
  ASSUME IInv, CallCascade
  PROVE  IInv'
<1>1. Typed /\ Ordered
  BY DEF IInv
<1>2. todo # <<>> /\ Head(todo)[1] = "call" /\ Head(todo)[2][1] = "cas"
  BY DEF CallCascade, Calling, Running, Arg
<1>3. PICK p \in Combs : p = Head(todo)[2][2] /\ Head(todo) = Op("call", Cas(p))
  BY <1>1, <1>2, RestFacts, Forms
<1>4. /\ p \in Nodes /\ p \notin Leaves /\ Calls(Cas(p))
      /\ FutureOK(p) /\ MineOK(p) /\ BlocksOK(p) /\ OwnerOK(p) /\ CombOK(p) /\ NewOK(p) /\ CallsOK(p)
  BY <1>1, <1>2, <1>3, RestFacts, InNodes DEF Calls, IInv, CombOK
<1>5. State(p) = CANCELLED /\ Alive(p) /\ Open(p) /\ Releases(p) /\ Claimed(p) /\ p \notin mine \cup held
  BY <1>4 DEF CallsOK, Open, FutureOK, Claimed, MineOK
<1>6. /\ \A c : Calls(c) <=> c = Cas(p)
      /\ \A x : ~Tallies(x)
  <2>1. \A c : Calls(c) => Op("call", c) = Op("call", Cas(p))
    BY <1>1, <1>3, AtOnce DEF AtHead
  <2>2. \A x : Tallies(x) => Op("tally", x) = Op("call", Cas(p))
    BY <1>1, <1>3, AtOnce DEF AtHead
  <2> QED
    BY <1>4, <2>1, <2>2, OpFacts
<1>7. BuiltOK(p) /\ OpenOK(p) /\ ~Virgin(p) /\ \A r \in {0, 1} : KidOK(p, r)
  BY <1>5, OpenFacts
<1>8. ~Arms(p, 0) /\ ~Arms(p, 1) /\ ~Hooks(p) /\ \A r \in {0, 1} : ~Unarmed(p, r) /\ ~Calls(On(p, r))
  BY <1>4, <1>5, <1>6, Owners DEF CallsOK, Unarmed
<1>9. PICK x \in Nodes, y \in Nodes : In(p, 0) = x /\ In(p, 1) = y
  BY <1>1, InNodes
<1>10. x # y /\ x # p /\ y # p
  BY <1>1, <1>9, KidsDiffer, Above2
<1>11. ASSUME NEW z \in {x, y}
       PROVE  /\ Alive(z) /\ ~Claimed(z) /\ State(z) \in {WAITING, READY}
              /\ State(z) = READY => Waker(z) = Nop
  <2>1. PICK r \in {0, 1} : In(p, r) = z
    BY <1>9
  <2>2. Armed(p, r) \/ (IsJoin(p) /\ Got(p, r))
    BY <1>7, <1>8 DEF KidOK
  <2> QED
    BY <2>1, <2>2 DEF Armed, Got, Kept, Untaken, WAITING, READY
<1>12. PICK D \in SUBSET Nodes : Doomed(D)
  BY DEF IInv
<1>13. p \in D /\ x \in D /\ y \in D /\ \A z \in {x, y} : ~Runs(z)
  BY <1>4, <1>9, <1>12 DEF Doomed
<1> DEFINE e == FreeAll({Cnt(p)})
           a == Op("drop", x)
           b == Op("drop", y)
           S == {a, b} \cup (IF IsJoin(p) THEN {e} ELSE {})
<1>14. Then((IF IsJoin(p) THEN <<e>> ELSE <<>>) \o <<a, b>>) /\ UNCHANGED <<kind, inputs, fut, cnt, live, reg, mine, held, done, taken>>
  BY <1>3, <1>9 DEF CallCascade, Cascade, Arg
<1>15. IsJoin(p) <=> Cnt(p) \in live /\ ~Frees(Cnt(p))
  BY <1>4, <1>5 DEF BlocksOK, OneOf
<1>16. todo' \in Seq(AllOps) /\ Ordered' /\ Replaced(S) /\ \A c : Frees(c)' <=> Frees(c) \/ (IsJoin(p) /\ c = Cnt(p))
  <2>1. a \in AllOps /\ b \in AllOps
    BY SMT DEF AllOps, Op
  <2>2. FreesIn(a) = {} /\ FreesIn(b) = {} /\ FreesIn(Head(todo)) = {} /\ FreesIn(e) = {Cnt(p)}
    BY <1>3, ClaimsOf
  <2>3. Fits(a) /\ Fits(b)
    BY <1>1, <1>11, FitsFacts
  <2>4. Above(a, b)
    <3>1. Claims(a) = {Fut(x)} /\ Claims(b) = {Fut(y)} /\ ~Up(a) /\ b[1] = "drop"
      BY ClaimsOf, OpFacts
    <3> QED
      BY <1>10, <3>1, Owners DEF Above
  <2>5. CASE ~IsJoin(p)
    <3>1. (IF IsJoin(p) THEN <<e>> ELSE <<>>) \o <<a, b>> = <<a, b>>
      <4> HIDE DEF a, b
      <4>1. <<>> \o <<a, b>> = <<a, b>>
        BY SMT
      <4> QED
        BY <2>5, <4>1
    <3>2. todo' = <<a, b>> \o Rest /\ S = {a, b}
      BY <1>2, <1>14, <2>5, <3>1, ThenRest
    <3> HIDE DEF a, b, S
    <3>3. todo' \in Seq(AllOps) /\ Ordered' /\ Replaced({a, b}) /\ FreesAre(FreesIn(a) \cup FreesIn(b))
      BY <1>1, <2>1, <2>3, <2>4, <3>2, Push2
    <3> QED
      BY <2>2, <2>5, <3>2, <3>3 DEF FreesAre
  <2>6. CASE IsJoin(p)
    <3>1. e \in AllOps /\ Fits(e)
      <4>1. {Cnt(p)} \in SUBSET Envs
        BY EnvKinds
      <4>2. e \in AllOps
        BY <4>1, SMT DEF AllOps, FreeAll, Op
      <4> QED
        BY <1>1, <1>15, <2>6, <4>1, <4>2, FitsFacts
    <3>2. Above(e, a) /\ Above(e, b)
      <4>1. Claims(a) = {Fut(x)} /\ Claims(b) = {Fut(y)} /\ Claims(e) = {Cnt(p)} /\ ~Up(e) /\ a[1] = "drop" /\ b[1] = "drop"
        BY ClaimsOf, OpFacts
      <4> QED
        BY <4>1, Owners DEF Above
    <3>3. (IF IsJoin(p) THEN <<e>> ELSE <<>>) \o <<a, b>> = <<e, a, b>>
      <4> HIDE DEF e, a, b
      <4>1. <<e>> \o <<a, b>> = <<e, a, b>>
        BY <2>1, <3>1, Cat3
      <4> QED
        BY <2>6, <4>1
    <3>4. todo' = <<e, a, b>> \o Rest /\ S = {e, a, b}
      BY <1>2, <1>14, <2>6, <3>3, ThenRest
    <3> HIDE DEF e, a, b, S
    <3>5. todo' \in Seq(AllOps) /\ Ordered' /\ Replaced({e, a, b}) /\ FreesAre(FreesIn(e) \cup FreesIn(a) \cup FreesIn(b))
      BY <1>1, <2>1, <2>3, <2>4, <3>1, <3>2, <3>4, Push3
    <3> QED
      BY <2>2, <2>6, <3>4, <3>5 DEF FreesAre
  <2> QED
    BY <2>5, <2>6
<1>17. Typed' /\ Fixed
  BY <1>1, <1>14, <1>16 DEF Typed, Fixed
<1>18. /\ \A z : /\ Drops(z)' <=> Drops(z) \/ z = x \/ z = y
                 /\ Releases(z)' <=> Releases(z)
                 /\ FreesNode(z)' <=> FreesNode(z)
                 /\ Settles(z)' <=> Settles(z)
                 /\ Hooks(z)' <=> Hooks(z)
                 /\ ~Tallies(z)' /\ ~Calls(z)'
       /\ \A z, w : (Resolves(z, w)' <=> Resolves(z, w)) /\ (Arms(z, w)' <=> Arms(z, w))
  <2>1. \A c, z : c # "free" => (Op(c, z) \in S <=> c = "drop" /\ (z = x \/ z = y))
    BY OpFacts
  <2>2. \A z, w : Arm(z, w) \notin S /\ Complete(z, w) \notin S
    BY OpFacts
  <2> HIDE DEF S
  <2> QED
    BY <1>2, <1>3, <1>6, <1>16, <2>1, <2>2, OpsAfter
<1>19. \A z : /\ Claimed(z)' <=> Claimed(z) \/ z = x \/ z = y
              /\ Completes(z)' <=> Completes(z)
  BY <1>18 DEF Claimed, Completes
<1>20. \A z : (Runs(z)' <=> Runs(z)) /\ \A r : Unarmed(z, r)' <=> Unarmed(z, r)
  <2>1. \A z, s : ~Calls(On(z, s))
    BY <1>6, Owners
  <2> QED
    BY <1>6, <1>18, <1>19, <2>1 DEF Runs, Unarmed
<1>21. \A z : Alive(z)' <=> Alive(z)
  BY <1>14 DEF Alive
<1>22. \A z \in Nodes : z # p => NodeBlocksKept(z)
  <2> SUFFICES ASSUME NEW z \in Nodes, z # p PROVE NodeBlocksKept(z)
    OBVIOUS
  <2>1. \A c : c # Cnt(p) => BlockKept(c)
    BY <1>14, <1>16 DEF BlockKept
  <2>2. Resume(z) # Cnt(p) /\ Reap(z) # Cnt(p) /\ Cb(z) # Cnt(p) /\ Cnt(z) # Cnt(p)
    BY Owners
  <2> QED
    BY <1>14, <2>1, <2>2 DEF NodeBlocksKept
<1>23. \A z \in Nodes : z \notin {p, x, y} => Same(z) /\ NodeBlocksKept(z)
  <2> SUFFICES ASSUME NEW z \in Nodes, z \notin {p, x, y} PROVE Same(z)
    BY <1>22
  <2>1. /\ \A c : Cas(p) # Resume(c) /\ Cas(p) # Reap(c) /\ Cas(p) # Drp(c) /\ (c # p => Cas(p) # Cas(c))
        /\ \A c, s : Cas(p) # On(c, s)
    BY Owners
  <2>2. OpsSame(z)
    BY <1>6, <1>18, <2>1 DEF OpsSame
  <2> QED
    BY <1>14, <1>21, <2>2 DEF Same
<1>24. \A z : State(z)' = State(z) /\ Waker(z)' = Waker(z) /\ (Virgin(z)' <=> Virgin(z)) /\ (Unresolved(z)' <=> Unresolved(z))
  BY <1>14, <1>21 DEF State, Waker, Virgin, Unresolved
<1>25. (IsJoin(p)' <=> IsJoin(p)) /\ In(p, 0)' = x /\ In(p, 1)' = y
       /\ \A q, r : In(q, r)' = In(q, r)
  BY <1>9, <1>17, InFrame
<1>26. ~Open(p)' /\ ~Unresolved(p) /\ ~Full(p)' /\ ~Full(p) /\ ~Resolved(p)' /\ (\A v \in 0 .. 2 : ~Yields(p, v)' /\ ~Resolves(p, v)') /\ (Lent(p)' <=> Lent(p))
  <2>1. ~Unresolved(p) /\ State(p) # READY
    BY <1>5 DEF Unresolved, PENDING, WAITING, READY, CANCELLED
  <2>2. ~Completes(p)
    BY <1>4, <2>1 DEF FutureOK
  <2>3. Lent(p) /\ Lent(p)'
    BY <1>5, <1>21, <1>24 DEF Lent
  <2>4. ~Resolved(p) /\ ~Resolved(p)'
    BY <1>4, <1>14, <1>24, <2>1 DEF CallsOK, Resolved
  <2> QED
    BY <1>18, <1>19, <1>24, <2>1, <2>2, <2>3, <2>4 DEF Open, Full, Yields, Completes
<1>27. NodeOK(p)'
  <2>1. FutureOK(p)'
    BY <1>4, <1>10, <1>14, <1>18, <1>19, <1>21, <1>24, <1>25 DEF FutureOK, Gone
  <2>2. MineOK(p)'
    <3>1. State(p)' # WAITING
      BY <1>5, <1>24 DEF WAITING, CANCELLED
    <3> QED
      BY <1>5, <1>14, <1>18, <3>1 DEF MineOK
  <2>3. BlocksOK(p)'
    <3>1. OneOf(Resume(p), Lent(p) /\ Waker(p) = Resume(p))' /\ OneOf(Reap(p), Lent(p) /\ Waker(p) = Reap(p))'
      BY <1>4, <1>14, <1>16, <1>24, <1>26, Owners DEF BlocksOK, OneOf
    <3>2. OneOf(Cnt(p), IsJoin(p) /\ Open(p))'
      BY <1>4, <1>5, <1>14, <1>15, <1>16, <1>26 DEF BlocksOK, OneOf
    <3> QED
      BY <1>4, <1>14, <1>21, <3>1, <3>2 DEF BlocksOK
  <2>4. OwnerOK(p)'
    BY <1>5, <1>19, <1>24 DEF OwnerOK, READY, CANCELLED
  <2>5. CallsOK(p)'
    BY <1>4, <1>8, <1>14, <1>18, <1>24 DEF CallsOK
  <2>6. BuiltOK(p)'
    <3>1. Gone(x)' /\ Gone(y)'
      BY <1>19 DEF Gone
    <3>2. \A r \in {0, 1} : (In(p, r) \notin mine \cup held /\ ~Virgin(In(p, r)))'
      BY <1>7, <1>9, <1>14, <1>24, <1>25 DEF BuiltOK
    <3> QED
      BY <1>25, <1>26, <3>1, <3>2 DEF BuiltOK
  <2>7. NewOK(p)' /\ CombOK(p)'
    BY <1>7, <1>24, <2>5, <2>6 DEF NewOK, CombOK
  <2> QED
    BY <1>4, <2>1, <2>2, <2>3, <2>4, <2>7 DEF NodeOK
<1>28. KidSame(p)
  BY <1>5, <1>10, <1>14, <1>18, <1>19, <1>21 DEF KidSame
<1>29. ASSUME NEW z \in {x, y} PROVE Moved(z)
  <2>1. z \in Nodes /\ z # p /\ FutureOK(z) /\ MineOK(z)
    BY <1>10 DEF IInv
  <2>2. Alive(z) /\ ~Claimed(z) /\ State(z) \in {WAITING, READY} /\ (State(z) = READY => Waker(z) = Nop) /\ ~Runs(z)
    BY <1>11, <1>13
  <2>3. z \notin mine \cup held /\ ~Virgin(z)
    <3>1. PICK r \in {0, 1} : In(p, r) = z
      BY <1>9
    <3> QED
      BY <1>7, <3>1 DEF BuiltOK
  <2>4. z \notin taken /\ ~Settles(z)
    <3>1. State(z) = WAITING => z \notin taken /\ ~Settles(z)
      BY <2>1 DEF FutureOK, WAITING, READY
    <3>2. ASSUME State(z) = READY PROVE z \notin taken /\ ~Settles(z)
      <4>1. PICK r \in {0, 1} : In(p, r) = z
        BY <1>9
      <4>2. Armed(p, r) \/ Got(p, r)
        BY <1>7, <1>8 DEF KidOK
      <4> QED
        BY <3>2, <4>1, <4>2 DEF Armed, Got, Kept, Untaken, WAITING, READY
    <3> QED
      BY <2>2, <3>1, <3>2
  <2>5. ~Calls(Resume(z)) /\ ~Calls(Reap(z)) /\ ~Calls(Cas(z)) /\ ~Calls(Drp(z))
    BY <1>6, <2>1, Owners
  <2>6. State(z) # CANCELLED
    BY <2>2 DEF WAITING, READY, CANCELLED
  <2>7. NodeBlocksKept(z)
    BY <1>22, <2>1
  <2>8. Claiming(z)
    BY <1>14, <1>18, <1>19, <1>20, <1>21, <2>2, <2>3, <2>4, <2>5, <2>6, <2>7 DEF Claiming
  <2>9. OwnerOK(z)'
    BY <1>18, <1>19, <1>24, <1>25, <2>2 DEF OwnerOK
  <2>10. \A c \in Nodes : c \notin {p, x, y} => Same(c)
    BY <1>23
  <2> QED
    BY <1>7, <1>9, <1>17, <1>28, <2>8, <2>9, <2>10, ClaimMoved
<1>30. (\E K \in SUBSET Nodes : Doomed(K))'
  <2>1. \A z \in Nodes : Drops(z)' \/ Calls(Cas(z))' => z \in D
    BY <1>12, <1>13, <1>18 DEF Doomed
  <2>2. \A z \in D : ~Runs(z)'
    BY <1>12, <1>20 DEF Doomed
  <2> QED
    BY <1>12, <1>17, <2>1, <2>2, DoomedFrame
<1>31. ASSUME NEW q \in Combs, NEW r \in {0, 1} PROVE BlockKept(On(q, r)) /\ (HookNeed(q, r)' <=> HookNeed(q, r))
  <2>1. PICK z \in Nodes : In(q, r) = z /\ In(q, r)' = z
    BY <1>1, <1>25, InNodes
  <2>2. Lent(z)' <=> Lent(z)
    <3>1. Waker(z) # Cas(p)
      BY <1>4, WakerOn
    <3> QED
      BY <1>6, <1>18, <1>21, <1>24, <3>1 DEF Lent
  <2>3. On(q, r) # Cnt(p)
    BY Owners
  <2>4. BlockKept(On(q, r))
    BY <1>14, <1>16, <2>3 DEF BlockKept
  <2> QED
    BY <1>20, <1>24, <2>1, <2>2, <2>4 DEF HookNeed
<1> HIDE DEF a, b, e, S
<1> QED
  BY <1>7, <1>9, <1>16, <1>17, <1>23, <1>24, <1>27, <1>28, <1>29, <1>30, <1>31, Family

-----------------------------------------------------------------------------
(* What an awaiter takes.                                                   *)

(* What holds its inputs was built; what is resolved has nothing left to    *)
(* run.                                                                     *)
LEMMA HolderBuilt ==
  ASSUME IInv, NEW q \in Combs, NEW r, Holder(q, r)
  PROVE  ~Virgin(q)
<1>1. NewOK(q)
  BY DEF IInv
<1>2. Virgin(q) => ~Completes(q) /\ ~Resolved(q) /\ ~Open(q)
  BY <1>1 DEF NewOK, Runs, Virgin, Open, Resolved, PENDING, READY, CANCELLED
<1> QED
  BY <1>2 DEF Holder, Yields, Completes

(* Nothing runs of what is resolved.                                        *)
LEMMA ResolvedRuns ==
  ASSUME IInv, NEW z \in Nodes, State(z) = READY
  PROVE  ~Runs(z) /\ ~Completes(z)
<1>1. Typed /\ ~Unresolved(z) /\ State(z) # PENDING
  BY DEF IInv, Unresolved, PENDING, WAITING, READY
<1>2. ~Completes(z)
  BY <1>1 DEF IInv, FutureOK
<1>3. \A o : Has(o) => o \in AllOps
  BY <1>1 DEF Typed, Has
<1>4. CASE z \in Combs
  <2>1. CallsOK(z)
    BY <1>4 DEF IInv, CombOK
  <2> QED
    BY <1>1, <1>2, <2>1 DEF CallsOK, Runs
<1>5. CASE z \notin Combs
  <2>1. \A r : ~Arms(z, r)
    <3>1. \A r : Arms(z, r) => Arm(z, r)[2] \in Combs
      BY <1>3, Forms, OpFacts DEF Arms
    <3> QED
      BY <1>5, <3>1, OpFacts
  <2>2. ~Hooks(z) /\ ~Tallies(z)
    <3>1. \A a \in {"tally", "hook"} : Has(Op(a, z)) => Op(a, z)[2] \in Combs
      BY <1>3, Forms, OpFacts
    <3> QED
      BY <1>5, <3>1, OpFacts DEF Hooks, Tallies
  <2>3. \A r : ~Calls(On(z, r))
    <3>1. ASSUME NEW r, Calls(On(z, r)) PROVE FALSE
      <4>1. On(z, r) \in Resuming \cup Hooked \cup OnDrops
        BY <1>3, <3>1, Forms, OpFacts DEF Calls
      <4> QED
        BY <1>5, <4>1, Forms, Tags
    <3> QED
      BY <3>1
  <2> QED
    BY <1>2, <2>1, <2>2, <2>3 DEF Runs
<1> QED
  BY <1>4, <1>5

(* What is left to an awaiter that took what n resolved to: ST is what it   *)
(* settles next, FF what it frees.                                          *)
SettlesNext(n, ST, FF) ==
  /\ \A z : /\ Drops(z)' <=> Drops(z)
            /\ Releases(z)' <=> Releases(z)
            /\ FreesNode(z)' <=> FreesNode(z) \/ z \in FF
            /\ Settles(z)' <=> (Settles(z) /\ z # n) \/ z \in ST
            /\ Hooks(z)' <=> Hooks(z)
            /\ ~Tallies(z) /\ ~Calls(z) /\ ~Tallies(z)' /\ ~Calls(z)'
  /\ \A z, w : (Resolves(z, w)' <=> Resolves(z, w)) /\ (Arms(z, w)' <=> Arms(z, w))
  /\ \A b : Frees(b)' <=> Frees(b)

(* The stack after Settle.                                                  *)
LEMMA SettleOps ==
  ASSUME IInv, todo # <<>>, NEW n \in Nodes, Head(todo) = Op("settle", n), NEW ST, NEW FF, NEW S, Replaced(S), FreesAre({}),
         \A c, z : c # "free" => (Op(c, z) \in S <=> (c = "settle" /\ z \in ST) \/ (c = "Future_free" /\ z \in FF)),
         \A z, w : Arm(z, w) \notin S /\ Complete(z, w) \notin S
  PROVE  SettlesNext(n, ST, FF)
<1>1. Typed /\ Ordered
  BY DEF IInv
<1>2. (\A x : ~Tallies(x)) /\ \A c : ~Calls(c)
  BY <1>1, AtOnce, OpFacts DEF AtHead
<1>3. \A b : Frees(b)' <=> Frees(b)
  BY ClaimsOf DEF FreesAre
<1> QED
  BY <1>2, <1>3, OpsAfter DEF SettlesNext

(* What Left leaves: whatever n held, and nothing that is gone.             *)
LEMMA LeftFacts ==
  ASSUME IInv, Settle, NEW n \in Nodes, Head(todo) = Op("settle", n)
  PROVE  \E ST, FF \in SUBSET Nodes :
           /\ todo' \in Seq(AllOps) /\ Ordered' /\ SettlesNext(n, ST, FF) /\ FF \subseteq ST
           /\ \A z \in ST : Untaken(z) /\ ~Drops(z) /\ (Gone(z) \/ z \in FF)
           /\ \A z \in FF : Alive(z) /\ ~Claimed(z)
           /\ n \in Leaves => ST = {}
           /\ n \in Combs => /\ ST \subseteq {In(n, 0), In(n, 1)}
                             /\ \A r \in {0, 1} : Yields(n, r) \/ IsJoin(n) => In(n, r) \in ST
                             /\ \A r \in {0, 1} : In(n, r) \notin ST => Gone(In(n, r))
<1>1. Typed /\ Ordered /\ FutureOK(n)
  BY DEF IInv
<1>2. todo # <<>> /\ todo' = Left(n) \o Rest
  <2>1. todo # <<>> /\ Then(Left(n))
    BY OpFacts DEF Settle, Arg, Running
  <2> QED
    BY <2>1, ThenRest
<1>3. Settles(n) /\ State(n) = READY /\ n \notin taken
  BY <1>1, <1>2, RestFacts DEF FutureOK, Settles
<1>4. FreesIn(Head(todo)) = {} /\ \A z, c : c # "free" => FreesIn(Op(c, z)) = {}
  BY ClaimsOf
<1>5. CASE n \in Leaves
  <2>1. Left(n) = <<>>
    BY <1>5 DEF Left
  <2>2. todo' \in Seq(AllOps) /\ Ordered' /\ Replaced({}) /\ FreesAre({})
    <3>1. Then(<<>>)
      BY <2>1, OpFacts DEF Settle, Arg
    <3> QED
      BY <1>1, <1>2, <3>1, Push0
  <2>3. SettlesNext(n, {}, {})
    BY <1>2, <2>2, SettleOps
  <2>4. n \notin Combs
    BY <1>1, <1>5, InNodes
  <2> WITNESS {} \in SUBSET Nodes, {} \in SUBSET Nodes
  <2> QED
    BY <2>2, <2>3, <2>4
<1>6. CASE n \notin Leaves
  <2>1. n \in Combs
    BY <1>6 DEF Nodes
  <2>2. PICK x \in Nodes, y \in Nodes : In(n, 0) = x /\ In(n, 1) = y
    BY <1>1, <2>1, InNodes
  <2>3. x # y
    BY <1>1, <2>1, <2>2, KidsDiffer
  <2>4. BuiltOK(n) /\ ~Completes(n)
    <3>1. ~Virgin(n)
      BY <1>3 DEF Virgin, PENDING, READY
    <3> QED
      BY <1>3, <2>1, <3>1, ResolvedRuns DEF IInv, CombOK
  <2>5. PICK v \in 0 .. 2 : fut[n].value = v /\ Yields(n, v) /\ FullOK(n, v) /\ ReasonOK(n, v)
    BY <1>3, <2>4 DEF BuiltOK, Yields, Resolved
  <2>6. \A r \in {0, 1} : Yields(n, r) => r = v
    BY <2>4, <2>5 DEF Yields, Completes, Resolved
  <2>7. \A z \in Nodes : Op("settle", z) \in AllOps /\ Op("Future_free", z) \in AllOps
    BY SMT DEF AllOps, Op
  <2>8. \A z \in Nodes : (~Settles(z) => Fits(Op("settle", z))) /\ (~Claimed(z) => Fits(Op("Future_free", z)))
    BY <1>1, FitsFacts
  <2>9. ASSUME NEW z, NEW w
        PROVE  /\ Above(Op("settle", z), Op("Future_free", w))
               /\ z # w => Above(Op("settle", z), Op("settle", w)) /\ Above(Op("Future_free", z), Op("Future_free", w))
    <3>1. \A u \in {z, w} : /\ Claims(Op("settle", u)) = {Drp(u)} /\ ~Up(Op("settle", u)) /\ Op("settle", u)[1] = "settle"
                            /\ Claims(Op("Future_free", u)) = {Fut(u)} /\ ~Up(Op("Future_free", u)) /\ Op("Future_free", u)[1] = "Future_free"
      BY ClaimsOf, OpFacts
    <3>2. Drp(z) # Fut(w) /\ (z # w => Drp(z) # Drp(w) /\ Fut(z) # Fut(w))
      BY Owners
    <3> QED
      BY <3>1, <3>2 DEF Above
  <2>10. CASE IsJoin(n)
    <3>1. \A z \in {x, y} : Alive(z) /\ Untaken(z) /\ ~Claimed(z) /\ ~Drops(z) /\ ~Settles(z)
      BY <2>2, <2>5, <2>10 DEF FullOK, Kept, Claimed, Untaken
    <3> DEFINE a == Op("settle", x)
               b == Op("settle", y)
               c == Op("Future_free", x)
               d == Op("Future_free", y)
    <3>2. Left(n) = <<a, b, c, d>>
      BY <1>6, <2>2, <2>10 DEF Left
    <3>3. a \in AllOps /\ b \in AllOps /\ c \in AllOps /\ d \in AllOps
          /\ Above(a, b) /\ Above(a, c) /\ Above(a, d) /\ Above(b, c) /\ Above(b, d) /\ Above(c, d)
          /\ Fits(a) /\ Fits(b) /\ Fits(c) /\ Fits(d)
          /\ FreesIn(a) = {} /\ FreesIn(b) = {} /\ FreesIn(c) = {} /\ FreesIn(d) = {}
      BY <1>4, <2>3, <2>7, <2>8, <2>9, <3>1
    <3>4. /\ \A e, z : e # "free" => (Op(e, z) \in {a, b, c, d} <=> (e = "settle" /\ z \in {x, y}) \/ (e = "Future_free" /\ z \in {x, y}))
          /\ \A z, w : Arm(z, w) \notin {a, b, c, d} /\ Complete(z, w) \notin {a, b, c, d}
      BY OpFacts
    <3> HIDE DEF a, b, c, d
    <3>5. todo' \in Seq(AllOps) /\ Ordered' /\ Replaced({a, b, c, d}) /\ FreesAre({})
      <4>1. todo' \in Seq(AllOps) /\ Ordered' /\ Replaced({a, b, c, d}) /\ FreesAre(FreesIn(a) \cup FreesIn(b) \cup FreesIn(c) \cup FreesIn(d))
        BY <1>1, <1>2, <3>2, <3>3, Push4
      <4>2. FreesIn(a) \cup FreesIn(b) \cup FreesIn(c) \cup FreesIn(d) = {}
        BY <3>3
      <4> QED
        BY <4>1, <4>2
    <3>6. SettlesNext(n, {x, y}, {x, y})
      BY <1>2, <3>4, <3>5, SettleOps
    <3>7. {x, y} \in SUBSET Nodes
      OBVIOUS
    <3> WITNESS {x, y} \in SUBSET Nodes, {x, y} \in SUBSET Nodes
    <3> QED
      BY <1>1, <1>6, <2>2, <3>1, <3>5, <3>6
  <2>11. CASE ~IsJoin(n)
    <3>1. v \in {0, 1}
      BY <2>5, <2>11 DEF ReasonOK
    <3>2. PICK w \in {x, y} : In(n, v) = w
      BY <2>2, <3>1
    <3>3. PICK l \in {x, y} : In(n, 1 - v) = l /\ l # w /\ \A z \in {x, y} : z = w \/ z = l
      BY <2>2, <2>3, <3>1, <3>2
    <3>4. Untaken(w) /\ ~Drops(w) /\ Gone(l) /\ (IF kind[n] = "select2" THEN Kept(w) ELSE Gone(w)) /\ ~Settles(w)
      BY <2>5, <2>11, <3>2, <3>3 DEF FullOK, ReasonOK, Spared, Untaken
    <3>5. Winner(n) = w
      BY <2>5, <3>2 DEF Winner
    <3> DEFINE a == Op("settle", w)
               b == Op("Future_free", w)
    <3>6. a \in AllOps /\ b \in AllOps /\ Fits(a) /\ FreesIn(a) = {} /\ FreesIn(b) = {} /\ Above(a, b)
      BY <1>4, <2>7, <2>8, <2>9, <3>4
    <3>7. \A r \in {0, 1} : (Yields(n, r) => In(n, r) = w) /\ (In(n, r) # w => Gone(In(n, r)))
      BY <2>2, <2>6, <3>2, <3>3, <3>4
    <3>8. CASE kind[n] = "select2"
      <4>1. Alive(w) /\ ~Claimed(w) /\ Fits(b)
        BY <2>8, <3>4, <3>8 DEF Kept
      <4>2. Left(n) = <<a, b>>
        <5>1. Left(n) = <<a>> \o <<b>>
          BY <1>6, <2>11, <3>5, <3>8 DEF Left
        <5> HIDE DEF a, b
        <5> QED
          BY <3>6, <5>1, Cat2
      <4>3. /\ \A e, z : e # "free" => (Op(e, z) \in {a, b} <=> (e = "settle" /\ z \in {w}) \/ (e = "Future_free" /\ z \in {w}))
            /\ \A z, u : Arm(z, u) \notin {a, b} /\ Complete(z, u) \notin {a, b}
        BY OpFacts
      <4> HIDE DEF a, b
      <4>4. todo' \in Seq(AllOps) /\ Ordered' /\ Replaced({a, b}) /\ FreesAre({})
        <5>1. todo' \in Seq(AllOps) /\ Ordered' /\ Replaced({a, b}) /\ FreesAre(FreesIn(a) \cup FreesIn(b))
          BY <1>1, <1>2, <3>6, <4>1, <4>2, Push2
        <5>2. FreesIn(a) \cup FreesIn(b) = {}
          BY <3>6
        <5> QED
          BY <5>1, <5>2
      <4>5. SettlesNext(n, {w}, {w})
        BY <1>2, <4>3, <4>4, SettleOps
      <4> WITNESS {w} \in SUBSET Nodes, {w} \in SUBSET Nodes
      <4> QED
        BY <1>1, <1>6, <2>2, <2>11, <3>4, <3>7, <4>1, <4>4, <4>5
    <3>9. CASE kind[n] # "select2"
      <4>1. Gone(w)
        BY <3>4, <3>9
      <4>2. Left(n) = <<a>>
        <5>1. Left(n) = <<a>> \o <<>>
          BY <1>6, <2>11, <3>5, <3>9 DEF Left
        <5> HIDE DEF a
        <5> QED
          BY <3>6, <5>1, Cat0
      <4>3. /\ \A e, z : e # "free" => (Op(e, z) \in {a} <=> (e = "settle" /\ z \in {w}) \/ (e = "Future_free" /\ z \in {}))
            /\ \A z, u : Arm(z, u) \notin {a} /\ Complete(z, u) \notin {a}
        BY OpFacts
      <4> HIDE DEF a, b
      <4>4. todo' \in Seq(AllOps) /\ Ordered' /\ Replaced({a}) /\ FreesAre({})
        BY <1>1, <1>2, <3>6, <4>2, Push1
      <4>5. SettlesNext(n, {w}, {})
        BY <1>2, <4>3, <4>4, SettleOps
      <4> WITNESS {w} \in SUBSET Nodes, {} \in SUBSET Nodes
      <4> QED
        BY <1>1, <1>6, <2>2, <2>11, <3>4, <3>7, <4>1, <4>4, <4>5
    <3> QED
      BY <3>8, <3>9
  <2> QED
    BY <2>10, <2>11
<1> QED
  BY <1>5, <1>6

(* Settle: the awaiter takes what n resolved to.                            *)
LEMMA SettleStep ==
  ASSUME IInv, Settle
  PROVE  IInv'
<1>1. Typed /\ Ordered /\ UniqueOK
  BY DEF IInv
<1>2. todo # <<>> /\ Head(todo)[1] = "settle"
  BY DEF Settle, Running
<1>3. PICK n \in Nodes : n = Head(todo)[2] /\ Head(todo) = Op("settle", n)
  BY <1>1, <1>2, RestFacts, Forms
<1>4. /\ Settles(n) /\ FutureOK(n) /\ MineOK(n) /\ BlocksOK(n) /\ OwnerOK(n)
      /\ n \in Leaves => LeafOK(n)
      /\ n \in Combs => CombOK(n) /\ NewOK(n)
  BY <1>1, <1>2, <1>3, RestFacts DEF Settles, IInv
<1>5. /\ State(n) = READY /\ n \notin taken /\ ~Drops(n) /\ Gone(n) /\ n \notin mine \cup held /\ ~Runs(n) /\ ~Completes(n)
      /\ ~Virgin(n) /\ ~Unresolved(n) /\ State(n) # CANCELLED
  BY <1>4, ResolvedRuns DEF FutureOK, MineOK, Virgin, Unresolved, PENDING, WAITING, READY, CANCELLED
<1>6. taken' = taken \cup {n} /\ UNCHANGED <<kind, inputs, fut, cnt, live, reg, mine, held, done>>
  BY <1>3 DEF Settle, Arg
<1>7. PICK ST \in SUBSET Nodes, FF \in SUBSET Nodes :
           /\ todo' \in Seq(AllOps) /\ Ordered' /\ SettlesNext(n, ST, FF) /\ FF \subseteq ST
           /\ \A z \in ST : Untaken(z) /\ ~Drops(z) /\ (Gone(z) \/ z \in FF)
           /\ \A z \in FF : Alive(z) /\ ~Claimed(z)
           /\ n \in Leaves => ST = {}
           /\ n \in Combs => /\ ST \subseteq {In(n, 0), In(n, 1)}
                             /\ \A r \in {0, 1} : Yields(n, r) \/ IsJoin(n) => In(n, r) \in ST
                             /\ \A r \in {0, 1} : In(n, r) \notin ST => Gone(In(n, r))
  BY <1>3, LeftFacts
<1>8. Typed' /\ Fixed
  BY <1>1, <1>6, <1>7 DEF Typed, Fixed
<1>9. /\ \A z : /\ Drops(z)' <=> Drops(z)
                /\ Releases(z)' <=> Releases(z)
                /\ FreesNode(z)' <=> FreesNode(z) \/ z \in FF
                /\ Settles(z)' <=> (Settles(z) /\ z # n) \/ z \in ST
                /\ Hooks(z)' <=> Hooks(z)
                /\ ~Tallies(z) /\ ~Calls(z) /\ ~Tallies(z)' /\ ~Calls(z)'
      /\ \A z, w : (Resolves(z, w)' <=> Resolves(z, w)) /\ (Arms(z, w)' <=> Arms(z, w))
      /\ \A b : Frees(b)' <=> Frees(b)
  BY <1>7 DEF SettlesNext
<1>10. n \notin ST /\ n \notin FF
  <2>1. n \in Combs => n \notin {In(n, 0), In(n, 1)}
    BY <1>1, Acyclic DEF Typed
  <2> QED
    BY <1>7, <2>1 DEF Nodes
<1>11. \A z : /\ Claimed(z)' <=> Claimed(z) \/ z \in FF
              /\ Completes(z)' <=> Completes(z)
              /\ Runs(z)' <=> Runs(z)
              /\ \A r : Unarmed(z, r)' <=> Unarmed(z, r)
  BY <1>9 DEF Claimed, Completes, Runs, Unarmed
<1>12. \A z : /\ State(z)' = State(z) /\ Waker(z)' = Waker(z) /\ fut'[z] = fut[z] /\ (Alive(z)' <=> Alive(z))
              /\ (Virgin(z)' <=> Virgin(z)) /\ (Unresolved(z)' <=> Unresolved(z)) /\ (Lent(z)' <=> Lent(z))
  BY <1>6, <1>9 DEF State, Waker, Alive, Virgin, Unresolved, Lent
<1>13. \A z : NodeBlocksKept(z)
  BY <1>6, <1>9 DEF NodeBlocksKept, BlockKept
<1>14. \A z \in Nodes : z # n /\ z \notin ST => Same(z)
  BY <1>6, <1>7, <1>9, <1>12 DEF Same, OpsSame
<1>15. /\ \A q, r : In(q, r)' = In(q, r)
       /\ \A q : (IsJoin(q)' <=> IsJoin(q))
  BY <1>8, InFrame
<1>16. FutureOK(n)' /\ MineOK(n)'
  <2>1. Gone(n)'
    BY <1>5, <1>11, <1>12 DEF Gone
  <2>2. FutureOK(n)'
    BY <1>4, <1>5, <1>6, <1>9, <1>10, <1>11, <1>12, <1>15, <2>1 DEF FutureOK
  <2>3. State(n)' # WAITING
    BY <1>5, <1>12 DEF READY, WAITING
  <2>4. MineOK(n)'
    BY <1>5, <1>6, <1>9, <2>3 DEF MineOK
  <2> QED
    BY <2>2, <2>4
<1>17. n \in Leaves => LeafOK(n)'
  BY <1>4, <1>6, <1>9, <1>11, <1>12 DEF LeafOK
<1>18. n \in Combs => ~Open(n) /\ ~Open(n)'
  BY <1>5, <1>9, <1>12 DEF Open
<1>19. BlocksOK(n)'
  BY <1>4, <1>6, <1>9, <1>12, <1>15, <1>18 DEF BlocksOK, OneOf
<1>20. OwnerOK(n)'
  BY <1>5, <1>6, <1>11, <1>12 DEF OwnerOK, Gone
<1>21. Faint(n)
  <2>1. Spared(n)' <=> Spared(n)
    BY <1>9, <1>12 DEF Spared
  <2>2. ~Untaken(n)
    BY <1>4 DEF Untaken
  <2> QED
    BY <1>5, <1>6, <1>11, <1>12, <2>1, <2>2 DEF Faint, Gone
<1>22. (\E D \in SUBSET Nodes : Doomed(D))'
  <2>1. PICK D \in SUBSET Nodes : Doomed(D)
    BY DEF IInv
  <2> QED
    BY <1>8, <1>9, <1>11, <2>1, DoomedFrame DEF Doomed
<1>23. ASSUME NEW q \in Combs, NEW r \in {0, 1} PROVE BlockKept(On(q, r)) /\ (HookNeed(q, r)' <=> HookNeed(q, r))
  BY <1>6, <1>9, <1>11, <1>12, <1>15 DEF BlockKept, HookNeed
<1>24. CASE n \in Leaves
  <2>1. Alone(n)
    BY <1>7, <1>13, <1>14, <1>24 DEF Alone
  <2>2. n \notin Combs
    BY <1>1, <1>24, InNodes
  <2>3. NodeOK(n)'
    BY <1>16, <1>17, <1>19, <1>20, <2>2 DEF NodeOK
  <2>4. \A p \in Combs, r \in {0, 1} : BlockKept(On(p, r)) /\ ((Lent(n) /\ Waker(n) = On(p, r))' <=> (Lent(n) /\ Waker(n) = On(p, r)))
    BY <1>12, <1>23
  <2> QED
    BY <1>7, <1>8, <1>9, <1>11, <1>21, <1>22, <2>1, <2>2, <2>3, <2>4, SoleStep
<1>25. CASE n \notin Leaves
  <2>1. n \in Combs
    BY <1>25 DEF Nodes
  <2>2. PICK x \in Nodes, y \in Nodes : In(n, 0) = x /\ In(n, 1) = y /\ In(n, 0)' = x /\ In(n, 1)' = y
    BY <1>1, <1>15, <2>1, InNodes
  <2>3. BuiltOK(n) /\ CallsOK(n)
    BY <1>4, <1>5, <2>1 DEF CombOK
  <2>4. ST \subseteq {x, y} /\ \A z \in {x, y} : z \notin ST => Gone(z)
    BY <1>7, <2>1, <2>2
  <2>5. \A z \in {x, y} : Gone(z)' /\ z \notin mine \cup held /\ ~Virgin(z)
    <3>1. ASSUME NEW z \in {x, y} PROVE Gone(z)'
      <4>1. Gone(z) \/ z \in FF
        BY <1>7, <2>4
      <4> QED
        BY <1>11, <1>12, <4>1 DEF Gone
    <3>2. \A z \in {x, y} : z \notin mine \cup held /\ ~Virgin(z)
      BY <2>2, <2>3 DEF BuiltOK
    <3> QED
      BY <3>1, <3>2
  <2>6. NodeOK(n)'
    <3>1. BuiltOK(n)'
      <4>1. \A v \in 0 .. 2 : ~Yields(n, v)' /\ ~Resolves(n, v)'
        BY <1>5, <1>6, <1>9 DEF Yields, Completes, Resolved
      <4>2. \A r \in {0, 1} : (In(n, r) \notin mine \cup held /\ ~Virgin(In(n, r)))'
        BY <1>6, <1>12, <1>15, <2>2, <2>5
      <4>3. (Resolved(n) => fut[n].value \in 0 .. 2 /\ ReasonOK(n, fut[n].value))'
        <5>1. PICK v : fut[n].value = v /\ fut'[n].value = v /\ v \in 0 .. 2 /\ ReasonOK(n, v)
          BY <1>5, <1>12, <2>3 DEF BuiltOK, Resolved
        <5>2. \A z : Spared(z)' <=> Spared(z)
          BY <1>9, <1>12 DEF Spared
        <5>3. ReasonOK(n, v)'
          BY <1>15, <5>1, <5>2 DEF ReasonOK
        <5> QED
          BY <5>1, <5>3
      <4> QED
        BY <1>18, <2>1, <2>2, <2>5, <4>1, <4>2, <4>3 DEF BuiltOK
    <3>2. CallsOK(n)'
      BY <1>6, <1>9, <1>12, <2>3 DEF CallsOK
    <3>3. NewOK(n)' /\ CombOK(n)'
      BY <1>5, <1>12, <3>1, <3>2 DEF NewOK, CombOK
    <3> QED
      BY <1>16, <1>17, <1>19, <1>20, <3>3 DEF NodeOK
  <2>7. \A z \in Nodes : z \notin {n, x, y} => Same(z) /\ NodeBlocksKept(z)
    BY <1>13, <1>14, <2>4
  <2>8. x # n /\ y # n
    BY <1>1, <2>1, <2>2, Above2
  <2>9. ASSUME NEW z \in {x, y}, z \in ST PROVE Moved(z)
    <3>1. FutureOK(z) /\ Untaken(z) /\ ~Drops(z) /\ (Gone(z) \/ z \in FF) /\ State(z) = READY /\ z # n /\ z \notin taken
      BY <1>7, <2>8, <2>9 DEF IInv, Untaken
    <3>2. ~Runs(z) /\ State(z) # CANCELLED
      BY <3>1, ResolvedRuns DEF READY, CANCELLED
    <3>3. FreesNode(z)' => FreesNode(z) \/ (Alive(z) /\ State(z) = READY)
      BY <1>7, <1>9, <3>1
    <3>4. Claiming(z)
      BY <1>6, <1>9, <1>11, <1>12, <1>13, <2>5, <3>1, <3>2, <3>3 DEF Claiming
    <3>5. Settles(z)'
      BY <1>9, <2>9
    <3>6. OwnerOK(z)'
      BY <2>5, <3>5 DEF OwnerOK, Gone
    <3>7. \A a \in Nodes : a \notin {n, x, y} => Same(a)
      BY <2>7
    <3> QED
      BY <1>5, <1>8, <1>21, <2>1, <2>2, <3>4, <3>6, <3>7, ClaimMoved
  <2>10. ASSUME NEW z \in {x, y}, z \notin ST PROVE Same(z) /\ NodeBlocksKept(z) /\ OwnerOK(z)'
    <3>1. Same(z) /\ NodeBlocksKept(z)
      BY <1>13, <1>14, <2>8, <2>10
    <3>2. OwnerOK(z)
      BY DEF IInv
    <3>3. ~Parent(z)
      <4> SUFFICES ASSUME NEW q \in Combs, NEW r \in {0, 1}, In(q, r) = z, Holder(q, r) PROVE FALSE
        BY DEF Parent
      <4>1. PICK u \in {0, 1} : In(n, u) = z
        BY <2>2
      <4>2. In(q, r) = In(n, u)
        BY <4>1
      <4>3. q = n /\ r = u
        BY <1>1, <1>5, <2>1, <4>2, HolderBuilt DEF UniqueOK
      <4>4. PICK v \in 0 .. 2 : Yields(n, v) /\ (IsJoin(n) \/ r = v)
        BY <1>18, <2>1, <4>3 DEF Holder
      <4>5. z \in ST
        BY <1>7, <2>1, <4>1, <4>3, <4>4
      <4> QED
        BY <2>10, <4>5
    <3>4. OwnerOK(z)'
      <4>1. State(z)' = READY /\ z \notin taken' => Drops(z)' \/ Waker(z)' = Reap(z) \/ Settles(z)
        BY <1>6, <1>9, <1>12, <2>5, <3>2, <3>3 DEF OwnerOK
      <4>2. Settles(z) => Settles(z)'
        BY <1>9, <2>8
      <4> QED
        BY <1>15, <2>5, <4>1, <4>2 DEF OwnerOK, Gone
    <3> QED
      BY <3>1, <3>4
  <2>11. \A z \in {x, y} : Moved(z) \/ (Same(z) /\ NodeBlocksKept(z) /\ OwnerOK(z)')
    BY <2>9, <2>10
  <2> QED
    BY <1>5, <1>7, <1>8, <1>12, <1>21, <1>22, <1>23, <2>1, <2>2, <2>6, <2>7, <2>11, Family
<1> QED
  BY <1>24, <1>25

-----------------------------------------------------------------------------
(* The wakers of combinators.                                               *)

(* A combinator is no input of its inputs.                                  *)
LEMMA NoLoop ==
  ASSUME Typed, NEW p \in Combs, NEW u \in {0, 1}, NEW q \in Combs, NEW r \in {0, 1}, In(q, r) = p
  PROVE  In(p, u) # q
<1>1. PICK D \in SUBSET Nodes : p \in D /\ q \notin D /\ \A c \in D \cap Combs : {In(c, 0), In(c, 1)} \subseteq D
  BY Above2
<1>2. In(p, u) \in {In(p, 0), In(p, 1)}
  OBVIOUS
<1> QED
  BY <1>1, <1>2

(* What a combinator's waker finds when it is called.                       *)
LEMMA OnFacts ==
  ASSUME IInv, todo # <<>>, NEW p \in Combs, NEW s \in {0, 1}, Head(todo) = Op("call", On(p, s))
  PROVE  /\ Up(Head(todo)) /\ Subject(Head(todo)) = p /\ FreesIn(Head(todo)) = {} /\ p \in Nodes /\ p \notin Leaves
         /\ \A z : z # p => Quiet(z)
         /\ \A z : Bare(z)
         /\ \A c : Calls(c) <=> c = On(p, s)
         /\ Unresolved(p) /\ Alive(p) /\ Open(p) /\ ~Virgin(p) /\ State(p) # READY /\ State(p) # CANCELLED
         /\ BuiltOK(p) /\ CallsOK(p) /\ OpenOK(p)
         /\ Called(p, s) /\ KidOK(p, 1 - s)
<1>1. Typed /\ Ordered
  BY DEF IInv
<1>2. Up(Head(todo)) /\ Subject(Head(todo)) = p /\ FreesIn(Head(todo)) = {} /\ Head(todo)[1] = "call" /\ p \in Nodes /\ p \notin Leaves
  BY <1>1, EnvKinds, ClaimsOf, Subjects, OpFacts, InNodes
<1>3. (\A z : Bare(z)) /\ \A z : z # p => Quiet(z)
  BY <1>1, <1>2, UpBare, UpQuiet
<1>4. \A c : Calls(c) <=> c = On(p, s)
  <2>1. \A c : Calls(c) => Op("call", c) = Op("call", On(p, s))
    BY <1>1, AtOnce DEF AtHead
  <2>2. Calls(On(p, s))
    BY <1>1, RestFacts DEF Calls
  <2> QED
    BY <2>1, <2>2, OpFacts
<1>5. Unresolved(p) /\ Alive(p)
  BY <1>4 DEF IInv, CombOK, CallsOK
<1>6. ~Completes(p) /\ \A r : ~Unarmed(p, r)
  BY <1>3, BareFacts
<1>7. Open(p)
  BY <1>5, <1>6 DEF Open
<1>8. ~Virgin(p) /\ State(p) # READY /\ BuiltOK(p) /\ CallsOK(p) /\ OpenOK(p) /\ \A r \in {0, 1} : KidOK(p, r)
  BY <1>7, OpenFacts
<1>9. Called(p, s)
  BY <1>4, <1>6, <1>8 DEF KidOK
<1>10. State(p) # CANCELLED
  BY <1>5 DEF Unresolved, PENDING, WAITING, CANCELLED
<1>11. KidOK(p, 1 - s)
  BY <1>8
<1> QED
  BY <1>2, <1>3, <1>4, <1>5, <1>7, <1>8, <1>9, <1>10, <1>11

(* A join's waker is called.                                                *)
LEMMA JoinCall ==
  ASSUME IInv, todo # <<>>, NEW p \in Combs, NEW s \in {0, 1}, Head(todo) = Op("call", On(p, s)), IsJoin(p),
         Then(<<Op("tally", p), FreeAll({On(p, s)})>>), fut' = Unhooks(fut, In(p, s)),
         UNCHANGED <<kind, inputs, cnt, live, reg, mine, held, done, taken>>
  PROVE  IInv'
<1>1. Typed /\ Ordered
  BY DEF IInv
<1> DEFINE a == Op("tally", p)
           b == FreeAll({On(p, s)})
           S == {a, b}
<1>2. PICK x \in Nodes, y \in Nodes : In(p, s) = x /\ In(p, 1 - s) = y
  BY <1>1, InNodes
<1>3. x # p /\ y # p /\ x # y
  BY <1>1, <1>2, Above2, KidsDiffer
<1>4. /\ FutureOK(x) /\ MineOK(x) /\ BlocksOK(x) /\ OwnerOK(x) /\ HookOK(p, s)
      /\ x \in Leaves => LeafOK(x)
      /\ x \in Combs => CombOK(x) /\ NewOK(x)
      /\ FutureOK(p) /\ MineOK(p) /\ BlocksOK(p) /\ OwnerOK(p) /\ CombOK(p) /\ NewOK(p)
  BY OnFacts DEF IInv
<1>5. Kept(x) /\ Waker(x) = On(p, s) /\ Alive(x) /\ State(x) = READY /\ x \notin taken
  BY <1>2, OnFacts DEF Called, Kept, Untaken
<1>6. On(p, s) \in live /\ ~Frees(On(p, s))
  <2>1. HookNeed(p, s)
    BY <1>2, <1>5, OnFacts DEF HookNeed, Lent
  <2> QED
    BY <1>4, <2>1 DEF HookOK, OneOf, HookNeed
<1>7. todo' \in Seq(AllOps) /\ Ordered' /\ Replaced(S) /\ \A c : Frees(c)' <=> Frees(c) \/ c = On(p, s)
  <2>1. {On(p, s)} \in SUBSET Envs
    BY EnvKinds
  <2>2. a \in AllOps
    BY SMT DEF AllOps, Op
  <2>3. b \in AllOps
    BY <2>1, SMT DEF AllOps, FreeAll, Op
  <2>4. Up(Head(todo)) /\ FreesIn(Head(todo)) = {}
    BY OnFacts
  <2>5. Fits(a) /\ Fits(b)
    BY <1>1, <1>6, <2>1, <2>4, ClaimsOf, FitsFacts
  <2>6. Above(a, b)
    BY ClaimsOf, OpFacts DEF Above
  <2>7. todo' = <<a, b>> \o Rest
    BY ThenRest
  <2>8. FreesIn(a) = {} /\ FreesIn(b) = {On(p, s)}
    BY ClaimsOf
  <2> HIDE DEF a, b
  <2>9. todo' \in Seq(AllOps) /\ Ordered' /\ Replaced({a, b}) /\ FreesAre(FreesIn(a) \cup FreesIn(b))
    BY <1>1, <2>2, <2>3, <2>5, <2>6, <2>7, Push2
  <2> QED
    BY <2>4, <2>8, <2>9 DEF FreesAre
<1>8. /\ fut' \in [Nodes -> Futures] /\ \A z \in Nodes : z # x => fut'[z] = fut[z]
      /\ State(x)' = READY /\ Waker(x)' = Nop /\ fut'[x].on_drop = fut[x].on_drop /\ fut'[x].value = fut[x].value
  BY <1>1, <1>2, <1>5, UnhooksFut DEF State, Waker, Typed
<1>9. Typed' /\ Fixed
  BY <1>1, <1>7, <1>8 DEF Typed, Fixed
<1>10. /\ \A z : ~Drops(z)' /\ ~Releases(z)' /\ ~FreesNode(z)' /\ ~Settles(z)' /\ ~Hooks(z)' /\ (Tallies(z)' <=> z = p) /\ ~Calls(z)'
       /\ \A z, w : ~Arms(z, w)' /\ ~Resolves(z, w)'
  <2>1. \A c, z : c # "free" => (Op(c, z) \in S <=> c = "tally" /\ z = p)
    BY OpFacts
  <2>2. \A z, w : Arm(z, w) \notin S /\ Complete(z, w) \notin S
    BY OpFacts
  <2>3. Up(Head(todo))
    BY OnFacts
  <2> HIDE DEF S
  <2>4. ASSUME NEW z
        PROVE  /\ ~Drops(z)' /\ ~Releases(z)' /\ ~FreesNode(z)' /\ ~Settles(z)' /\ ~Hooks(z)' /\ (Tallies(z)' <=> z = p) /\ ~Calls(z)'
               /\ \A w : ~Arms(z, w)' /\ ~Resolves(z, w)'
    <3>1. /\ Op("drop", z) \notin S /\ Op("release", z) \notin S /\ Op("Future_free", z) \notin S /\ Op("settle", z) \notin S
          /\ Op("hook", z) \notin S /\ (Op("tally", z) \in S <=> z = p) /\ Op("call", z) \notin S
      BY <2>1
    <3> QED
      BY <1>1, <1>7, <2>2, <2>3, <3>1, BareNext
  <2> QED
    BY <2>4
<1>11. \A z : ~Claimed(z) /\ ~Claimed(z)' /\ ~Completes(z) /\ ~Completes(z)' /\ \A r : ~Unarmed(z, r) /\ ~Unarmed(z, r)'
  <2>1. \A z : Bare(z)
    BY OnFacts
  <2> QED
    BY <1>10, <2>1, BareFacts DEF Claimed, Completes, Unarmed
<1>12. /\ \A z : ~Drops(z) /\ ~Releases(z) /\ ~FreesNode(z) /\ ~Settles(z) /\ ~Hooks(z) /\ ~Tallies(z)
       /\ \A z, w : ~Arms(z, w) /\ ~Resolves(z, w)
       /\ \A c : Calls(c) <=> c = On(p, s)
  <2>1. \A z : Bare(z)
    BY OnFacts
  <2>2. \A z : ~Drops(z) /\ ~Releases(z) /\ ~FreesNode(z) /\ ~Settles(z) /\ ~Hooks(z) /\ ~Tallies(z)
    BY <2>1 DEF Bare
  <2>3. \A z, w : ~Arms(z, w) /\ ~Resolves(z, w)
    <3>1. \A z : \A w : ~Resolves(z, w)
      BY <2>1 DEF Bare
    <3>2. \A z : ~Arms(z, 0) /\ ~Arms(z, 1)
      BY <2>1 DEF Bare
    <3>3. ASSUME NEW z, NEW w, Arms(z, w) PROVE FALSE
      <4>1. Arm(z, w) \in AllOps
        BY <1>1, <3>3 DEF Arms, Has, Typed
      <4>2. w \in {0, 1}
        BY <4>1, Forms, OpFacts
      <4> QED
        BY <3>2, <3>3, <4>2
    <3> QED
      BY <3>1, <3>3
  <2> QED
    BY <2>2, <2>3, OnFacts
<1>13. \A z : Alive(z)' <=> Alive(z)
  BY DEF Alive
<1>14. \A c : c # On(p, s) => BlockKept(c)
  BY <1>7 DEF BlockKept
<1>15. \A z : NodeBlocksKept(z)
  <2> SUFFICES ASSUME NEW z PROVE NodeBlocksKept(z)
    OBVIOUS
  <2>1. On(p, s) \notin {Resume(z), Reap(z), Cb(z), Cnt(z)}
    BY Owners
  <2> QED
    BY <1>14, <2>1 DEF NodeBlocksKept
<1>16. \A z : ~Calls(Resume(z)) /\ ~Calls(Reap(z)) /\ ~Calls(Cas(z)) /\ ~Calls(Drp(z)) /\ (z # p => \A w : ~Calls(On(z, w)))
  BY <1>12, Owners, OnOf
<1>17. \A z \in Nodes : z \notin {p, x} => Same(z)
  BY <1>8, <1>10, <1>12, <1>13, <1>16 DEF Same, OpsSame
<1>18. /\ \A q, r : In(q, r)' = In(q, r)
       /\ \A q : (IsJoin(q)' <=> IsJoin(q))
  BY <1>9, InFrame
<1>19. /\ fut'[p] = fut[p] /\ State(p)' = State(p) /\ Waker(p)' = Waker(p) /\ (Virgin(p)' <=> Virgin(p)) /\ (Unresolved(p)' <=> Unresolved(p))
       /\ Unresolved(p) /\ Alive(p) /\ ~Virgin(p) /\ State(p) # READY /\ State(p) # CANCELLED /\ Open(p) /\ BuiltOK(p) /\ CallsOK(p) /\ OpenOK(p) /\ p \notin Leaves
  BY <1>3, <1>8, <1>13, OnFacts DEF State, Waker, Virgin, Unresolved
<1>20. Open(p)' /\ (Lent(p)' <=> Lent(p)) /\ KidSame(p)
  <2>1. Open(p)'
    BY <1>11, <1>13, <1>19 DEF Open
  <2>2. Waker(p) # On(p, s)
    BY <1>2, <1>3, <1>4, WakerOn, OnFacts
  <2>3. Lent(p)' <=> Lent(p)
    BY <1>10, <1>12, <1>13, <1>19, <2>2 DEF Lent
  <2>4. KidSame(p)
    BY <1>10, <1>11, <1>12, <1>13, <1>19 DEF KidSame
  <2> QED
    BY <2>1, <2>3, <2>4
<1>21. NodeOK(x)'
  <2>1. /\ ~Unresolved(x) /\ ~Unresolved(x)' /\ ~Virgin(x) /\ ~Virgin(x)' /\ State(x)' # CANCELLED /\ State(x)' # WAITING /\ State(x)' # PENDING
        /\ x \notin mine \cup held
    <3>1. x \notin mine \cup held
      BY <1>2, <1>19 DEF BuiltOK
    <3> QED
      BY <1>5, <1>8, <3>1 DEF Unresolved, Virgin, PENDING, WAITING, READY, CANCELLED
  <2>2. FutureOK(x)'
    BY <1>5, <1>8, <1>10, <1>11, <1>13, <2>1 DEF FutureOK
  <2>3. MineOK(x)'
    BY <1>10, <2>1 DEF MineOK
  <2>4. ~Lent(x)' /\ Waker(x) # Resume(x) /\ Waker(x) # Reap(x)
    BY <1>5, <1>8, <1>10, <2>1, Owners DEF Lent
  <2>5. x \in Combs => ~Open(x) /\ ~Open(x)'
    BY <1>10, <1>16, <2>1 DEF Open
  <2>6. BlocksOK(x)'
    <3>1. OneOf(Resume(x), FALSE) /\ OneOf(Reap(x), FALSE)
      BY <1>4, <2>4 DEF BlocksOK, OneOf
    <3>2. Resume(x) # On(p, s) /\ Reap(x) # On(p, s) /\ Cb(x) # On(p, s) /\ Cnt(x) # On(p, s)
      BY Owners
    <3>3. OneOf(Resume(x), Lent(x) /\ Waker(x) = Resume(x))' /\ OneOf(Reap(x), Lent(x) /\ Waker(x) = Reap(x))'
      BY <1>7, <2>4, <3>1, <3>2 DEF OneOf
    <3>4. x \in Leaves => OneOf(Cb(x), x \in reg)'
      BY <1>4, <1>7, <3>2 DEF BlocksOK, OneOf
    <3>5. x \in Combs => OneOf(Cnt(x), IsJoin(x) /\ Open(x))'
      BY <1>4, <1>7, <2>5, <3>2 DEF BlocksOK, OneOf
    <3> QED
      BY <1>4, <1>8, <1>13, <3>3, <3>4, <3>5 DEF BlocksOK
  <2>7. OwnerOK(x)'
    <3>1. Parent(x)'
      BY <1>2, <1>18, <1>20 DEF Parent, Holder
    <3> QED
      BY <3>1 DEF OwnerOK
  <2>8. x \in Leaves => LeafOK(x)'
    BY <1>4, <1>5, <1>8, <1>10, <1>11, <1>13, <1>16, <2>1 DEF LeafOK
  <2>9. ASSUME x \in Combs PROVE NewOK(x)' /\ CombOK(x)'
    <3>1. PICK c \in Nodes, d \in Nodes : In(x, 0) = c /\ In(x, 1) = d
      BY <1>1, <2>9, InNodes
    <3>2. KidSame(c) /\ KidSame(d)
      <4>1. c # x /\ d # x
        BY <1>1, <2>9, <3>1, Above2
      <4>2. c # p /\ d # p
        BY <1>1, <1>2, <2>9, <3>1, NoLoop
      <4> QED
        BY <1>17, <4>1, <4>2, KidStates
    <3>3. Like(x)
      BY <1>3, <1>5, <1>8, <1>10, <1>11, <1>12, <1>16, <2>1, <2>5, <2>9 DEF Like, Full, Yields, Resolved
    <3>4. ~Virgin(x)' => BuiltOK(x)'
      BY <1>4, <1>9, <2>9, <3>1, <3>2, <3>3, BuiltFrame DEF CombOK
    <3>5. CallsOK(x)'
      BY <1>3, <1>4, <1>8, <1>10, <1>16, <2>1, <2>9 DEF CallsOK, CombOK
    <3> QED
      BY <2>1, <3>4, <3>5 DEF NewOK, CombOK
  <2> QED
    BY <2>2, <2>3, <2>6, <2>7, <2>8, <2>9 DEF NodeOK
<1>22. \A r \in {0, 1} : \A c \in Nodes : In(p, r) = c => OwnerOK(c)'
  <2> SUFFICES ASSUME NEW r \in {0, 1}, NEW c \in Nodes, In(p, r) = c PROVE OwnerOK(c)'
    OBVIOUS
  <2>1. Parent(c)'
    BY <1>18, <1>20 DEF Parent, Holder
  <2> QED
    BY <2>1 DEF OwnerOK
<1>23. NodeOK(p)'
  <2>1. FutureOK(p)'
    BY <1>4, <1>10, <1>11, <1>13, <1>18, <1>19 DEF FutureOK
  <2>2. MineOK(p)'
    BY <1>4, <1>10, <1>11, <1>13, <1>16, <1>18, <1>19 DEF MineOK
  <2>3. BlocksOK(p)'
    <3>1. Resume(p) # On(p, s) /\ Reap(p) # On(p, s) /\ Cb(p) # On(p, s) /\ Cnt(p) # On(p, s)
      BY Owners
    <3>2. OneOf(Resume(p), Lent(p) /\ Waker(p) = Resume(p))' /\ OneOf(Reap(p), Lent(p) /\ Waker(p) = Reap(p))'
      BY <1>4, <1>7, <1>19, <1>20, <3>1 DEF BlocksOK, OneOf
    <3>3. OneOf(Cnt(p), IsJoin(p) /\ Open(p))'
      BY <1>4, <1>7, <1>18, <1>19, <1>20, <3>1 DEF BlocksOK, OneOf
    <3> QED
      BY <1>4, <1>13, <1>19, <3>2, <3>3 DEF BlocksOK
  <2>4. OwnerOK(p)'
    <3>1. ASSUME NEW q \in Combs, NEW r \in {0, 1}, In(q, r) = p, Holder(q, r) PROVE In(q, r)' = p /\ Holder(q, r)'
      <4>1. q # p /\ q # x
        BY <1>1, <1>2, <3>1, NoLoop, Above2
      <4>2. Same(q)
        BY <1>17, <4>1 DEF Nodes
      <4> QED
        BY <1>9, <1>18, <3>1, <4>2, StateFrame
    <3>2. Parent(p) => Parent(p)'
      BY <3>1 DEF Parent
    <3> QED
      BY <1>4, <1>11, <1>19, <3>2 DEF OwnerOK
  <2>5. OpenOK(p)'
    <3>1. KidSame(y) /\ State(y)' = State(y) /\ Waker(y)' = Waker(y) /\ (Kept(y)' <=> Kept(y))
      <4>1. KidSame(y)
        BY <1>3, <1>17, KidStates
      <4> QED
        BY <4>1, KidStates
    <3>2. \A w \in {0, 1} : ~Calls(On(p, w))' /\ (Calls(On(p, w)) <=> w = s) /\ ~Unarmed(p, w) /\ ~Unarmed(p, w)'
      BY <1>10, <1>11, <1>12, OnOf, SMTT(30)
    <3>3. KidOK(p, s)'
      <4>1. Kept(x)'
        BY <1>5, <1>8, <1>10, <1>11, <1>13 DEF Kept, Untaken
      <4> QED
        BY <1>2, <1>8, <1>18, <3>2, <4>1 DEF KidOK, Got
    <3>4. KidOK(p, 1 - s)'
      <4>1. 1 - s \in {0, 1} /\ 1 - s # s
        OBVIOUS
      <4>2. PICK w \in {0, 1} : w = 1 - s
        BY <4>1
      <4>3. Armed(p, w) \/ Got(p, w)
        BY <3>2, <4>1, <4>2, OnFacts DEF KidOK
      <4>4. In(p, w) = y /\ In(p, w)' = y
        BY <1>2, <1>18, <4>2
      <4>5. (Armed(p, w) \/ Got(p, w))'
        BY <1>11, <1>13, <3>1, <4>3, <4>4 DEF Armed, Got
      <4>6. KidOK(p, w)'
        BY <1>18, <3>2, <4>5 DEF KidOK
      <4> QED
        BY <4>2, <4>6
    <3>5. Count(p)' = Count(p) + 1
      <4>1. PICK w \in {0, 1} : w = 1 - s /\ w # s
        OBVIOUS
      <4>2. ~Counted(p, s) /\ Counted(p, s)' /\ (Counted(p, w)' <=> Counted(p, w))
        BY <1>2, <1>8, <1>18, <3>1, <3>2, <4>1 DEF Counted
      <4>3. CASE s = 0
        BY <4>1, <4>2, <4>3 DEF Count
      <4>4. CASE s = 1
        BY <4>1, <4>2, <4>4 DEF Count
      <4> QED
        BY <4>3, <4>4
    <3>6. Count(p) = cnt[p] /\ cnt[p] # 2 /\ fut[p].on_drop = Cas(p) /\ cnt[p] \in 0 .. 2
      BY <1>1, <1>12, <1>19 DEF OpenOK, Typed
    <3>7. KidOK(p, 0)' /\ KidOK(p, 1)'
      <4>1. CASE s = 0
        BY <3>3, <3>4, <4>1
      <4>2. CASE s = 1
        BY <3>3, <3>4, <4>2
      <4> QED
        BY <4>1, <4>2
    <3> QED
      BY <1>10, <1>19, <3>5, <3>6, <3>7 DEF OpenOK
  <2>6. BuiltOK(p)'
    <3>1. \A v \in 0 .. 2 : ~Yields(p, v)' /\ ~Resolves(p, v)'
      BY <1>10, <1>19 DEF Yields, Resolved
    <3>2. \A r \in {0, 1} : (In(p, r) \notin mine \cup held /\ ~Virgin(In(p, r)))'
      <4>1. \A z \in {x, y} : Virgin(z)' <=> Virgin(z)
        <5>1. Virgin(y)' <=> Virgin(y)
          BY <1>3, <1>17, <1>9, StateFrame
        <5>2. Virgin(x)' <=> Virgin(x)
          BY <1>5, <1>8 DEF Virgin, PENDING, READY
        <5> QED
          BY <5>1, <5>2
      <4>2. \A r \in {0, 1} : In(p, r) \in {x, y}
        BY <1>2
      <4> QED
        BY <1>18, <1>19, <4>1, <4>2 DEF BuiltOK
    <3>3. ~Resolved(p)'
      BY <1>10, <1>19 DEF Resolved
    <3> QED
      BY <1>19, <1>20, <2>5, <3>1, <3>2, <3>3 DEF BuiltOK
  <2>7. CallsOK(p)'
    BY <1>10, <1>11, <1>13, <1>18, <1>19 DEF CallsOK
  <2> QED
    BY <1>19, <2>1, <2>2, <2>3, <2>4, <2>6, <2>7 DEF NodeOK, NewOK, CombOK
<1>24. Moved(x)
  <2>1. ASSUME x \in Combs, NEW r \in {0, 1}, Holder(x, r) PROVE Holder(x, r)'
    <3>1. ~Open(x)
      BY <1>5, <1>16 DEF Open, Unresolved, PENDING, WAITING, READY
    <3>2. \A v \in 0 .. 2 : Yields(x, v) => Yields(x, v)'
      BY <1>5, <1>8, <1>12 DEF Yields, Resolved
    <3> QED
      BY <1>18, <2>1, <3>1, <3>2 DEF Holder
  <2>2. x \in Combs => ~Virgin(x) /\ ~Virgin(x)'
    BY <1>5, <1>8 DEF Virgin, PENDING, READY
  <2> QED
    BY <1>21, <2>1, <2>2 DEF Moved
<1>25. (\E D \in SUBSET Nodes : Doomed(D))'
  BY <1>10, NoDoom
<1>26. ASSUME NEW q \in Combs, NEW r \in {0, 1}
       PROVE  HookOK(q, r)' \/ (BlockKept(On(q, r)) /\ (HookNeed(q, r)' <=> HookNeed(q, r)))
  <2>1. PICK z \in Nodes : In(q, r) = z /\ In(q, r)' = z
    BY <1>1, <1>18, InNodes
  <2>2. ~(Lent(x) /\ Waker(x) = On(q, r))'
    BY <1>8, NotNop
  <2>3. CASE q = p /\ r = s
    <3>1. ~HookNeed(q, r)'
      BY <1>2, <1>11, <2>1, <2>2, <2>3 DEF HookNeed
    <3>2. On(p, s) \in live' /\ Frees(On(p, s))'
      BY <1>6, <1>7
    <3> QED
      BY <2>3, <3>1, <3>2 DEF HookOK, OneOf, HookNeed
  <2>4. CASE ~(q = p /\ r = s)
    <3>1. On(q, r) # On(p, s)
      BY <2>4, OnOf
    <3>2. HookNeed(q, r)' <=> HookNeed(q, r)
      <4>1. CASE z = x
        <5>1. Waker(x) # On(q, r)
          BY <1>5, <3>1
        <5> QED
          BY <1>11, <2>1, <2>2, <4>1, <5>1 DEF HookNeed
      <4>2. CASE z # x
        <5>1. Waker(z) # On(p, s)
          BY <1>2, <4>2, WakerOn
        <5>2. State(z)' = State(z) /\ Waker(z)' = Waker(z)
          BY <1>8, <4>2 DEF State, Waker
        <5>3. Lent(z)' <=> Lent(z)
          BY <1>10, <1>12, <1>13, <5>1, <5>2 DEF Lent
        <5> QED
          BY <1>11, <2>1, <5>2, <5>3 DEF HookNeed
      <4> QED
        BY <4>1, <4>2
    <3> QED
      BY <1>14, <3>1, <3>2
  <2> QED
    BY <2>3, <2>4
<1>27. PICK c \in Nodes, d \in Nodes : In(p, 0) = c /\ In(p, 1) = d /\ {c, d} = {x, y}
  <2>1. CASE s = 0
    BY <1>2, <2>1
  <2>2. CASE s = 1
    BY <1>2, <2>2
  <2> QED
    BY <2>1, <2>2
<1>28. \A z \in {c, d} : Moved(z) \/ (Same(z) /\ NodeBlocksKept(z) /\ OwnerOK(z)')
  <2>1. Same(y) /\ NodeBlocksKept(y)
    BY <1>3, <1>15, <1>17
  <2>2. OwnerOK(y)'
    BY <1>2, <1>22, <1>27
  <2> QED
    BY <1>24, <1>27, <2>1, <2>2
<1>29. \A z \in Nodes : z \notin {p, c, d} => Same(z) /\ NodeBlocksKept(z)
  BY <1>15, <1>17, <1>27
<1> HIDE DEF a, b, S
<1> QED
  BY <1>7, <1>9, <1>19, <1>20, <1>23, <1>25, <1>26, <1>27, <1>28, <1>29, Family

(* Two operations and two.                                                  *)
LEMMA Cat4 ==
  ASSUME NEW a \in AllOps, NEW b \in AllOps, NEW c \in AllOps, NEW d \in AllOps
  PROVE  <<a, b>> \o <<c, d>> = <<a, b, c, d>>
<1>1. ASSUME NEW s \in Seq(AllOps), Len(s) = 4, s[1] = a, s[2] = b, s[3] = c, s[4] = d PROVE s = <<a, b, c, d>>
  BY <1>1, SeqEqual
<1> DEFINE s == <<a, b>> \o <<c, d>>
<1>2. s \in Seq(AllOps) /\ Len(s) = 4 /\ s[1] = a /\ s[2] = b /\ s[3] = c /\ s[4] = d
  OBVIOUS
<1> HIDE DEF s
<1>3. s = <<a, b, c, d>>
  BY <1>1, <1>2
<1> QED
  BY <1>3 DEF s

(* A select's waker is called: it drops the loser and resolves.             *)
LEMMA SelectCall ==
  ASSUME IInv, todo # <<>>, NEW p \in Combs, NEW s \in {0, 1}, Head(todo) = Op("call", On(p, s)), ~IsJoin(p),
         Then(OnSelect(p, s, On(p, s))),
         UNCHANGED <<kind, inputs, fut, cnt, live, reg, mine, held, done, taken>>
  PROVE  IInv'
<1>1. Typed /\ Ordered /\ UniqueOK
  BY DEF IInv
<1>2. PICK x \in Nodes, y \in Nodes : In(p, s) = x /\ In(p, 1 - s) = y
  BY <1>1, InNodes
<1>3. x # p /\ y # p /\ x # y
  BY <1>1, <1>2, Above2, KidsDiffer
<1>4. /\ OwnerOK(x) /\ HookOK(p, s)
      /\ FutureOK(p) /\ MineOK(p) /\ BlocksOK(p) /\ OwnerOK(p) /\ CombOK(p) /\ NewOK(p)
  BY OnFacts DEF IInv
<1>5. Untaken(x) /\ Kept(x) /\ Waker(x) = On(p, s) /\ Alive(x) /\ State(x) = READY /\ x \notin taken
  BY <1>2, OnFacts DEF Called, Kept, Untaken
<1>6. /\ \A z : ~Drops(z) /\ ~Releases(z) /\ ~FreesNode(z) /\ ~Settles(z) /\ ~Hooks(z) /\ ~Tallies(z)
      /\ \A z, w : ~Arms(z, w) /\ ~Resolves(z, w)
      /\ \A c : Calls(c) <=> c = On(p, s)
  <2>1. \A z : Bare(z)
    BY OnFacts
  <2>2. \A z : ~Drops(z) /\ ~Releases(z) /\ ~FreesNode(z) /\ ~Settles(z) /\ ~Hooks(z) /\ ~Tallies(z)
    BY <2>1 DEF Bare
  <2>3. \A z, w : ~Arms(z, w) /\ ~Resolves(z, w)
    <3>1. \A z : \A w : ~Resolves(z, w)
      BY <2>1 DEF Bare
    <3>2. \A z : ~Arms(z, 0) /\ ~Arms(z, 1)
      BY <2>1 DEF Bare
    <3>3. ASSUME NEW z, NEW w, Arms(z, w) PROVE FALSE
      <4>1. Arm(z, w) \in AllOps
        BY <1>1, <3>3 DEF Arms, Has, Typed
      <4>2. w \in {0, 1}
        BY <4>1, Forms, OpFacts
      <4> QED
        BY <3>2, <3>3, <4>2
    <3> QED
      BY <3>1, <3>3
  <2> QED
    BY <2>2, <2>3, OnFacts
<1>7. On(p, s) \in live /\ ~Frees(On(p, s))
  <2>1. HookNeed(p, s)
    BY <1>2, <1>5, <1>6 DEF HookNeed, Lent
  <2> QED
    BY <1>4, <2>1 DEF HookOK, OneOf, HookNeed
<1>8. Armed(p, 1 - s) /\ Alive(y) /\ State(y) = WAITING
  <2>1. PICK w \in {0, 1} : w = 1 - s /\ w # s
    OBVIOUS
  <2>2. ~Unarmed(p, w) /\ ~Calls(On(p, w)) /\ KidOK(p, w)
    BY <1>6, <2>1, OnOf, OnFacts DEF Unarmed
  <2>3. Armed(p, w)
    BY <2>2 DEF KidOK
  <2> QED
    BY <1>2, <2>1, <2>3 DEF Armed
<1> DEFINE own == kind[p] = "select2v"
           a == Op("drop", y)
           b == Op("Future_free", x)
           c == Complete(p, s)
           d == FreeAll({On(p, s)})
           S == {a, c, d} \cup (IF own THEN {b} ELSE {})
<1>9. todo' \in Seq(AllOps) /\ Ordered' /\ Replaced(S) /\ \A e : Frees(e)' <=> Frees(e) \/ e = On(p, s)
  <2>1. {On(p, s)} \in SUBSET Envs
    BY EnvKinds
  <2>2. a \in AllOps /\ b \in AllOps
    BY SMT DEF AllOps, Op
  <2>3. d \in AllOps
    BY <2>1, SMT DEF AllOps, FreeAll, Op
  <2>4. c \in AllOps
    BY OnFacts, SMT DEF AllOps, Complete
  <2>5. Up(Head(todo)) /\ FreesIn(Head(todo)) = {}
    BY OnFacts
  <2>6. /\ FreesIn(a) = {} /\ FreesIn(b) = {} /\ FreesIn(c) = {} /\ FreesIn(d) = {On(p, s)}
        /\ Claims(a) = {Fut(y)} /\ Claims(b) = {Fut(x)} /\ Claims(c) = {} /\ Claims(d) = {On(p, s)}
        /\ ~Up(a) /\ ~Up(b) /\ ~Up(d)
        /\ a[1] = "drop" /\ b[1] = "Future_free" /\ c[1] = "complete" /\ d[1] = "free"
    BY ClaimsOf, OpFacts
  <2>7. Fits(a) /\ Fits(b) /\ Fits(c) /\ Fits(d)
    <3>1. ~Claimed(x) /\ ~Claimed(y)
      BY <1>6 DEF Claimed
    <3>2. Fits(a) /\ Fits(b)
      BY <1>1, <3>1, FitsFacts
    <3>3. Fits(d)
      BY <1>1, <1>7, <2>1, FitsFacts
    <3>4. Fits(c)
      BY <1>1, <2>5, <2>6, FitsFacts
    <3> QED
      BY <3>2, <3>3, <3>4
  <2>8. Above(a, b) /\ Above(a, c) /\ Above(a, d) /\ Above(b, c) /\ Above(b, d) /\ Above(c, d)
    <3>1. Fut(x) # Fut(y) /\ Fut(x) # On(p, s) /\ Fut(y) # On(p, s)
      BY <1>3, Owners
    <3> HIDE DEF a, b, c, d
    <3> QED
      BY <2>6, <3>1 DEF Above
  <2>9. OnSelect(p, s, On(p, s)) = <<a>> \o (IF own THEN <<b>> ELSE <<>>) \o <<c, d>>
    BY <1>2 DEF OnSelect
  <2>10. CASE own
    <3>1. S = {a, b, c, d}
      BY <2>10
    <3> HIDE DEF a, b, c, d, S, own
    <3>2. OnSelect(p, s, On(p, s)) = <<a, b, c, d>>
      <4>1. <<a>> \o <<b>> = <<a, b>>
        BY <2>2, Cat2
      <4>2. <<a, b>> \o <<c, d>> = <<a, b, c, d>>
        BY <2>2, <2>3, <2>4, Cat4
      <4> QED
        BY <2>9, <2>10, <4>1, <4>2
    <3>3. todo' = <<a, b, c, d>> \o Rest
      BY <3>2, ThenRest
    <3>4. todo' \in Seq(AllOps) /\ Ordered' /\ Replaced({a, b, c, d}) /\ FreesAre(FreesIn(a) \cup FreesIn(b) \cup FreesIn(c) \cup FreesIn(d))
      BY <1>1, <2>2, <2>3, <2>4, <2>7, <2>8, <3>3, Push4
    <3> QED
      BY <2>5, <2>6, <3>1, <3>4 DEF FreesAre
  <2>11. CASE ~own
    <3>1. S = {a, c, d}
      BY <2>11
    <3> HIDE DEF a, b, c, d, S, own
    <3>2. OnSelect(p, s, On(p, s)) = <<a, c, d>>
      <4>2. <<a>> \o <<>> = <<a>>
        BY <2>2, Cat0
      <4>3. \A k, l, m \in AllOps : <<k>> \o <<l, m>> = <<k, l, m>>
        BY Cat3
      <4>4. <<a>> \o <<c, d>> = <<a, c, d>>
        BY <2>2, <2>3, <2>4, <4>3
      <4> QED
        BY <2>9, <2>11, <4>2, <4>4
    <3>3. todo' = <<a, c, d>> \o Rest
      BY <3>2, ThenRest
    <3>4. todo' \in Seq(AllOps) /\ Ordered' /\ Replaced({a, c, d}) /\ FreesAre(FreesIn(a) \cup FreesIn(c) \cup FreesIn(d))
      BY <1>1, <2>2, <2>3, <2>4, <2>7, <2>8, <3>3, Push3
    <3> QED
      BY <2>5, <2>6, <3>1, <3>4 DEF FreesAre
  <2> QED
    BY <2>10, <2>11
<1>10. Typed' /\ Fixed
  BY <1>1, <1>9 DEF Typed, Fixed
<1>11. /\ \A z : /\ Drops(z)' <=> z = y
                 /\ FreesNode(z)' <=> own /\ z = x
                 /\ ~Releases(z)' /\ ~Settles(z)' /\ ~Hooks(z)' /\ ~Tallies(z)' /\ ~Calls(z)'
       /\ \A z, w : ~Arms(z, w)' /\ (Resolves(z, w)' <=> z = p /\ w = s)
  <2>1. \A z : /\ Op("drop", z) \in S <=> z = y
               /\ Op("Future_free", z) \in S <=> own /\ z = x
               /\ Op("release", z) \notin S /\ Op("settle", z) \notin S
               /\ Op("hook", z) \notin S /\ Op("tally", z) \notin S /\ Op("call", z) \notin S
    BY OpFacts
  <2>2. \A z, w : Arm(z, w) \notin S /\ (Complete(z, w) \in S <=> z = p /\ w = s)
    BY OpFacts
  <2>3. Up(Head(todo))
    BY OnFacts
  <2> HIDE DEF S, own
  <2> QED
    BY <1>1, <1>9, <2>1, <2>2, <2>3, BareNext, ZenonT(40)
<1>12. /\ \A z : /\ ~Claimed(z) /\ (Claimed(z)' <=> z = y \/ (own /\ z = x))
                 /\ ~Completes(z) /\ (Completes(z)' <=> z = p)
                 /\ \A r : ~Unarmed(z, r) /\ ~Unarmed(z, r)'
       /\ \A z : z # p => ~Runs(z) /\ ~Runs(z)'
  <2>1. \A z : /\ ~Claimed(z) /\ (Claimed(z)' <=> z = y \/ (own /\ z = x))
               /\ ~Completes(z) /\ (Completes(z)' <=> z = p)
               /\ \A r : ~Unarmed(z, r) /\ ~Unarmed(z, r)'
    BY <1>6, <1>11 DEF Claimed, Completes, Unarmed
  <2>2. ASSUME NEW z, z # p PROVE ~Runs(z) /\ ~Runs(z)'
    <3>1. ~Calls(On(z, 0)) /\ ~Calls(On(z, 1))
      BY <1>6, <2>2, OnOf
    <3> QED
      BY <1>6, <1>11, <2>1, <2>2, <3>1 DEF Runs
  <2> QED
    BY <2>1, <2>2
<1>13. \A z : /\ Alive(z)' <=> Alive(z)
              /\ State(z)' = State(z) /\ Waker(z)' = Waker(z) /\ fut'[z] = fut[z]
              /\ (Virgin(z)' <=> Virgin(z)) /\ (Unresolved(z)' <=> Unresolved(z))
  BY DEF Alive, State, Waker, Virgin, Unresolved
<1>14. \A e : e # On(p, s) => BlockKept(e)
  BY <1>9 DEF BlockKept
<1>15. \A z : NodeBlocksKept(z)
  <2> SUFFICES ASSUME NEW z PROVE NodeBlocksKept(z)
    OBVIOUS
  <2>1. On(p, s) \notin {Resume(z), Reap(z), Cb(z), Cnt(z)}
    BY Owners
  <2> QED
    BY <1>14, <2>1 DEF NodeBlocksKept
<1>16. \A z : ~Calls(Resume(z)) /\ ~Calls(Reap(z)) /\ ~Calls(Cas(z)) /\ ~Calls(Drp(z)) /\ (z # p => \A w : ~Calls(On(z, w)))
  BY <1>6, Owners, OnOf
<1>17. \A z \in Nodes : z \notin {p, x, y} => Same(z)
  BY <1>6, <1>11, <1>13, <1>16 DEF Same, OpsSame
<1>18. /\ \A q, r : In(q, r)' = In(q, r)
       /\ \A q : (IsJoin(q)' <=> IsJoin(q))
  BY <1>10, InFrame
<1>19. /\ Unresolved(p) /\ Alive(p) /\ ~Virgin(p) /\ State(p) # READY /\ State(p) # CANCELLED /\ Open(p) /\ BuiltOK(p) /\ CallsOK(p)
       /\ p \notin Leaves /\ p \in Nodes
  BY OnFacts
<1>20. Full(p)' /\ Yields(p, s)' /\ ~Open(p)' /\ KidSame(p) /\ (Lent(p)' <=> Lent(p))
  <2>1. Waker(p) # On(p, s)
    BY <1>2, <1>3, <1>19, WakerOn
  <2>2. Lent(p)' <=> Lent(p)
    BY <1>6, <1>11, <1>13, <2>1 DEF Lent
  <2>3. KidSame(p)
    BY <1>3, <1>6, <1>11, <1>12, <1>13 DEF KidSame
  <2>4. ~Open(p)'
    BY <1>11, <1>12 DEF Open
  <2> QED
    BY <1>11, <1>12, <2>2, <2>3, <2>4 DEF Full, Yields, Resolved
<1>21. Untaken(x)' /\ Spared(x)' /\ Gone(y)' /\ (own => Gone(x)') /\ (~own => Kept(x)')
  BY <1>3, <1>5, <1>11, <1>12, <1>13 DEF Untaken, Spared, Gone, Kept
<1>22. NodeOK(p)'
  <2>1. FutureOK(p)'
    BY <1>3, <1>4, <1>11, <1>12, <1>13, <1>18, <1>19 DEF FutureOK
  <2>2. MineOK(p)'
    BY <1>3, <1>4, <1>11, <1>12, <1>13, <1>16, <1>18, <1>19 DEF MineOK
  <2>3. BlocksOK(p)'
    <3>1. Resume(p) # On(p, s) /\ Reap(p) # On(p, s) /\ Cb(p) # On(p, s) /\ Cnt(p) # On(p, s)
      BY Owners
    <3>2. OneOf(Resume(p), Lent(p) /\ Waker(p) = Resume(p))' /\ OneOf(Reap(p), Lent(p) /\ Waker(p) = Reap(p))'
      BY <1>4, <1>9, <1>13, <1>20, <3>1 DEF BlocksOK, OneOf
    <3>3. OneOf(Cnt(p), IsJoin(p) /\ Open(p))'
      BY <1>4, <1>9, <1>18, <3>1 DEF BlocksOK, OneOf
    <3> QED
      BY <1>4, <1>13, <1>19, <3>2, <3>3 DEF BlocksOK
  <2>4. OwnerOK(p)'
    <3>1. ASSUME NEW q \in Combs, NEW r \in {0, 1}, In(q, r) = p, Holder(q, r) PROVE In(q, r)' = p /\ Holder(q, r)'
      <4>1. q # p /\ q # x /\ q # y
        BY <1>1, <1>2, <3>1, NoLoop, Above2
      <4>2. Same(q)
        BY <1>17, <4>1 DEF Nodes
      <4> QED
        BY <1>10, <1>18, <3>1, <4>2, StateFrame
    <3>2. Parent(p) => Parent(p)'
      BY <3>1 DEF Parent
    <3> QED
      BY <1>4, <1>12, <1>13, <1>19, <3>2 DEF OwnerOK
  <2>5. BuiltOK(p)'
    <3>1. \A v \in 0 .. 2 : (Yields(p, v)' => FullOK(p, v)') /\ (Resolves(p, v)' => ReasonOK(p, v)')
      <4>1. FullOK(p, s)'
        <5>1. In(p, s)' = x /\ In(p, 1 - s)' = y
          BY <1>2, <1>18
        <5>2. kind[p] = "select2" => ~own
          OBVIOUS
        <5>3. kind[p] # "select2" => own
          <6>1. kind[p] \in Kinds
            BY <1>1 DEF Typed
          <6> QED
            BY <6>1, KindsAssumption DEF IsJoin
        <5> HIDE DEF own
        <5> QED
          BY <1>18, <1>21, <5>1, <5>2, <5>3 DEF FullOK
      <4>2. ReasonOK(p, s)'
        BY <1>2, <1>18, <1>21 DEF ReasonOK
      <4>3. \A v \in 0 .. 2 : Yields(p, v)' \/ Resolves(p, v)' => v = s
        BY <1>11, <1>13, <1>19 DEF Yields, Resolved
      <4> QED
        BY <4>1, <4>2, <4>3
    <3>2. \A r \in {0, 1} : (In(p, r) \notin mine \cup held /\ ~Virgin(In(p, r)))'
      BY <1>13, <1>18, <1>19 DEF BuiltOK
    <3> QED
      BY <1>13, <1>18, <1>19, <1>20, <3>1, <3>2 DEF BuiltOK, Resolved
  <2>6. CallsOK(p)'
    BY <1>11, <1>13, <1>19 DEF CallsOK
  <2> QED
    BY <1>13, <1>19, <2>1, <2>2, <2>3, <2>4, <2>5, <2>6 DEF NodeOK, NewOK, CombOK
<1>23. PICK e \in Nodes, f \in Nodes : In(p, 0) = e /\ In(p, 1) = f /\ {e, f} = {x, y}
  <2>1. CASE s = 0
    BY <1>2, <2>1
  <2>2. CASE s = 1
    BY <1>2, <2>2
  <2> QED
    BY <2>1, <2>2
<1>24. \A z \in Nodes : z \notin {p, e, f} => Same(z) /\ NodeBlocksKept(z)
  BY <1>15, <1>17, <1>23
<1>25. ASSUME NEW z \in {x, y} PROVE Moved(z)
  <2>1. z \notin mine \cup held /\ ~Virgin(z) /\ z # p
    BY <1>3, <1>19, <1>23 DEF BuiltOK
  <2>2. Drops(z)' => Alive(z) /\ State(z) # CANCELLED /\ State(z) # READY /\ z \notin taken
    <3>1. z = y => State(z) # CANCELLED /\ State(z) # READY
      BY <1>8 DEF WAITING, READY, CANCELLED
    <3>2. z \in taken => State(z) = READY
      BY DEF IInv, FutureOK
    <3> QED
      BY <1>8, <1>11, <3>1, <3>2
  <2>3. FreesNode(z)' => Alive(z) /\ State(z) = READY
    BY <1>5, <1>11
  <2>4. Claiming(z)
    BY <1>6, <1>11, <1>12, <1>13, <1>15, <1>16, <2>1, <2>2, <2>3 DEF Claiming
  <2>5. OwnerOK(z)'
    <3>1. CASE z = y
      <4>1. State(y)' # READY
        BY <1>8, <1>13 DEF WAITING, READY
      <4> QED
        BY <1>12, <3>1, <4>1 DEF OwnerOK
    <3>2. CASE z = x
      <4>1. Holder(p, s)' /\ In(p, s)' = x
        <5>1. s \in 0 .. 2 /\ Yields(p, s)'
          BY <1>20
        <5> QED
          BY <1>2, <1>18, <5>1 DEF Holder
      <4>2. Parent(x)'
        BY <4>1 DEF Parent
      <4> QED
        BY <3>2, <4>2 DEF OwnerOK
    <3> QED
      BY <3>1, <3>2
  <2>6. \A k \in Nodes : k \notin {p, e, f} => Same(k)
    BY <1>24
  <2>7. z \in {In(p, 0), In(p, 1)}
    BY <1>23
  <2> QED
    BY <1>10, <1>19, <1>20, <1>23, <2>4, <2>5, <2>6, <2>7, ClaimMoved
<1>26. (\E D \in SUBSET Nodes : Doomed(D))'
  <2>1. 1 - s \in {0, 1}
    OBVIOUS
  <2>2. PICK D \in SUBSET Nodes : y \in D /\ p \notin D /\ \A q \in D \cap Combs : {In(q, 0), In(q, 1)} \subseteq D
    BY <1>1, <1>2, <2>1, Above2
  <2>3. Doomed(D)'
    <3>1. \A n \in Nodes : Drops(n)' \/ Calls(Cas(n))' => n \in D
      BY <1>11, <2>2
    <3>2. \A n \in D : ~Runs(n)'
      BY <1>12, <2>2
    <3>3. \A q \in D \cap Combs : {In(q, 0)', In(q, 1)'} \subseteq D
      BY <1>18, <2>2
    <3> QED
      BY <3>1, <3>2, <3>3 DEF Doomed
  <2> QED
    BY <2>3
<1>27. ASSUME NEW q \in Combs, NEW r \in {0, 1}
       PROVE  HookOK(q, r)' \/ (BlockKept(On(q, r)) /\ (HookNeed(q, r)' <=> HookNeed(q, r)))
  <2>1. PICK z \in Nodes : In(q, r) = z /\ In(q, r)' = z
    BY <1>1, <1>18, InNodes
  <2>2. CASE q = p /\ r = s
    <3>1. ~Lent(x)'
      BY <1>5, <1>11, <1>13 DEF Lent, WAITING, READY, CANCELLED
    <3>2. ~HookNeed(q, r)'
      BY <1>2, <1>12, <2>1, <2>2, <3>1 DEF HookNeed
    <3>3. On(p, s) \in live' /\ Frees(On(p, s))'
      BY <1>7, <1>9
    <3> QED
      BY <2>2, <3>2, <3>3 DEF HookOK, OneOf, HookNeed
  <2>3. CASE ~(q = p /\ r = s)
    <3>1. On(q, r) # On(p, s)
      BY <2>3, OnOf
    <3>2. (Lent(z) /\ Waker(z) = On(q, r))' <=> (Lent(z) /\ Waker(z) = On(q, r))
      <4>1. CASE Waker(z) = On(q, r)
        <5>1. Waker(z) # On(p, s)
          BY <3>1, <4>1
        <5> QED
          BY <1>6, <1>11, <1>13, <5>1 DEF Lent
      <4>2. CASE Waker(z) # On(q, r)
        BY <1>13, <4>2
      <4> QED
        BY <4>1, <4>2
    <3>3. HookNeed(q, r)' <=> HookNeed(q, r)
      BY <1>12, <2>1, <3>2 DEF HookNeed
    <3> QED
      BY <1>14, <3>1, <3>3
  <2> QED
    BY <2>2, <2>3
<1> HIDE DEF a, b, c, d, S, own
<1> QED
  BY <1>9, <1>10, <1>13, <1>19, <1>20, <1>22, <1>23, <1>24, <1>25, <1>26, <1>27, Family

(* CallOn.                                                                  *)
LEMMA OnStep ==
  ASSUME IInv, CallOn
  PROVE  IInv'
<1>1. Typed /\ Ordered
  BY DEF IInv
<1>2. todo # <<>> /\ Head(todo)[1] = "call" /\ Head(todo)[2][1] = "on"
  BY DEF CallOn, Calling, Running, Arg
<1>3. PICK p \in Combs, s \in {0, 1} : p = Head(todo)[2][2] /\ s = Head(todo)[2][3] /\ Head(todo) = Op("call", On(p, s))
  BY <1>1, <1>2, RestFacts, Forms
<1>4. fut[In(p, s)].waker = On(p, s)
  BY <1>2, <1>3, OnFacts DEF Called, Waker
<1>5. /\ IF IsJoin(p)
           THEN Then(<<Op("tally", p), FreeAll({On(p, s)})>>) /\ fut' = Unhooks(fut, In(p, s))
           ELSE Then(OnSelect(p, s, On(p, s))) /\ UNCHANGED fut
      /\ UNCHANGED <<kind, inputs, cnt, live, reg, mine, held, done, taken>>
  BY <1>3, <1>4 DEF CallOn, Arg, OnJoin, Unhooks
<1> QED
  BY <1>2, <1>3, <1>5, JoinCall, SelectCall

-----------------------------------------------------------------------------
(* Constructors.                                                            *)

(* What a constructor finds when it looks at an input.                      *)
LEMMA ArmFacts ==
  ASSUME IInv, todo # <<>>, NEW p \in Combs, NEW s \in {0, 1}, Head(todo) = Arm(p, s)
  PROVE  /\ Up(Head(todo)) /\ FreesIn(Head(todo)) = {} /\ p \in Nodes /\ p \notin Leaves
         /\ \A z : ~Drops(z) /\ ~Releases(z) /\ ~FreesNode(z) /\ ~Settles(z) /\ ~Hooks(z) /\ ~Tallies(z) /\ ~Calls(z)
         /\ \A z, w : (Arms(z, w) <=> z = p /\ w = s) /\ ~Resolves(z, w)
         /\ \A z : ~Claimed(z) /\ ~Completes(z)
         /\ \A z, r : z # p => ~Unarmed(z, r)
         /\ \A r \in {0, 1} : Unarmed(p, r) <=> s = 0 \/ r = 1
         /\ p \in mine /\ Alive(p) /\ State(p) = PENDING /\ Waker(p) = Nop /\ Open(p) /\ ~Virgin(p) /\ Unresolved(p)
         /\ BuiltOK(p) /\ CallsOK(p) /\ OpenOK(p)
         /\ Loose(In(p, s)) /\ \A r \in {0, 1} : KidOK(p, r)
<1>1. Typed /\ Ordered
  BY DEF IInv
<1>2. Up(Head(todo)) /\ FreesIn(Head(todo)) = {} /\ p \in Nodes /\ p \notin Leaves /\ Subject(Head(todo)) = p
  BY <1>1, ClaimsOf, Subjects, InNodes
<1>3. \A o : o[1] # "free" => (Has(o) <=> o = Arm(p, s))
  BY <1>1, <1>2, OnlyHead DEF AtHead
<1>4. /\ \A z : ~Drops(z) /\ ~Releases(z) /\ ~FreesNode(z) /\ ~Settles(z) /\ ~Hooks(z) /\ ~Tallies(z) /\ ~Calls(z)
      /\ \A z, w : (Arms(z, w) <=> z = p /\ w = s) /\ ~Resolves(z, w)
  BY <1>3, OpFacts DEF Drops, Releases, FreesNode, Settles, Hooks, Tallies, Calls, Arms, Resolves
<1>5. /\ \A z : ~Claimed(z) /\ ~Completes(z)
      /\ \A z, r : z # p => ~Unarmed(z, r)
      /\ \A r \in {0, 1} : Unarmed(p, r) <=> s = 0 \/ r = 1
  BY <1>4 DEF Claimed, Completes, Unarmed
<1>6. PICK x : In(p, s) = x
  OBVIOUS
<1>7. Unarmed(p, s)
  BY <1>5
<1>8. p \in mine /\ Alive(p) /\ State(p) = PENDING /\ Waker(p) = Nop /\ Open(p) /\ ~Virgin(p) /\ Loose(x)
  BY <1>6, <1>7, UnarmedFacts
<1>9. Unresolved(p)
  BY <1>8 DEF Unresolved
<1> QED
  BY <1>2, <1>4, <1>5, <1>6, <1>8, <1>9, OpenFacts

(* It hooks one that is pending.                                            *)
LEMMA ArmWaits ==
  ASSUME IInv, todo # <<>>, NEW p \in Combs, NEW s \in {0, 1}, Head(todo) = Arm(p, s),
         State(In(p, s)) = PENDING, Then(Next1(p, s)), fut' = Waits(fut, In(p, s), On(p, s)),
         UNCHANGED <<kind, inputs, cnt, live, reg, mine, held, done, taken>>
  PROVE  IInv'
<1>1. Typed /\ Ordered
  BY DEF IInv
<1> DEFINE a == IF s = 0 THEN Arm(p, 1) ELSE Op("hook", p)
<1>2. PICK x \in Nodes, y \in Nodes : In(p, s) = x /\ In(p, 1 - s) = y
  BY <1>1, InNodes
<1>3. x # p /\ y # p /\ x # y
  BY <1>1, <1>2, Above2, KidsDiffer
<1>4. /\ FutureOK(x) /\ MineOK(x) /\ BlocksOK(x) /\ OwnerOK(x) /\ HookOK(p, s)
      /\ x \in Leaves => LeafOK(x)
      /\ x \in Combs => CombOK(x) /\ NewOK(x)
      /\ FutureOK(p) /\ MineOK(p) /\ BlocksOK(p) /\ OwnerOK(p) /\ CombOK(p) /\ NewOK(p)
  BY ArmFacts DEF IInv
<1>5. Loose(x) /\ Alive(x) /\ Waker(x) = Nop /\ State(x) = PENDING /\ x \notin taken
  BY <1>2, ArmFacts DEF Loose
<1>6. /\ Up(Head(todo)) /\ FreesIn(Head(todo)) = {} /\ p \in Nodes /\ p \notin Leaves
      /\ \A z : ~Drops(z) /\ ~Releases(z) /\ ~FreesNode(z) /\ ~Settles(z) /\ ~Hooks(z) /\ ~Tallies(z) /\ ~Calls(z)
      /\ \A z, w : (Arms(z, w) <=> z = p /\ w = s) /\ ~Resolves(z, w)
      /\ \A z : ~Claimed(z) /\ ~Completes(z)
      /\ \A z, r : z # p => ~Unarmed(z, r)
      /\ \A r \in {0, 1} : Unarmed(p, r) <=> s = 0 \/ r = 1
      /\ p \in mine /\ Alive(p) /\ State(p) = PENDING /\ Waker(p) = Nop /\ Open(p) /\ ~Virgin(p) /\ Unresolved(p)
      /\ BuiltOK(p) /\ CallsOK(p) /\ OpenOK(p) /\ \A r \in {0, 1} : KidOK(p, r)
  BY ArmFacts
<1>7. todo' \in Seq(AllOps) /\ Ordered' /\ Replaced({a}) /\ \A c : Frees(c)' <=> Frees(c)
  <2>1. a \in AllOps
    <3>1. Arm(p, 1) \in AllOps
      BY SMT DEF AllOps, Arm
    <3>2. Op("hook", p) \in AllOps
      BY SMT DEF AllOps, Op
    <3> QED
      BY <3>1, <3>2
  <2>2. Claims(a) = {} /\ FreesIn(a) = {}
    BY ClaimsOf
  <2>3. Fits(a)
    BY <1>1, <1>6, <2>2, FitsFacts
  <2>4. todo' = <<a>> \o Rest
    <3>1. Next1(p, s) = <<a>>
      BY DEF Next1
    <3> QED
      BY <3>1, ThenRest
  <2> HIDE DEF a
  <2>5. todo' \in Seq(AllOps) /\ Ordered' /\ Replaced({a}) /\ FreesAre(FreesIn(a))
    BY <1>1, <2>1, <2>3, <2>4, Push1
  <2> QED
    BY <1>6, <2>2, <2>5 DEF FreesAre
<1>8. /\ fut' \in [Nodes -> Futures] /\ \A z \in Nodes : z # x => fut'[z] = fut[z]
      /\ State(x)' = WAITING /\ Waker(x)' = On(p, s) /\ fut'[x].on_drop = fut[x].on_drop /\ fut'[x].value = fut[x].value
  <2>1. On(p, s) \in Wakers
    BY EnvKinds DEF Wakers
  <2> QED
    BY <1>1, <1>2, <2>1, WaitsFut DEF State, Waker, Typed
<1>9. Typed' /\ Fixed
  BY <1>1, <1>7, <1>8 DEF Typed, Fixed
<1>10. /\ \A z : ~Drops(z)' /\ ~Releases(z)' /\ ~FreesNode(z)' /\ ~Settles(z)' /\ (Hooks(z)' <=> s = 1 /\ z = p) /\ ~Tallies(z)' /\ ~Calls(z)'
       /\ \A z, w : (Arms(z, w)' <=> s = 0 /\ z = p /\ w = 1) /\ ~Resolves(z, w)'
  <2>2. \A z, w : (Arm(z, w) \in {a} <=> s = 0 /\ z = p /\ w = 1) /\ Complete(z, w) \notin {a}
    BY OpFacts
  <2>3. \A z : /\ Op("drop", z) \notin {a} /\ Op("release", z) \notin {a} /\ Op("Future_free", z) \notin {a} /\ Op("settle", z) \notin {a}
               /\ (Op("hook", z) \in {a} <=> s = 1 /\ z = p) /\ Op("tally", z) \notin {a} /\ Op("call", z) \notin {a}
    BY OpFacts
  <2> HIDE DEF a
  <2>4. ASSUME NEW z
        PROVE  /\ ~Drops(z)' /\ ~Releases(z)' /\ ~FreesNode(z)' /\ ~Settles(z)' /\ (Hooks(z)' <=> s = 1 /\ z = p) /\ ~Tallies(z)' /\ ~Calls(z)'
               /\ \A w : (Arms(z, w)' <=> s = 0 /\ z = p /\ w = 1) /\ ~Resolves(z, w)'
    BY <1>1, <1>6, <1>7, <2>2, <2>3, BareNext
  <2> QED
    BY <2>4
<1>11. \A z : /\ ~Claimed(z)' /\ ~Completes(z)' /\ (Alive(z)' <=> Alive(z)) /\ NodeBlocksKept(z)
              /\ \A r : z # p => ~Unarmed(z, r)'
  BY <1>7, <1>10 DEF Claimed, Completes, Unarmed, Alive, NodeBlocksKept, BlockKept
<1>12. \A r \in {0, 1} : Unarmed(p, r)' <=> s = 0 /\ r = 1
  BY <1>10 DEF Unarmed
<1>13. \A z \in Nodes : z \notin {p, x} => Same(z)
  BY <1>6, <1>8, <1>10, <1>11 DEF Same, OpsSame
<1>14. /\ \A q, r : In(q, r)' = In(q, r)
       /\ \A q : (IsJoin(q)' <=> IsJoin(q))
  BY <1>9, InFrame
<1>15. /\ fut'[p] = fut[p] /\ State(p)' = State(p) /\ Waker(p)' = Waker(p) /\ ~Virgin(p)' /\ Unresolved(p)' /\ Open(p)'
       /\ ~Lent(p) /\ ~Lent(p)'
  BY <1>3, <1>6, <1>8, <1>10, <1>11 DEF State, Waker, Virgin, Unresolved, Open, Lent, PENDING, WAITING, CANCELLED
<1>16. /\ Unresolved(x) /\ Unresolved(x)' /\ ~Virgin(x) /\ ~Virgin(x)' /\ State(x)' # CANCELLED /\ State(x)' # READY /\ State(x)' # PENDING
       /\ State(x) # READY /\ x \notin mine \cup held
  <2>1. x \notin mine \cup held
    BY <1>2, <1>6 DEF BuiltOK
  <2> QED
    BY <1>5, <1>8, <1>11, <2>1 DEF Unresolved, Virgin, PENDING, WAITING, READY, CANCELLED
<1>17. \A r \in {0, 1} : \A c \in Nodes : In(p, r) = c => OwnerOK(c)'
  <2> SUFFICES ASSUME NEW r \in {0, 1}, NEW c \in Nodes, In(p, r) = c PROVE OwnerOK(c)'
    OBVIOUS
  <2>1. Parent(c)'
    BY <1>14, <1>15 DEF Parent, Holder
  <2> QED
    BY <2>1 DEF OwnerOK
<1>18. NodeOK(x)'
  <2>1. FutureOK(x)'
    <3>1. Waker(x)' # Nop
      BY <1>8, NotNop
    <3>2. \E q \in Combs, r \in {0, 1} : In(q, r)' = x /\ Waker(x)' = On(q, r)
      BY <1>2, <1>8, <1>14
    <3> QED
      BY <1>5, <1>8, <1>10, <1>11, <1>16, <3>1, <3>2 DEF FutureOK
  <2>2. Waker(x)' # Resume(x) /\ Waker(x)' # Reap(x) /\ Waker(x) # Resume(x) /\ Waker(x) # Reap(x)
    BY <1>5, <1>8, Owners, NotNop
  <2>3. MineOK(x)'
    BY <1>10, <1>16, <2>2 DEF MineOK
  <2>4. x \in Combs => (Open(x)' <=> Open(x))
    BY <1>6, <1>10, <1>11, <1>16 DEF Open
  <2>5. BlocksOK(x)'
    <3>1. OneOf(Resume(x), FALSE) /\ OneOf(Reap(x), FALSE)
      BY <1>4, <2>2 DEF BlocksOK, OneOf
    <3>2. OneOf(Resume(x), Lent(x) /\ Waker(x) = Resume(x))' /\ OneOf(Reap(x), Lent(x) /\ Waker(x) = Reap(x))'
      BY <1>7, <2>2, <3>1 DEF OneOf
    <3>3. x \in Leaves => OneOf(Cb(x), x \in reg)'
      BY <1>4, <1>7 DEF BlocksOK, OneOf
    <3>4. x \in Combs => OneOf(Cnt(x), IsJoin(x) /\ Open(x))'
      BY <1>4, <1>7, <1>14, <2>4 DEF BlocksOK, OneOf
    <3> QED
      BY <1>4, <1>8, <1>11, <3>2, <3>3, <3>4 DEF BlocksOK
  <2>6. OwnerOK(x)'
    BY <1>2, <1>17
  <2>7. x \in Leaves => LeafOK(x)'
    BY <1>4, <1>5, <1>6, <1>8, <1>10, <1>11, <1>16 DEF LeafOK
  <2>8. ASSUME x \in Combs PROVE NewOK(x)' /\ CombOK(x)'
    <3>1. PICK c \in Nodes, d \in Nodes : In(x, 0) = c /\ In(x, 1) = d
      BY <1>1, <2>8, InNodes
    <3>2. KidSame(c) /\ KidSame(d)
      <4>1. c # x /\ d # x
        BY <1>1, <2>8, <3>1, Above2
      <4>2. c # p /\ d # p
        BY <1>1, <1>2, <2>8, <3>1, NoLoop
      <4> QED
        BY <1>13, <4>1, <4>2, KidStates
    <3>3. Like(x)
      <4>1. (Resolved(x)' <=> Resolved(x)) /\ (Full(x)' <=> Full(x)) /\ \A v : Yields(x, v)' <=> Yields(x, v)
        BY <1>5, <1>6, <1>8, <1>10, <1>11, <1>16 DEF Full, Yields, Resolved, PENDING, READY, CANCELLED
      <4> QED
        BY <1>3, <1>5, <1>6, <1>8, <1>10, <1>16, <2>4, <2>8, <4>1 DEF Like
    <3>4. ~Virgin(x)' => BuiltOK(x)'
      BY <1>4, <1>9, <2>8, <3>1, <3>2, <3>3, BuiltFrame DEF CombOK
    <3>5. CallsOK(x)'
      BY <1>3, <1>4, <1>6, <1>8, <1>10, <1>16, <2>8 DEF CallsOK, CombOK
    <3> QED
      BY <1>16, <3>4, <3>5 DEF NewOK, CombOK
  <2> QED
    BY <2>1, <2>3, <2>5, <2>6, <2>7, <2>8 DEF NodeOK
<1>19. KidSame(y) /\ State(y)' = State(y) /\ Waker(y)' = Waker(y) /\ (Kept(y)' <=> Kept(y)) /\ (Loose(y)' <=> Loose(y)) /\ (Virgin(y)' <=> Virgin(y))
  <2>1. KidSame(y)
    BY <1>3, <1>13, KidStates
  <2> QED
    BY <2>1, KidStates
<1>20. OpenOK(p)'
  <2>1. PICK w \in {0, 1} : w = 1 - s /\ w # s /\ \A r \in {0, 1} : r = s \/ r = w
    <3>1. 1 - s \in {0, 1} /\ 1 - s # s /\ \A r \in {0, 1} : r = s \/ r = 1 - s
      OBVIOUS
    <3> QED
      BY <3>1
  <2>2. In(p, w) = y /\ In(p, w)' = y /\ In(p, s)' = x /\ (Unarmed(p, w)' <=> Unarmed(p, w)) /\ ~Unarmed(p, s)' /\ Unarmed(p, s)
    <3>1. CASE s = 0
      BY <1>2, <1>6, <1>12, <1>14, <2>1, <3>1
    <3>2. CASE s = 1
      BY <1>2, <1>6, <1>12, <1>14, <2>1, <3>2
    <3> QED
      BY <3>1, <3>2
  <2>3. KidOK(p, s)'
    <3>1. Armed(p, s)'
      BY <1>5, <1>8, <1>11, <2>2 DEF Armed
    <3> QED
      BY <1>10, <2>2, <3>1 DEF KidOK
  <2>4. KidOK(p, w)'
    <3>1. (Armed(p, w)' <=> Armed(p, w)) /\ (Got(p, w)' <=> Got(p, w))
      BY <1>6, <1>11, <1>19, <2>2 DEF Armed, Got
    <3>2. KidOK(p, w)
      BY <1>6
    <3> QED
      BY <1>6, <1>10, <1>14, <1>19, <2>2, <3>1, <3>2 DEF KidOK
  <2>5. Count(p)' = Count(p)
    <3>1. ~Counted(p, s) /\ ~Counted(p, s)' /\ (Counted(p, w)' <=> Counted(p, w))
      BY <1>6, <1>10, <1>16, <1>19, <2>2 DEF Counted
    <3>2. (Counted(p, 0)' <=> Counted(p, 0)) /\ (Counted(p, 1)' <=> Counted(p, 1))
      BY <2>1, <3>1
    <3> QED
      BY <3>2 DEF Count
  <2>6. KidOK(p, 0)' /\ KidOK(p, 1)'
    BY <2>1, <2>3, <2>4
  <2>7. (Arms(p, 0) \/ Arms(p, 1) \/ Hooks(p)) /\ (Arms(p, 0) \/ Arms(p, 1) \/ Hooks(p))' /\ ~Arms(p, 0)' /\ ~Hooks(p)
    BY <1>6, <1>10
  <2>8. fut[p].on_drop = Nop /\ fut'[p].on_drop = Nop
    BY <1>6, <1>15, <2>7 DEF OpenOK
  <2>9. IsJoin(p) => Count(p) = cnt[p] /\ cnt[p] # 2
    <3>1. IsJoin(p) => Count(p) = cnt[p] + 0 /\ cnt[p] # 2
      BY <1>6, <2>7 DEF OpenOK
    <3>2. cnt[p] \in 0 .. 2
      BY <1>1 DEF Typed
    <3> QED
      BY <3>1, <3>2
  <2>10. (IsJoin(p) => Count(p) = cnt[p] + (IF Tallies(p) THEN 1 ELSE 0) /\ (cnt[p] = 2 => Hooks(p)))'
    <3>1. cnt[p] \in 0 .. 2
      BY <1>1 DEF Typed
    <3> QED
      BY <1>10, <1>14, <2>5, <2>9, <3>1
  <2> QED
    BY <2>6, <2>7, <2>8, <2>10 DEF OpenOK
<1>21. NodeOK(p)'
  <2>1. FutureOK(p)'
    BY <1>4, <1>6, <1>10, <1>11, <1>14, <1>15 DEF FutureOK
  <2>2. MineOK(p)'
    BY <1>4, <1>6, <1>10, <1>11, <1>14, <1>15 DEF MineOK
  <2>3. BlocksOK(p)'
    BY <1>4, <1>6, <1>7, <1>11, <1>14, <1>15 DEF BlocksOK, OneOf
  <2>4. OwnerOK(p)'
    BY <1>6, <1>15 DEF OwnerOK, PENDING, READY
  <2>5. BuiltOK(p)'
    <3>1. \A v \in 0 .. 2 : ~Yields(p, v)' /\ ~Resolves(p, v)'
      BY <1>6, <1>10, <1>15 DEF Yields, PENDING, READY, CANCELLED, Resolved
    <3>2. \A r \in {0, 1} : (In(p, r) \notin mine \cup held /\ ~Virgin(In(p, r)))'
      <4>1. \A z \in {x, y} : Virgin(z)' <=> Virgin(z)
        BY <1>16, <1>19
      <4>2. \A r \in {0, 1} : In(p, r) \in {x, y}
        BY <1>2
      <4> QED
        BY <1>6, <1>14, <4>1, <4>2 DEF BuiltOK
    <3>3. ~Resolved(p)'
      BY <1>6, <1>15 DEF PENDING, READY, CANCELLED, Resolved
    <3> QED
      BY <1>15, <1>20, <3>1, <3>2, <3>3 DEF BuiltOK
  <2>6. CallsOK(p)'
    BY <1>6, <1>10, <1>11, <1>14, <1>15 DEF CallsOK
  <2> QED
    BY <1>6, <1>15, <2>1, <2>2, <2>3, <2>4, <2>5, <2>6 DEF NodeOK, NewOK, CombOK
<1>22. Moved(x)
  <2>1. ASSUME x \in Combs, NEW r \in {0, 1}, Holder(x, r) PROVE Holder(x, r)'
    <3>1. Open(x) => Open(x)'
      BY <1>6, <1>10, <1>11, <1>16 DEF Open
    <3>2. \A v \in 0 .. 2 : ~Yields(x, v)
      BY <1>5, <1>6, <1>16 DEF Yields, Resolved, PENDING, READY, CANCELLED
    <3> QED
      BY <1>14, <2>1, <3>1, <3>2 DEF Holder
  <2> QED
    BY <1>16, <1>18, <2>1 DEF Moved
<1>23. (\E D \in SUBSET Nodes : Doomed(D))'
  BY <1>10, NoDoom
<1>24. ASSUME NEW q \in Combs, NEW r \in {0, 1}
       PROVE  HookOK(q, r)' \/ (BlockKept(On(q, r)) /\ (HookNeed(q, r)' <=> HookNeed(q, r)))
  <2>1. PICK z \in Nodes : In(q, r) = z /\ In(q, r)' = z
    BY <1>1, <1>14, InNodes
  <2>2. BlockKept(On(q, r))
    BY <1>7 DEF BlockKept
  <2>3. CASE q = p /\ r = s
    <3>1. HookNeed(q, r) /\ HookNeed(q, r)'
      BY <1>2, <1>5, <1>6, <1>8, <1>11, <2>1, <2>3 DEF HookNeed, Lent
    <3> QED
      BY <2>2, <3>1
  <2>4. CASE ~(q = p /\ r = s)
    <3>1. On(q, r) # On(p, s) /\ On(q, r) # Nop
      BY <2>4, OnOf, NotNop
    <3>2. Unarmed(q, r)' <=> Unarmed(q, r)
      BY <1>6, <1>11, <1>12, <2>4
    <3>3. (Lent(z) /\ Waker(z) = On(q, r))' <=> (Lent(z) /\ Waker(z) = On(q, r))
      <4>1. CASE z = x
        BY <1>5, <1>8, <3>1, <4>1
      <4>2. CASE z # x
        <5>1. State(z)' = State(z) /\ Waker(z)' = Waker(z)
          BY <1>8, <4>2 DEF State, Waker
        <5> QED
          BY <1>6, <1>10, <1>11, <5>1 DEF Lent
      <4> QED
        BY <4>1, <4>2
    <3>4. HookNeed(q, r)' <=> HookNeed(q, r)
      BY <2>1, <3>2, <3>3 DEF HookNeed
    <3> QED
      BY <2>2, <3>4
  <2> QED
    BY <2>3, <2>4
<1>25. PICK e \in Nodes, f \in Nodes : In(p, 0) = e /\ In(p, 1) = f /\ {e, f} = {x, y}
  <2>1. CASE s = 0
    BY <1>2, <2>1
  <2>2. CASE s = 1
    BY <1>2, <2>2
  <2> QED
    BY <2>1, <2>2
<1>26. \A z \in Nodes : z \notin {p, e, f} => Same(z) /\ NodeBlocksKept(z)
  BY <1>11, <1>13, <1>25
<1>27. \A z \in {e, f} : Moved(z) \/ (Same(z) /\ NodeBlocksKept(z) /\ OwnerOK(z)')
  BY <1>3, <1>11, <1>13, <1>17, <1>22, <1>25
<1> HIDE DEF a
<1> QED
  BY <1>6, <1>7, <1>9, <1>15, <1>21, <1>23, <1>24, <1>25, <1>26, <1>27, Family

(* Clearing an empty waker.                                                 *)
LEMMA SameUnhooked ==
  ASSUME NEW f \in [Nodes -> Futures], NEW m \in Nodes, f[m].waker = Nop
  PROVE  Unhooks(f, m) = f
<1>1. [f[m] EXCEPT !.waker = Nop] = f[m]
  <2>1. f[m] \in Futures
    OBVIOUS
  <2> QED
    BY <2>1 DEF Futures
<1>2. Unhooks(f, m) = [f EXCEPT ![m] = [f[m] EXCEPT !.waker = Nop]]
  BY DEF Unhooks
<1> QED
  BY <1>1, <1>2

(* A join counts one that is done.                                          *)
LEMMA ArmCounts ==
  ASSUME IInv, todo # <<>>, NEW p \in Combs, NEW s \in {0, 1}, Head(todo) = Arm(p, s), IsJoin(p),
         State(In(p, s)) # PENDING, Then(<<FreeAll({On(p, s)})>> \o Next1(p, s)), fut' = Unhooks(fut, In(p, s)),
         cnt' = [cnt EXCEPT ![p] = @ + 1],
         UNCHANGED <<kind, inputs, live, reg, mine, held, done, taken>>
  PROVE  IInv'
<1>1. Typed /\ Ordered
  BY DEF IInv
<1> DEFINE a == IF s = 0 THEN Arm(p, 1) ELSE Op("hook", p)
           b == FreeAll({On(p, s)})
<1>2. PICK x \in Nodes, y \in Nodes : In(p, s) = x /\ In(p, 1 - s) = y
  BY <1>1, InNodes
<1>3. x # p /\ y # p /\ x # y
  BY <1>1, <1>2, Above2, KidsDiffer
<1>4. /\ OwnerOK(x) /\ HookOK(p, s)
      /\ FutureOK(p) /\ MineOK(p) /\ BlocksOK(p) /\ OwnerOK(p) /\ CombOK(p) /\ NewOK(p)
  BY ArmFacts DEF IInv
<1>5. Loose(x) /\ Alive(x) /\ Waker(x) = Nop /\ State(x) = READY /\ x \notin taken
  BY <1>2, ArmFacts DEF Loose
<1>6. /\ Up(Head(todo)) /\ FreesIn(Head(todo)) = {} /\ p \in Nodes /\ p \notin Leaves
      /\ \A z : ~Drops(z) /\ ~Releases(z) /\ ~FreesNode(z) /\ ~Settles(z) /\ ~Hooks(z) /\ ~Tallies(z) /\ ~Calls(z)
      /\ \A z, w : (Arms(z, w) <=> z = p /\ w = s) /\ ~Resolves(z, w)
      /\ \A z : ~Claimed(z) /\ ~Completes(z)
      /\ \A z, r : z # p => ~Unarmed(z, r)
      /\ \A r \in {0, 1} : Unarmed(p, r) <=> s = 0 \/ r = 1
      /\ p \in mine /\ Alive(p) /\ State(p) = PENDING /\ Waker(p) = Nop /\ Open(p) /\ ~Virgin(p) /\ Unresolved(p)
      /\ BuiltOK(p) /\ CallsOK(p) /\ OpenOK(p) /\ \A r \in {0, 1} : KidOK(p, r)
  BY ArmFacts
<1>7. On(p, s) \in live /\ ~Frees(On(p, s))
  <2>1. HookNeed(p, s)
    BY <1>6 DEF HookNeed
  <2> QED
    BY <1>4, <2>1 DEF HookOK, OneOf, HookNeed
<1>8. todo' \in Seq(AllOps) /\ Ordered' /\ Replaced({a, b}) /\ \A c : Frees(c)' <=> Frees(c) \/ c = On(p, s)
  <2>1. a \in AllOps
    <3>1. Arm(p, 1) \in AllOps
      BY SMT DEF AllOps, Arm
    <3>2. Op("hook", p) \in AllOps
      BY SMT DEF AllOps, Op
    <3> QED
      BY <3>1, <3>2
  <2>2. {On(p, s)} \in SUBSET Envs
    BY EnvKinds
  <2>3. b \in AllOps
    BY <2>2, SMT DEF AllOps, FreeAll, Op
  <2>4. /\ Claims(a) = {} /\ FreesIn(a) = {} /\ FreesIn(b) = {On(p, s)} /\ ~Up(b)
        /\ a[1] # "call" /\ a[1] # "tally"
    BY ClaimsOf, OpFacts
  <2>5. Fits(a) /\ Fits(b)
    BY <1>1, <1>6, <1>7, <2>2, <2>4, FitsFacts
  <2>6. Above(b, a)
    BY <2>4 DEF Above
  <2>7. <<b>> \o Next1(p, s) = <<b, a>>
    <3>1. Next1(p, s) = <<a>>
      BY DEF Next1
    <3> HIDE DEF a, b
    <3>2. <<b>> \o <<a>> = <<b, a>>
      BY <2>1, <2>3, Cat2
    <3> QED
      BY <3>1, <3>2
  <2>8. todo' = <<b, a>> \o Rest
    <3>1. Then(<<b>> \o Next1(p, s))
      OBVIOUS
    <3> HIDE DEF a, b
    <3>2. Then(<<b, a>>)
      BY <2>7, <3>1
    <3> QED
      BY <3>2, ThenRest
  <2> HIDE DEF a, b
  <2>9. todo' \in Seq(AllOps) /\ Ordered' /\ Replaced({b, a}) /\ FreesAre(FreesIn(b) \cup FreesIn(a))
    BY <1>1, <2>1, <2>3, <2>5, <2>6, <2>8, Push2
  <2>10. {a, b} = {b, a}
    OBVIOUS
  <2> QED
    BY <1>6, <2>4, <2>9, <2>10 DEF FreesAre
<1>9. fut' = fut
  BY <1>1, <1>2, <1>5, SameUnhooked DEF Typed, Waker
<1>10. /\ \A z : ~Drops(z)' /\ ~Releases(z)' /\ ~FreesNode(z)' /\ ~Settles(z)' /\ (Hooks(z)' <=> s = 1 /\ z = p) /\ ~Tallies(z)' /\ ~Calls(z)'
       /\ \A z, w : (Arms(z, w)' <=> s = 0 /\ z = p /\ w = 1) /\ ~Resolves(z, w)'
  <2> DEFINE S == {a, b}
  <2>1. \A z, w : (Arm(z, w) \in S <=> s = 0 /\ z = p /\ w = 1) /\ Complete(z, w) \notin S
    BY OpFacts
  <2>2. \A z : /\ Op("drop", z) \notin S /\ Op("release", z) \notin S /\ Op("Future_free", z) \notin S /\ Op("settle", z) \notin S
               /\ (Op("hook", z) \in S <=> s = 1 /\ z = p) /\ Op("tally", z) \notin S /\ Op("call", z) \notin S
    BY OpFacts
  <2>3. Replaced(S)
    BY <1>8
  <2> HIDE DEF S
  <2>4. ASSUME NEW z
        PROVE  /\ ~Drops(z)' /\ ~Releases(z)' /\ ~FreesNode(z)' /\ ~Settles(z)' /\ (Hooks(z)' <=> s = 1 /\ z = p) /\ ~Tallies(z)' /\ ~Calls(z)'
               /\ \A w : (Arms(z, w)' <=> s = 0 /\ z = p /\ w = 1) /\ ~Resolves(z, w)'
    BY <1>1, <1>6, <2>1, <2>2, <2>3, BareNext, ZenonT(40)
  <2> QED
    BY <2>4
<1>11. /\ \A z : /\ ~Claimed(z)' /\ ~Completes(z)' /\ (Alive(z)' <=> Alive(z))
                 /\ fut'[z] = fut[z] /\ State(z)' = State(z) /\ Waker(z)' = Waker(z)
                 /\ (Lent(z)' <=> Lent(z)) /\ (Kept(z)' <=> Kept(z)) /\ (Loose(z)' <=> Loose(z)) /\ (Virgin(z)' <=> Virgin(z))
                 /\ \A r : z # p => ~Unarmed(z, r)'
       /\ \A r \in {0, 1} : Unarmed(p, r)' <=> s = 0 /\ r = 1
  <2>1. \A z : /\ ~Claimed(z)' /\ ~Completes(z)' /\ (Alive(z)' <=> Alive(z))
               /\ fut'[z] = fut[z] /\ State(z)' = State(z) /\ Waker(z)' = Waker(z)
               /\ \A r : z # p => ~Unarmed(z, r)'
    BY <1>9, <1>10 DEF Claimed, Completes, Alive, State, Waker, Unarmed
  <2>2. \A r \in {0, 1} : Unarmed(p, r)' <=> s = 0 /\ r = 1
    BY <1>10 DEF Unarmed
  <2>3. \A z : (Lent(z)' <=> Lent(z)) /\ (Kept(z)' <=> Kept(z)) /\ (Loose(z)' <=> Loose(z)) /\ (Virgin(z)' <=> Virgin(z))
    BY <1>6, <1>10, <2>1 DEF Lent, Kept, Untaken, Loose, Virgin
  <2> QED
    BY <2>1, <2>2, <2>3
<1>12. cnt' \in [Combs -> 0 .. 2] /\ cnt'[p] = cnt[p] + 1 /\ (\A z \in Combs : z # p => cnt'[z] = cnt[z]) /\ Count(p) = cnt[p] /\ cnt[p] \in 0 .. 1
  <2>1. cnt \in [Combs -> 0 .. 2]
    BY <1>1 DEF Typed
  <2>2. Count(p) = cnt[p] + 0
    BY <1>6 DEF OpenOK
  <2>3. Count(p) = cnt[p]
    BY <2>1, <2>2
  <2>4. Count(p) \in 0 .. 1
    <3>1. ~Counted(p, s)
      BY <1>6 DEF Counted
    <3>2. ~Counted(p, 0) \/ ~Counted(p, 1)
      BY <3>1
    <3> QED
      BY <3>2 DEF Count
  <2>5. cnt[p] + 1 \in 0 .. 2
    BY <2>3, <2>4
  <2> QED
    BY <2>1, <2>3, <2>4, <2>5
<1>13. Typed' /\ Fixed
  BY <1>1, <1>8, <1>9, <1>12 DEF Typed, Fixed
<1>14. \A c : c # On(p, s) => BlockKept(c)
  BY <1>8 DEF BlockKept
<1>15. \A z : NodeBlocksKept(z)
  <2> SUFFICES ASSUME NEW z PROVE NodeBlocksKept(z)
    OBVIOUS
  <2>1. On(p, s) \notin {Resume(z), Reap(z), Cb(z), Cnt(z)}
    BY Owners
  <2> QED
    BY <1>14, <2>1 DEF NodeBlocksKept
<1>16. \A z \in Nodes : z # p => Same(z)
  BY <1>6, <1>10, <1>11, <1>12 DEF Same, OpsSame
<1>17. /\ \A q, r : In(q, r)' = In(q, r)
       /\ \A q : (IsJoin(q)' <=> IsJoin(q))
  BY <1>13, InFrame
<1>18. Unresolved(p)' /\ Open(p)' /\ ~Virgin(p)'
  BY <1>6, <1>10, <1>11 DEF Unresolved, Open, Virgin
<1>19. \A r \in {0, 1} : \A c \in Nodes : In(p, r) = c => OwnerOK(c)'
  <2> SUFFICES ASSUME NEW r \in {0, 1}, NEW c \in Nodes, In(p, r) = c PROVE OwnerOK(c)'
    OBVIOUS
  <2>1. Parent(c)'
    BY <1>17, <1>18 DEF Parent, Holder
  <2> QED
    BY <2>1 DEF OwnerOK
<1>20. OpenOK(p)'
  <2>1. PICK w \in {0, 1} : w = 1 - s /\ w # s /\ \A r \in {0, 1} : r = s \/ r = w
    <3>1. 1 - s \in {0, 1} /\ 1 - s # s /\ \A r \in {0, 1} : r = s \/ r = 1 - s
      OBVIOUS
    <3> QED
      BY <3>1
  <2>2. In(p, w) = y /\ In(p, w)' = y /\ In(p, s)' = x /\ (Unarmed(p, w)' <=> Unarmed(p, w)) /\ ~Unarmed(p, s)' /\ Unarmed(p, s)
    <3>1. CASE s = 0
      BY <1>2, <1>6, <1>11, <1>17, <2>1, <3>1
    <3>2. CASE s = 1
      BY <1>2, <1>6, <1>11, <1>17, <2>1, <3>2
    <3> QED
      BY <3>1, <3>2
  <2>3. KidOK(p, s)'
    <3>1. Got(p, s)'
      BY <1>5, <1>11, <2>2 DEF Got, Kept, Untaken, Loose
    <3> QED
      BY <1>10, <1>17, <2>2, <3>1 DEF KidOK
  <2>4. KidOK(p, w)'
    <3>1. (Armed(p, w)' <=> Armed(p, w)) /\ (Got(p, w)' <=> Got(p, w))
      BY <1>6, <1>11, <2>2 DEF Armed, Got
    <3>2. KidOK(p, w)
      BY <1>6
    <3> QED
      BY <1>6, <1>10, <1>11, <1>17, <2>2, <3>1, <3>2 DEF KidOK
  <2>5. ~Counted(p, s) /\ Counted(p, s)' /\ (Counted(p, w)' <=> Counted(p, w))
    BY <1>5, <1>6, <1>10, <1>11, <2>2 DEF Counted
  <2>6. Count(p)' = Count(p) + 1
    <3>1. CASE s = 0
      <4>1. w = 1
        BY <2>1, <3>1
      <4> QED
        BY <2>5, <3>1, <4>1 DEF Count
    <3>2. CASE s = 1
      <4>1. w = 0
        BY <2>1, <3>2
      <4> QED
        BY <2>5, <3>2, <4>1 DEF Count
    <3> QED
      BY <3>1, <3>2
  <2>7. KidOK(p, 0)' /\ KidOK(p, 1)'
    BY <2>1, <2>3, <2>4
  <2>8. (Arms(p, 0) \/ Arms(p, 1) \/ Hooks(p)) /\ (Arms(p, 0) \/ Arms(p, 1) \/ Hooks(p))' /\ ~Arms(p, 0)'
    BY <1>6, <1>10
  <2>9. fut[p].on_drop = Nop /\ fut'[p].on_drop = Nop
    BY <1>6, <1>11, <2>8 DEF OpenOK
  <2>10. (Count(p) = cnt[p] + IF Tallies(p) THEN 1 ELSE 0)'
    <3>1. cnt'[p] \in 0 .. 2
      BY <1>12
    <3>2. Count(p)' = cnt'[p] + 0
      BY <1>12, <2>6, <3>1
    <3> QED
      BY <1>10, <3>2
  <2>11. cnt'[p] = 2 => Hooks(p)'
    <3>1. CASE s = 0
      <4>1. w = 1 /\ Unarmed(p, 1)
        BY <1>6, <2>1, <3>1
      <4>2. ~Counted(p, 0) /\ ~Counted(p, 1)
        BY <2>5, <3>1, <4>1 DEF Counted
      <4>3. Count(p) = 0
        BY <4>2 DEF Count
      <4> QED
        BY <1>12, <4>3
    <3>2. CASE s = 1
      BY <1>10, <3>2
    <3> QED
      BY <3>1, <3>2
  <2> QED
    BY <2>7, <2>8, <2>9, <2>10, <2>11 DEF OpenOK
<1>21. NodeOK(p)'
  <2>1. FutureOK(p)'
    BY <1>4, <1>6, <1>10, <1>11, <1>17, <1>18 DEF FutureOK
  <2>2. MineOK(p)'
    BY <1>4, <1>6, <1>10, <1>11, <1>17 DEF MineOK
  <2>3. BlocksOK(p)'
    <3>1. Resume(p) # On(p, s) /\ Reap(p) # On(p, s) /\ Cb(p) # On(p, s) /\ Cnt(p) # On(p, s)
      BY Owners
    <3>2. OneOf(Resume(p), Lent(p) /\ Waker(p) = Resume(p))' /\ OneOf(Reap(p), Lent(p) /\ Waker(p) = Reap(p))'
      BY <1>4, <1>8, <1>11, <3>1 DEF BlocksOK, OneOf
    <3>3. OneOf(Cnt(p), IsJoin(p) /\ Open(p))'
      BY <1>4, <1>6, <1>8, <1>17, <1>18, <3>1 DEF BlocksOK, OneOf
    <3> QED
      BY <1>4, <1>6, <1>11, <3>2, <3>3 DEF BlocksOK
  <2>4. OwnerOK(p)'
    BY <1>6, <1>11 DEF OwnerOK, PENDING, READY
  <2>5. BuiltOK(p)'
    <3>1. \A v \in 0 .. 2 : ~Yields(p, v)' /\ ~Resolves(p, v)'
      BY <1>6, <1>10, <1>11 DEF Yields, PENDING, READY, CANCELLED, Resolved
    <3>2. \A r \in {0, 1} : (In(p, r) \notin mine \cup held /\ ~Virgin(In(p, r)))'
      BY <1>6, <1>11, <1>17 DEF BuiltOK
    <3>3. ~Resolved(p)'
      BY <1>6, <1>11 DEF PENDING, READY, CANCELLED, Resolved
    <3> QED
      BY <1>18, <1>20, <3>1, <3>2, <3>3 DEF BuiltOK
  <2>6. CallsOK(p)'
    BY <1>6, <1>10, <1>11, <1>17 DEF CallsOK
  <2> QED
    BY <1>6, <1>18, <2>1, <2>2, <2>3, <2>4, <2>5, <2>6 DEF NodeOK, NewOK, CombOK
<1>22. (\E D \in SUBSET Nodes : Doomed(D))'
  BY <1>10, NoDoom
<1>23. ASSUME NEW q \in Combs, NEW r \in {0, 1}
       PROVE  HookOK(q, r)' \/ (BlockKept(On(q, r)) /\ (HookNeed(q, r)' <=> HookNeed(q, r)))
  <2>1. PICK z \in Nodes : In(q, r) = z /\ In(q, r)' = z
    BY <1>1, <1>17, InNodes
  <2>2. CASE q = p /\ r = s
    <3>1. ~HookNeed(q, r)'
      <4>1. Waker(x)' # On(p, s)
        BY <1>5, <1>11, NotNop
      <4> QED
        BY <1>2, <1>11, <2>1, <2>2, <4>1 DEF HookNeed
    <3>2. On(p, s) \in live' /\ Frees(On(p, s))'
      BY <1>7, <1>8
    <3> QED
      BY <2>2, <3>1, <3>2 DEF HookOK, OneOf, HookNeed
  <2>3. CASE ~(q = p /\ r = s)
    <3>1. On(q, r) # On(p, s)
      BY <2>3, OnOf
    <3>2. Unarmed(q, r)' <=> Unarmed(q, r)
      BY <1>6, <1>11, <2>3
    <3>3. HookNeed(q, r)' <=> HookNeed(q, r)
      BY <1>11, <2>1, <3>2 DEF HookNeed
    <3> QED
      BY <1>14, <3>1, <3>3
  <2> QED
    BY <2>2, <2>3
<1>24. PICK e \in Nodes, f \in Nodes : In(p, 0) = e /\ In(p, 1) = f /\ {e, f} = {x, y}
  <2>1. CASE s = 0
    BY <1>2, <2>1
  <2>2. CASE s = 1
    BY <1>2, <2>2
  <2> QED
    BY <2>1, <2>2
<1>25. \A z \in Nodes : z \notin {p, e, f} => Same(z) /\ NodeBlocksKept(z)
  BY <1>15, <1>16
<1>26. \A z \in {e, f} : Moved(z) \/ (Same(z) /\ NodeBlocksKept(z) /\ OwnerOK(z)')
  BY <1>3, <1>15, <1>16, <1>19, <1>24
<1> HIDE DEF a, b
<1> QED
  BY <1>6, <1>8, <1>13, <1>18, <1>21, <1>22, <1>23, <1>24, <1>25, <1>26, Family

(* ArmJoin.                                                                 *)
LEMMA ArmJoinStep ==
  ASSUME IInv, ArmJoin
  PROVE  IInv'
<1>1. Typed /\ Ordered
  BY DEF IInv
<1>2. todo # <<>> /\ Head(todo)[1] = "arm"
  BY DEF ArmJoin, Running
<1>3. PICK p \in Combs, s \in {0, 1} : p = Head(todo)[2] /\ s = Head(todo)[3] /\ Head(todo) = Arm(p, s)
  BY <1>1, <1>2, RestFacts, Forms
<1>4. IsJoin(p)
  BY <1>3 DEF ArmJoin, Arg
<1>5. CASE State(In(p, s)) = PENDING
  <2>1. /\ Then(Next1(p, s)) /\ fut' = Waits(fut, In(p, s), On(p, s))
        /\ UNCHANGED <<kind, inputs, cnt, live, reg, mine, held, done, taken>>
    BY <1>3, <1>5 DEF ArmJoin, Arg, State, Waits
  <2> QED
    BY <1>2, <1>3, <1>5, <2>1, ArmWaits
<1>6. CASE State(In(p, s)) # PENDING
  <2>1. /\ Then(<<FreeAll({On(p, s)})>> \o Next1(p, s)) /\ fut' = Unhooks(fut, In(p, s))
        /\ cnt' = [cnt EXCEPT ![p] = @ + 1]
        /\ UNCHANGED <<kind, inputs, live, reg, mine, held, done, taken>>
    BY <1>3, <1>6 DEF ArmJoin, Arg, State, Unhooks
  <2> QED
    BY <1>2, <1>3, <1>4, <1>6, <2>1, ArmCounts
<1> QED
  BY <1>5, <1>6

(* Two operations and one.                                                  *)
LEMMA Cat21 ==
  ASSUME NEW a \in AllOps, NEW b \in AllOps, NEW c \in AllOps
  PROVE  <<a, b>> \o <<c>> = <<a, b, c>>
  BY Cat, ZenonT(40)

(* One operation, two and one.                                              *)
LEMMA Cat31 ==
  ASSUME NEW a \in AllOps, NEW b \in AllOps, NEW c \in AllOps, NEW d \in AllOps
  PROVE  <<a>> \o <<b, c>> \o <<d>> = <<a, b, c, d>>
<1>1. ASSUME NEW s \in Seq(AllOps), Len(s) = 4, s[1] = a, s[2] = b, s[3] = c, s[4] = d PROVE s = <<a, b, c, d>>
  BY <1>1, SeqEqual
<1>2. <<a>> \o <<b, c>> = <<a, b, c>>
  BY Cat3
<1> DEFINE s == <<a, b, c>> \o <<d>>
<1>3. s \in Seq(AllOps) /\ Len(s) = 4 /\ s[1] = a /\ s[2] = b /\ s[3] = c /\ s[4] = d
  OBVIOUS
<1> HIDE DEF s
<1>4. s = <<a, b, c, d>>
  BY <1>1, <1>3
<1> QED
  BY <1>2, <1>4 DEF s

(* What a select does with an input x that is resolved already.             *)
WonBy(p, s, x, y) ==
  /\ todo' \in Seq(AllOps) /\ Ordered'
  /\ Replaced({Op("drop", y), Complete(p, s), FreeAll({On(p, s), On(p, 1)})}
                \cup (IF kind[p] = "select2v" THEN {Op("Future_free", x)} ELSE {}))
  /\ \A e : Frees(e)' <=> Frees(e) \/ e \in {On(p, s), On(p, 1)}
  /\ On(p, s) \in live /\ On(p, 1) \in live

(* What AlreadyWon pushes.                                                  *)
LEMMA WonOps ==
  ASSUME IInv, todo # <<>>, NEW p \in Combs, NEW s \in {0, 1}, Head(todo) = Arm(p, s), ~IsJoin(p),
         NEW x \in Nodes, NEW y \in Nodes, In(p, s) = x, In(p, 1 - s) = y, x # y,
         Then(AlreadyWon(p, s))
  PROVE  WonBy(p, s, x, y)
<1>1. Typed /\ Ordered
  BY DEF IInv
<1> DEFINE own == kind[p] = "select2v"
           a == Op("drop", y)
           b == Op("Future_free", x)
           c == Complete(p, s)
           E == {On(p, s), On(p, 1)}
           d == FreeAll(E)
           u == IF s = 0 THEN b ELSE a
           v == IF s = 0 THEN a ELSE b
           S == {a, c, d} \cup (IF own THEN {b} ELSE {})
<1>2. \A e \in E : e \in live /\ ~Frees(e)
  <2>1. HookNeed(p, s) /\ HookNeed(p, 1)
    BY ArmFacts DEF HookNeed
  <2>2. HookOK(p, s) /\ HookOK(p, 1)
    BY DEF IInv
  <2> QED
    BY <2>1, <2>2 DEF HookOK, OneOf, HookNeed
<1>3. E \in SUBSET Envs
  BY EnvKinds
<1>4. a \in AllOps /\ b \in AllOps
  BY SMT DEF AllOps, Op
<1>5. d \in AllOps
  <2> HIDE DEF E
  <2> QED
    BY <1>3, SMT DEF AllOps, FreeAll, Op
<1>6. c \in AllOps
  <2>1. p \in Nodes
    BY ArmFacts
  <2> QED
    BY <2>1, SMT DEF AllOps, Complete
<1>7. Up(Head(todo)) /\ FreesIn(Head(todo)) = {}
  BY ArmFacts
<1>8. /\ FreesIn(a) = {} /\ FreesIn(b) = {} /\ FreesIn(c) = {} /\ FreesIn(d) = E
      /\ Claims(a) = {Fut(y)} /\ Claims(b) = {Fut(x)} /\ Claims(c) = {} /\ Claims(d) = E
      /\ ~Up(a) /\ ~Up(b) /\ ~Up(d)
      /\ a[1] = "drop" /\ b[1] = "Future_free" /\ c[1] = "complete" /\ d[1] = "free"
  BY ClaimsOf, OpFacts
<1>9. Fits(a) /\ Fits(b) /\ Fits(c) /\ Fits(d)
  <2>1. ~Claimed(x) /\ ~Claimed(y)
    BY ArmFacts
  <2>2. Fits(a) /\ Fits(b)
    BY <1>1, <2>1, FitsFacts
  <2>3. Fits(d)
    <3> HIDE DEF E
    <3> QED
      BY <1>1, <1>2, <1>3, FitsFacts
  <2>4. Fits(c)
    BY <1>1, <1>7, <1>8, FitsFacts
  <2> QED
    BY <2>2, <2>3, <2>4
<1>10. Fut(x) # Fut(y) /\ Fut(x) \notin E /\ Fut(y) \notin E
  BY Owners
<1>11. AlreadyWon(p, s) = <<d>> \o (IF s = 0 THEN (IF own THEN <<b>> ELSE <<>>) \o <<a>> ELSE <<a>> \o (IF own THEN <<b>> ELSE <<>>)) \o <<c>>
  BY DEF AlreadyWon
<1> HIDE DEF E
<1>12. CASE own
  <2>1. u \in AllOps /\ v \in AllOps /\ Fits(u) /\ Fits(v) /\ FreesIn(u) = {} /\ FreesIn(v) = {}
    BY <1>4, <1>8, <1>9
  <2>2. S = {d, u, v, c}
    BY <1>12
  <2>3. Above(d, u) /\ Above(d, v) /\ Above(d, c) /\ Above(u, v) /\ Above(u, c) /\ Above(v, c)
    <3> HIDE DEF a, b, c, d
    <3>1. Above(d, a) /\ Above(d, b) /\ Above(d, c) /\ Above(a, b) /\ Above(b, a) /\ Above(a, c) /\ Above(b, c)
      BY <1>8, <1>10 DEF Above
    <3> QED
      BY <3>1
  <2>4. AlreadyWon(p, s) = <<d>> \o (<<u>> \o <<v>>) \o <<c>>
    <3> HIDE DEF a, b, c, d, own
    <3> QED
      BY <1>11, <1>12
  <2> HIDE DEF a, b, c, d, u, v, S, own
  <2>5. AlreadyWon(p, s) = <<d, u, v, c>>
    <3>1. <<u>> \o <<v>> = <<u, v>>
      BY <2>1, Cat2
    <3>2. <<d>> \o <<u, v>> \o <<c>> = <<d, u, v, c>>
      BY <1>5, <1>6, <2>1, Cat31
    <3> QED
      BY <2>4, <3>1, <3>2
  <2>6. todo' = <<d, u, v, c>> \o Rest
    BY <2>5, ThenRest
  <2>7. todo' \in Seq(AllOps) /\ Ordered' /\ Replaced({d, u, v, c}) /\ FreesAre(FreesIn(d) \cup FreesIn(u) \cup FreesIn(v) \cup FreesIn(c))
    BY <1>1, <1>5, <1>6, <1>9, <2>1, <2>3, <2>6, Push4
  <2>8. todo' \in Seq(AllOps) /\ Ordered' /\ Replaced(S) /\ \A e : Frees(e)' <=> Frees(e) \/ e \in E
    BY <1>7, <1>8, <2>1, <2>2, <2>7 DEF FreesAre
  <2> QED
    BY <1>2, <2>8 DEF WonBy, S, E, a, b, c, d, own
<1>13. CASE ~own
  <2>1. S = {d, a, c}
    BY <1>13
  <2>2. Above(d, a) /\ Above(d, c) /\ Above(a, c)
    <3> HIDE DEF a, b, c, d
    <3> QED
      BY <1>8, <1>10 DEF Above
  <2> HIDE DEF a, b, c, d, S, own
  <2>3. AlreadyWon(p, s) = <<d, a, c>>
    <3>2. <<>> \o <<a>> = <<a>> /\ <<a>> \o <<>> = <<a>>
      BY <1>4, Cat0
    <3>3. AlreadyWon(p, s) = <<d>> \o <<a>> \o <<c>>
      BY <1>11, <1>13, <3>2
    <3>4. <<d>> \o <<a>> = <<d, a>>
      BY <1>4, <1>5, Cat2
    <3>5. <<d, a>> \o <<c>> = <<d, a, c>>
      BY <1>4, <1>5, <1>6, Cat21
    <3> QED
      BY <3>3, <3>4, <3>5
  <2>4. todo' = <<d, a, c>> \o Rest
    BY <2>3, ThenRest
  <2>5. todo' \in Seq(AllOps) /\ Ordered' /\ Replaced({d, a, c}) /\ FreesAre(FreesIn(d) \cup FreesIn(a) \cup FreesIn(c))
    BY <1>1, <1>4, <1>5, <1>6, <1>9, <2>2, <2>4, Push3
  <2>6. todo' \in Seq(AllOps) /\ Ordered' /\ Replaced(S) /\ \A e : Frees(e)' <=> Frees(e) \/ e \in E
    BY <1>7, <1>8, <2>1, <2>5 DEF FreesAre
  <2> QED
    BY <1>2, <2>6 DEF WonBy, S, E, a, b, c, d, own
<1> QED
  BY <1>12, <1>13

(* An input of a select is resolved when the constructor looks at it.       *)
LEMMA ArmWon ==
  ASSUME IInv, todo # <<>>, NEW p \in Combs, NEW s \in {0, 1}, Head(todo) = Arm(p, s), ~IsJoin(p),
         State(In(p, s)) # PENDING, Then(AlreadyWon(p, s)), fut' = Parked(fut, In(p, s), On(p, s)),
         UNCHANGED <<kind, inputs, cnt, live, reg, mine, held, done, taken>>
  PROVE  IInv'
<1>1. Typed /\ Ordered /\ UniqueOK
  BY DEF IInv
<1>2. PICK x \in Nodes, y \in Nodes : In(p, s) = x /\ In(p, 1 - s) = y
  BY <1>1, InNodes
<1>3. x # p /\ y # p /\ x # y
  BY <1>1, <1>2, Above2, KidsDiffer
<1>0. WonBy(p, s, x, y)
  BY <1>2, <1>3, WonOps
<1> DEFINE own == kind[p] = "select2v"
           a == Op("drop", y)
           b == Op("Future_free", x)
           c == Complete(p, s)
           E == {On(p, s), On(p, 1)}
           d == FreeAll(E)
           S == {a, c, d} \cup (IF own THEN {b} ELSE {})
<1>4. /\ FutureOK(x) /\ MineOK(x) /\ BlocksOK(x) /\ OwnerOK(x)
      /\ x \in Leaves => LeafOK(x)
      /\ x \in Combs => CombOK(x) /\ NewOK(x)
      /\ FutureOK(p) /\ MineOK(p) /\ BlocksOK(p) /\ OwnerOK(p) /\ CombOK(p) /\ NewOK(p)
  BY ArmFacts DEF IInv
<1>5. Loose(x) /\ Alive(x) /\ Waker(x) = Nop /\ State(x) = READY /\ x \notin taken
  BY <1>2, ArmFacts DEF Loose
<1>6. /\ Up(Head(todo)) /\ FreesIn(Head(todo)) = {} /\ p \in Nodes /\ p \notin Leaves
      /\ \A z : ~Drops(z) /\ ~Releases(z) /\ ~FreesNode(z) /\ ~Settles(z) /\ ~Hooks(z) /\ ~Tallies(z) /\ ~Calls(z)
      /\ \A z, w : (Arms(z, w) <=> z = p /\ w = s) /\ ~Resolves(z, w)
      /\ \A z : ~Claimed(z) /\ ~Completes(z)
      /\ \A z, r : z # p => ~Unarmed(z, r)
      /\ \A r \in {0, 1} : Unarmed(p, r) <=> s = 0 \/ r = 1
      /\ p \in mine /\ Alive(p) /\ State(p) = PENDING /\ Waker(p) = Nop /\ Open(p) /\ ~Virgin(p) /\ Unresolved(p)
      /\ BuiltOK(p) /\ CallsOK(p) /\ OpenOK(p) /\ \A r \in {0, 1} : KidOK(p, r)
  BY ArmFacts
<1>7. /\ todo' \in Seq(AllOps) /\ Ordered' /\ Replaced(S) /\ \A e : Frees(e)' <=> Frees(e) \/ e \in E
      /\ \A e \in E : e \in live
  BY <1>0 DEF WonBy
<1>8. /\ fut' \in [Nodes -> Futures] /\ \A z \in Nodes : z # x => fut'[z] = fut[z]
      /\ State(x)' = READY /\ Waker(x)' = On(p, s) /\ fut'[x].on_drop = fut[x].on_drop /\ fut'[x].value = fut[x].value
  <2>1. On(p, s) \in Wakers
    BY EnvKinds DEF Wakers
  <2>2. fut[x].state # PENDING /\ fut[x].state = READY
    BY <1>2, <1>5 DEF State
  <2> QED
    BY <1>1, <1>2, <2>1, <2>2, ParkedFut DEF State, Waker, Typed
<1>9. Typed' /\ Fixed
  BY <1>1, <1>7, <1>8 DEF Typed, Fixed
<1>10. /\ \A z : /\ Drops(z)' <=> z = y
                 /\ FreesNode(z)' <=> own /\ z = x
                 /\ ~Releases(z)' /\ ~Settles(z)' /\ ~Hooks(z)' /\ ~Tallies(z)' /\ ~Calls(z)'
       /\ \A z, w : ~Arms(z, w)' /\ (Resolves(z, w)' <=> z = p /\ w = s)
  <2>1. \A z : /\ Op("drop", z) \in S <=> z = y
               /\ Op("Future_free", z) \in S <=> own /\ z = x
               /\ Op("release", z) \notin S /\ Op("settle", z) \notin S
               /\ Op("hook", z) \notin S /\ Op("tally", z) \notin S /\ Op("call", z) \notin S
    BY OpFacts
  <2>2. \A z, w : Arm(z, w) \notin S /\ (Complete(z, w) \in S <=> z = p /\ w = s)
    BY OpFacts
  <2> HIDE DEF S, own
  <2> QED
    BY <1>1, <1>6, <1>7, <2>1, <2>2, BareNext, ZenonT(40)
<1>11. /\ \A z : /\ (Claimed(z)' <=> z = y \/ (own /\ z = x))
                 /\ (Completes(z)' <=> z = p)
                 /\ \A r : ~Unarmed(z, r)'
       /\ \A z : z # p => ~Runs(z) /\ ~Runs(z)'
       /\ \A z : Alive(z)' <=> Alive(z)
  <2>1. \A z : /\ (Claimed(z)' <=> z = y \/ (own /\ z = x))
               /\ (Completes(z)' <=> z = p)
               /\ \A r : ~Unarmed(z, r)'
    BY <1>10 DEF Claimed, Completes, Unarmed
  <2>2. \A z : z # p => ~Runs(z) /\ ~Runs(z)'
    BY <1>6, <1>10, <2>1 DEF Runs
  <2> QED
    BY <2>1, <2>2 DEF Alive
<1>12. \A e : e \notin E => BlockKept(e)
  BY <1>7 DEF BlockKept
<1>13. \A z : NodeBlocksKept(z)
  <2> SUFFICES ASSUME NEW z PROVE NodeBlocksKept(z)
    OBVIOUS
  <2>1. Resume(z) \notin E /\ Reap(z) \notin E /\ Cb(z) \notin E /\ Cnt(z) \notin E
    BY Owners
  <2> HIDE DEF E
  <2> QED
    BY <1>12, <2>1 DEF NodeBlocksKept
<1>14. \A z \in Nodes : z \notin {p, x, y} => Same(z)
  BY <1>6, <1>8, <1>10, <1>11 DEF Same, OpsSame
<1>15. /\ \A q, r : In(q, r)' = In(q, r)
       /\ \A q : (IsJoin(q)' <=> IsJoin(q))
  BY <1>9, InFrame
<1>16. /\ fut'[p] = fut[p] /\ State(p)' = State(p) /\ Waker(p)' = Waker(p) /\ ~Virgin(p)' /\ Unresolved(p)'
       /\ ~Lent(p) /\ ~Lent(p)' /\ Full(p)' /\ Yields(p, s)' /\ ~Open(p)' /\ State(p)' # READY /\ ~Resolved(p)'
  <2>1. /\ fut'[p] = fut[p] /\ State(p)' = State(p) /\ Waker(p)' = Waker(p) /\ ~Virgin(p)' /\ Unresolved(p)'
        /\ State(p)' # READY /\ ~Resolved(p)'
    BY <1>3, <1>6, <1>8, <1>11 DEF State, Waker, Virgin, Unresolved, Resolved, PENDING, READY, CANCELLED
  <2>2. ~Lent(p) /\ ~Lent(p)'
    BY <1>6, <1>10, <2>1 DEF Lent, PENDING, WAITING, CANCELLED
  <2>3. ~Open(p)'
    BY <1>10, <1>11 DEF Open
  <2> QED
    BY <1>10, <1>11, <2>1, <2>2, <2>3 DEF Full, Yields, Resolved
<1>17. y \notin mine \cup held /\ x \notin mine \cup held /\ ~Virgin(x) /\ ~Virgin(y) /\ ~Virgin(x)' /\ ~Unresolved(x) /\ ~Unresolved(x)'
       /\ State(x)' # CANCELLED /\ State(x)' # PENDING /\ State(x)' # WAITING
  <2>1. y \notin mine \cup held /\ x \notin mine \cup held /\ ~Virgin(x) /\ ~Virgin(y)
    BY <1>2, <1>6 DEF BuiltOK
  <2> QED
    BY <1>5, <1>8, <2>1 DEF Virgin, Unresolved, PENDING, WAITING, READY, CANCELLED
<1>18. /\ Alive(y) /\ State(y) # CANCELLED /\ y \notin taken /\ State(y)' = State(y)
       /\ State(y) = READY => Waker(y) = Nop
       /\ s = 0 => Waker(y) = Nop
  <2>1. CASE s = 0
    <3>1. In(p, 1) = y /\ In(p, 0) = x
      BY <1>2, <2>1
    <3>2. Unarmed(p, 1) /\ Arms(p, 0)
      BY <1>6, <2>1
    <3>3. Loose(y)
      BY <1>6, <3>1, <3>2 DEF KidOK
    <3>4. State(y) # CANCELLED
      BY <3>3 DEF Loose, PENDING, READY, CANCELLED
    <3> QED
      BY <1>3, <1>8, <3>3, <3>4 DEF Loose, State
  <2>2. CASE s = 1
    <3>1. In(p, 0) = y
      BY <1>2, <2>2
    <3>2. ~Unarmed(p, 0)
      BY <1>6, <2>2
    <3>3. Armed(p, 0)
      BY <1>6, <3>2 DEF KidOK
    <3>4. Alive(y) /\ State(y) = WAITING
      BY <3>1, <3>3 DEF Armed
    <3>5. y \notin taken
      BY <3>4 DEF IInv, FutureOK, WAITING, READY
    <3> QED
      BY <1>3, <1>8, <2>2, <3>4, <3>5 DEF State, WAITING, READY, CANCELLED
  <2> QED
    BY <2>1, <2>2
<1>19. OwnerOK(x)' /\ OwnerOK(y)'
  <2>1. Holder(p, s)' /\ In(p, s)' = x
    <3>1. s \in 0 .. 2 /\ Yields(p, s)'
      BY <1>16
    <3> QED
      BY <1>2, <1>15, <3>1 DEF Holder
  <2>2. Parent(x)'
    BY <2>1 DEF Parent
  <2> QED
    BY <1>10, <1>11, <1>15, <1>18, <2>2 DEF OwnerOK
<1>20. NodeOK(x)'
  <2>1. FutureOK(x)'
    <3>1. \E q \in Combs, r \in {0, 1} : In(q, r)' = x /\ Waker(x)' = On(q, r)
      BY <1>2, <1>8, <1>15
    <3> QED
      BY <1>3, <1>5, <1>8, <1>10, <1>11, <1>17, <3>1 DEF FutureOK
  <2>2. Waker(x)' # Resume(x) /\ Waker(x)' # Reap(x) /\ Waker(x) # Resume(x) /\ Waker(x) # Reap(x)
    BY <1>5, <1>8, Owners, NotNop
  <2>3. MineOK(x)'
    BY <1>10, <1>17, <2>2 DEF MineOK
  <2>4. x \in Combs => ~Open(x) /\ ~Open(x)'
    BY <1>6, <1>10, <1>17 DEF Open
  <2>5. BlocksOK(x)'
    <3>1. OneOf(Resume(x), FALSE) /\ OneOf(Reap(x), FALSE)
      BY <1>4, <2>2 DEF BlocksOK, OneOf
    <3>2. Resume(x) \notin E /\ Reap(x) \notin E /\ Cb(x) \notin E /\ Cnt(x) \notin E
      BY Owners
    <3>3. OneOf(Resume(x), Lent(x) /\ Waker(x) = Resume(x))' /\ OneOf(Reap(x), Lent(x) /\ Waker(x) = Reap(x))'
      <4> HIDE DEF E
      <4> QED
        BY <1>7, <2>2, <3>1, <3>2 DEF OneOf
    <3>4. x \in Leaves => OneOf(Cb(x), x \in reg)'
      <4> HIDE DEF E
      <4> QED
        BY <1>4, <1>7, <3>2 DEF BlocksOK, OneOf
    <3>5. x \in Combs => OneOf(Cnt(x), IsJoin(x) /\ Open(x))'
      <4> HIDE DEF E
      <4> QED
        BY <1>4, <1>7, <2>4, <3>2 DEF BlocksOK, OneOf
    <3> QED
      BY <1>4, <1>8, <1>11, <3>3, <3>4, <3>5 DEF BlocksOK
  <2>6. x \in Leaves => LeafOK(x)'
    BY <1>4, <1>5, <1>6, <1>8, <1>10, <1>11, <1>17 DEF LeafOK
  <2>7. ASSUME x \in Combs PROVE NewOK(x)' /\ CombOK(x)'
    <3>1. PICK e \in Nodes, f \in Nodes : In(x, 0) = e /\ In(x, 1) = f
      BY <1>1, <2>7, InNodes
    <3>2. KidSame(e) /\ KidSame(f)
      <4>1. e # x /\ f # x
        BY <1>1, <2>7, <3>1, Above2
      <4>2. e # p /\ f # p
        BY <1>1, <1>2, <2>7, <3>1, NoLoop
      <4>3. e # y /\ f # y
        <5>1. 1 - s \in {0, 1}
          OBVIOUS
        <5>2. \A r \in {0, 1} : In(x, r) # y
          BY <1>1, <1>2, <1>3, <1>6, <1>17, <2>7, <5>1 DEF UniqueOK
        <5> QED
          BY <3>1, <5>2
      <4> QED
        BY <1>14, <4>1, <4>2, <4>3, KidStates
    <3>3. Like(x)
      <4>1. (Resolved(x)' <=> Resolved(x)) /\ (Full(x)' <=> Full(x)) /\ \A v : Yields(x, v)' <=> Yields(x, v)
        BY <1>3, <1>5, <1>6, <1>8, <1>10, <1>11 DEF Full, Yields, Resolved
      <4> QED
        BY <1>3, <1>5, <1>6, <1>8, <1>10, <1>17, <2>4, <2>7, <4>1 DEF Like
    <3>4. ~Virgin(x)' => BuiltOK(x)'
      BY <1>4, <1>9, <2>7, <3>1, <3>2, <3>3, BuiltFrame DEF CombOK
    <3>5. CallsOK(x)'
      BY <1>4, <1>8, <1>10, <1>17, <2>7 DEF CallsOK, CombOK
    <3> QED
      BY <1>17, <3>4, <3>5 DEF NewOK, CombOK
  <2> QED
    BY <1>19, <2>1, <2>3, <2>5, <2>6, <2>7 DEF NodeOK
<1>21. Moved(x)
  <2>1. ASSUME x \in Combs, NEW r \in {0, 1}, Holder(x, r) PROVE Holder(x, r)'
    <3>1. ~Open(x)
      BY <1>6, <1>17 DEF Open
    <3>2. \A v \in 0 .. 2 : Yields(x, v) => Yields(x, v)'
      BY <1>5, <1>6, <1>8 DEF Yields, Resolved
    <3> QED
      BY <1>15, <2>1, <3>1, <3>2 DEF Holder
  <2> QED
    BY <1>17, <1>20, <2>1 DEF Moved
<1>22. PICK e \in Nodes, f \in Nodes : In(p, 0) = e /\ In(p, 1) = f /\ {e, f} = {x, y}
  <2>1. CASE s = 0
    BY <1>2, <2>1
  <2>2. CASE s = 1
    BY <1>2, <2>2
  <2> QED
    BY <2>1, <2>2
<1>23. \A z \in Nodes : z \notin {p, e, f} => Same(z) /\ NodeBlocksKept(z)
  BY <1>13, <1>14, <1>22
<1>24. Moved(y)
  <2>1. fut'[y] = fut[y]
    BY <1>3, <1>8
  <2>2. Claiming(y)
    BY <1>3, <1>6, <1>10, <1>11, <1>13, <1>17, <1>18, <2>1 DEF Claiming
  <2>3. \A k \in Nodes : k \notin {p, e, f} => Same(k)
    BY <1>23
  <2>4. y \in {In(p, 0), In(p, 1)}
    BY <1>22
  <2> QED
    BY <1>6, <1>9, <1>19, <1>22, <2>2, <2>3, <2>4, ClaimMoved
<1>25. Untaken(x)' /\ Spared(x)' /\ Gone(y)' /\ (own => Gone(x)') /\ (~own => Kept(x)')
  BY <1>3, <1>5, <1>8, <1>10, <1>11 DEF Untaken, Spared, Gone, Kept
<1>26. NodeOK(p)'
  <2>1. FutureOK(p)'
    BY <1>3, <1>4, <1>6, <1>10, <1>11, <1>15, <1>16 DEF FutureOK
  <2>2. MineOK(p)'
    BY <1>3, <1>4, <1>6, <1>10, <1>11, <1>15, <1>16 DEF MineOK
  <2>3. BlocksOK(p)'
    <3>1. Resume(p) \notin E /\ Reap(p) \notin E /\ Cb(p) \notin E /\ Cnt(p) \notin E
      BY Owners
    <3> HIDE DEF E
    <3>2. OneOf(Resume(p), Lent(p) /\ Waker(p) = Resume(p))' /\ OneOf(Reap(p), Lent(p) /\ Waker(p) = Reap(p))'
      BY <1>4, <1>7, <1>16, <3>1 DEF BlocksOK, OneOf
    <3>3. OneOf(Cnt(p), IsJoin(p) /\ Open(p))'
      BY <1>4, <1>7, <1>15, <3>1 DEF BlocksOK, OneOf
    <3> QED
      BY <1>4, <1>6, <1>11, <1>16, <3>2, <3>3 DEF BlocksOK
  <2>4. OwnerOK(p)'
    BY <1>6, <1>16 DEF OwnerOK
  <2>5. BuiltOK(p)'
    <3>1. \A v \in 0 .. 2 : (Yields(p, v)' => FullOK(p, v)') /\ (Resolves(p, v)' => ReasonOK(p, v)')
      <4>1. FullOK(p, s)'
        <5>1. In(p, s)' = x /\ In(p, 1 - s)' = y
          BY <1>2, <1>15
        <5>2. kind[p] = "select2" => ~own
          OBVIOUS
        <5>3. kind[p] # "select2" => own
          <6>1. kind[p] \in Kinds
            BY <1>1 DEF Typed
          <6> QED
            BY <6>1, KindsAssumption DEF IsJoin
        <5> HIDE DEF own
        <5> QED
          BY <1>15, <1>25, <5>1, <5>2, <5>3 DEF FullOK
      <4>2. ReasonOK(p, s)'
        BY <1>2, <1>15, <1>25 DEF ReasonOK
      <4>3. \A v \in 0 .. 2 : Yields(p, v)' \/ Resolves(p, v)' => v = s
        BY <1>10, <1>16 DEF Yields, Resolved
      <4> QED
        BY <4>1, <4>2, <4>3
    <3>2. \A r \in {0, 1} : (In(p, r) \notin mine \cup held /\ ~Virgin(In(p, r)))'
      <4>1. ~Virgin(y)'
        BY <1>3, <1>8, <1>11, <1>17 DEF Virgin, State
      <4>2. \A r \in {0, 1} : In(p, r) \in {x, y}
        BY <1>2
      <4> QED
        BY <1>6, <1>15, <1>17, <4>1, <4>2 DEF BuiltOK
    <3> QED
      BY <1>15, <1>16, <3>1, <3>2 DEF BuiltOK
  <2>6. CallsOK(p)'
    BY <1>6, <1>10, <1>16 DEF CallsOK
  <2> QED
    BY <1>6, <1>16, <2>1, <2>2, <2>3, <2>4, <2>5, <2>6 DEF NodeOK, NewOK, CombOK
<1>27. (\E D \in SUBSET Nodes : Doomed(D))'
  <2>1. 1 - s \in {0, 1}
    OBVIOUS
  <2>2. PICK D \in SUBSET Nodes : y \in D /\ p \notin D /\ \A q \in D \cap Combs : {In(q, 0), In(q, 1)} \subseteq D
    BY <1>1, <1>2, <2>1, Above2
  <2>3. Doomed(D)'
    <3>1. \A n \in Nodes : Drops(n)' \/ Calls(Cas(n))' => n \in D
      BY <1>10, <2>2
    <3>2. \A n \in D : ~Runs(n)'
      BY <1>11, <2>2
    <3>3. \A q \in D \cap Combs : {In(q, 0)', In(q, 1)'} \subseteq D
      BY <1>15, <2>2
    <3> QED
      BY <3>1, <3>2, <3>3 DEF Doomed
  <2> QED
    BY <2>3
<1>28. ASSUME NEW q \in Combs, NEW r \in {0, 1}
       PROVE  HookOK(q, r)' \/ (BlockKept(On(q, r)) /\ (HookNeed(q, r)' <=> HookNeed(q, r)))
  <2>1. PICK z \in Nodes : In(q, r) = z /\ In(q, r)' = z
    BY <1>1, <1>15, InNodes
  <2>2. ~Lent(x)'
    BY <1>8, <1>10, <1>17 DEF Lent
  <2>3. CASE q = p /\ (r = s \/ r = 1)
    <3>1. ~HookNeed(q, r)'
      <4>1. CASE r = s
        BY <1>2, <1>11, <2>1, <2>2, <2>3, <4>1 DEF HookNeed
      <4>2. CASE r # s
        <5>1. s = 0 /\ r = 1 /\ z = y
          BY <1>2, <2>1, <2>3, <4>2
        <5>2. Waker(y)' # On(q, r)
          BY <1>3, <1>8, <1>18, <5>1, NotNop DEF Waker
        <5> QED
          BY <1>11, <2>1, <5>1, <5>2 DEF HookNeed
      <4> QED
        BY <4>1, <4>2
    <3>2. On(q, r) \in live' /\ Frees(On(q, r))'
      BY <1>7, <2>3
    <3> QED
      BY <3>1, <3>2 DEF HookOK, OneOf, HookNeed
  <2>4. CASE ~(q = p /\ (r = s \/ r = 1))
    <3>1. On(q, r) \notin E
      BY <2>4, OnOf
    <3>2. ~Unarmed(q, r) /\ ~Unarmed(q, r)'
      BY <1>6, <1>11, <2>4
    <3>3. (Lent(z) /\ Waker(z) = On(q, r))' <=> (Lent(z) /\ Waker(z) = On(q, r))
      <4>1. CASE z = x
        <5>1. Waker(x) # On(q, r)
          BY <1>5, NotNop
        <5> QED
          BY <2>2, <4>1, <5>1
      <4>2. CASE z # x
        <5>1. State(z)' = State(z) /\ Waker(z)' = Waker(z)
          BY <1>8, <4>2 DEF State, Waker
        <5> QED
          BY <1>6, <1>10, <1>11, <5>1 DEF Lent
      <4> QED
        BY <4>1, <4>2
    <3>4. HookNeed(q, r)' <=> HookNeed(q, r)
      BY <2>1, <3>2, <3>3 DEF HookNeed
    <3> QED
      BY <1>12, <3>1, <3>4
  <2> QED
    BY <2>3, <2>4
<1>29. \A z \in {e, f} : Moved(z) \/ (Same(z) /\ NodeBlocksKept(z) /\ OwnerOK(z)')
  BY <1>21, <1>22, <1>24
<1> HIDE DEF own, a, b, c, d, E, S
<1> QED
  BY <1>6, <1>7, <1>9, <1>16, <1>22, <1>23, <1>26, <1>27, <1>28, <1>29, Family

(* ArmSelect.                                                               *)
LEMMA ArmSelectStep ==
  ASSUME IInv, ArmSelect
  PROVE  IInv'
<1>1. Typed /\ Ordered
  BY DEF IInv
<1>2. todo # <<>> /\ Head(todo)[1] = "arm"
  BY DEF ArmSelect, Running
<1>3. PICK p \in Combs, s \in {0, 1} : p = Head(todo)[2] /\ s = Head(todo)[3] /\ Head(todo) = Arm(p, s)
  BY <1>1, <1>2, RestFacts, Forms
<1>4. PICK x \in Nodes : In(p, s) = x
  BY <1>1, InNodes
<1>5. ~IsJoin(p) /\ fut' = Parked(fut, x, On(p, s)) /\ UNCHANGED <<kind, inputs, cnt, live, reg, mine, held, done, taken>>
      /\ Then(IF State(x) = PENDING THEN Next1(p, s) ELSE AlreadyWon(p, s))
  BY <1>3, <1>4 DEF ArmSelect, Arg, State, Parked
<1>6. CASE State(x) = PENDING
  <2>1. fut' = Waits(fut, x, On(p, s))
    BY <1>1, <1>5, <1>6 DEF State, Parked, Waits, Typed
  <2> QED
    BY <1>2, <1>3, <1>4, <1>5, <1>6, <2>1, ArmWaits
<1>7. CASE State(x) # PENDING
  BY <1>2, <1>3, <1>4, <1>5, <1>7, ArmWon
<1> QED
  BY <1>6, <1>7

(* Create: a combinator takes its inputs from the program.                  *)
LEMMA CreateStep ==
  ASSUME IInv, NEW n \in Combs, Create(n)
  PROVE  IInv'
<1>1. Typed /\ Ordered /\ UniqueOK /\ todo = <<>>
  BY DEF IInv, Create, Idle
<1>2. PICK x \in Nodes, y \in Nodes : In(n, 0) = x /\ In(n, 1) = y
  BY <1>1, InNodes
<1>3. /\ ~Alive(n) /\ n \notin mine \cup held /\ x \in mine /\ y \in mine
      /\ mine' = (mine \ {x, y}) \cup {n} /\ Start(<<Arm(n, 0)>>)
      /\ live' = live \cup {Fut(n)} \cup {On(n, 0), On(n, 1)} \cup (IF IsJoin(n) THEN {Cnt(n)} ELSE {})
      /\ UNCHANGED <<kind, inputs, fut, cnt, reg, held, done, taken>>
  BY <1>2 DEF Create, Alive, Closures
<1>4. /\ x # n /\ y # n /\ x # y /\ n \in Nodes /\ n \notin Leaves
  BY <1>1, <1>2, <1>3, KidsDiffer, InNodes
<1>5. /\ FutureOK(n) /\ MineOK(n) /\ BlocksOK(n) /\ OwnerOK(n) /\ CombOK(n) /\ NewOK(n)
  BY <1>4 DEF IInv
<1>6. Virgin(n)
  <2>1. ASSUME ~Virgin(n) PROVE FALSE
    <3>1. In(n, 0) \notin mine
      BY <1>5, <2>1 DEF CombOK, BuiltOK
    <3> QED
      BY <1>2, <1>3, <3>1
  <2> QED
    BY <2>1
<1>7. /\ fut[n] = NoFuture /\ cnt[n] = 0 /\ n \notin taken
      /\ State(n) = PENDING /\ Waker(n) = Nop /\ fut[n].on_drop = Nop
  BY <1>5, <1>6 DEF NewOK, State, Waker, NoFuture
<1>8. (\A z : Quiet(z)) /\ (\A b : ~Frees(b)) /\ (\A c : ~Calls(c))
  BY <1>1, IdleFacts
<1>9. todo' \in Seq(AllOps) /\ Ordered' /\ Replaced({Arm(n, 0)}) /\ \A c : ~Frees(c)'
  <2>1. Arm(n, 0) \in AllOps
    BY SMT DEF AllOps, Arm
  <2>2. Claims(Arm(n, 0)) = {} /\ FreesIn(Arm(n, 0)) = {}
    BY ClaimsOf
  <2>3. Fits(Arm(n, 0))
    BY <1>1, <2>2, FitsFacts
  <2>4. <<Arm(n, 0)>> \in Seq(AllOps)
    BY <2>1
  <2>5. todo' = <<Arm(n, 0)>> \o Rest
    BY <1>1, <1>3, <2>4, ThenRest
  <2>6. todo' \in Seq(AllOps) /\ Ordered' /\ Replaced({Arm(n, 0)}) /\ FreesAre(FreesIn(Arm(n, 0)))
    BY <1>1, <2>1, <2>3, <2>5, Push1
  <2> QED
    BY <1>1, <1>8, <2>2, <2>6 DEF FreesAre
<1>10. /\ \A z : ~Drops(z)' /\ ~Releases(z)' /\ ~FreesNode(z)' /\ ~Settles(z)' /\ ~Hooks(z)' /\ ~Tallies(z)' /\ ~Calls(z)'
       /\ \A z, w : (Arms(z, w)' <=> z = n /\ w = 0) /\ ~Resolves(z, w)'
  <2> DEFINE S == {Arm(n, 0)}
  <2>1. \A z, w : (Arm(z, w) \in S <=> z = n /\ w = 0) /\ Complete(z, w) \notin S
    BY OpFacts
  <2>2. \A z : /\ Op("drop", z) \notin S /\ Op("release", z) \notin S /\ Op("Future_free", z) \notin S /\ Op("settle", z) \notin S
               /\ Op("hook", z) \notin S /\ Op("tally", z) \notin S /\ Op("call", z) \notin S
    BY OpFacts
  <2>3. Replaced(S)
    BY <1>9
  <2> HIDE DEF S
  <2>4. ASSUME NEW z
        PROVE  /\ ~Drops(z)' /\ ~Releases(z)' /\ ~FreesNode(z)' /\ ~Settles(z)' /\ ~Hooks(z)' /\ ~Tallies(z)' /\ ~Calls(z)'
               /\ \A w : (Arms(z, w)' <=> z = n /\ w = 0) /\ ~Resolves(z, w)'
    BY <1>1, <2>1, <2>2, <2>3, BareNext
  <2> QED
    BY <2>4
<1>11. /\ \A z : ~Claimed(z) /\ ~Claimed(z)' /\ ~Completes(z) /\ ~Completes(z)' /\ \A r : ~Unarmed(z, r)
       /\ \A z, r : z # n => ~Unarmed(z, r)'
       /\ \A r \in {0, 1} : Unarmed(n, r)'
       /\ \A z : z # n => OpsSame(z)
  <2>1. \A z : ~Claimed(z) /\ ~Completes(z) /\ \A r : ~Unarmed(z, r)
    BY <1>8, QuietFacts
  <2>2. \A z : ~Claimed(z)' /\ ~Completes(z)'
    BY <1>10 DEF Claimed, Completes
  <2>3. (\A z, r : z # n => ~Unarmed(z, r)') /\ \A r \in {0, 1} : Unarmed(n, r)'
    BY <1>10 DEF Unarmed
  <2>4. ASSUME NEW z, z # n PROVE OpsSame(z)
    BY <1>8, <1>10, <2>4 DEF OpsSame, Quiet
  <2> QED
    BY <2>1, <2>2, <2>3, <2>4
<1>12. Typed' /\ Fixed
  <2>1. live' \subseteq LiveBlocks
    <3>1. Fut(n) \in LiveBlocks /\ On(n, 0) \in LiveBlocks /\ On(n, 1) \in LiveBlocks /\ Cnt(n) \in LiveBlocks
      BY <1>4, EnvKinds DEF LiveBlocks
    <3> QED
      BY <1>1, <1>3, <3>1 DEF Typed
  <2> QED
    BY <1>1, <1>3, <1>4, <1>9, <2>1 DEF Typed, Fixed
<1>13. /\ \A z : z # n => (Alive(z)' <=> Alive(z))
       /\ Alive(n)'
       /\ \A z : fut'[z] = fut[z] /\ State(z)' = State(z) /\ Waker(z)' = Waker(z)
       /\ \A z : z # n => (Virgin(z)' <=> Virgin(z)) /\ (Lent(z)' <=> Lent(z)) /\ (Loose(z)' <=> Loose(z)) /\ (Open(z)' <=> Open(z))
       /\ ~Virgin(n)' /\ ~Lent(n) /\ ~Lent(n)' /\ Open(n)'
  <2>1. \A z : z # n => (Alive(z)' <=> Alive(z))
    <3> SUFFICES ASSUME NEW z, z # n PROVE Fut(z) \in live' <=> Fut(z) \in live
      BY DEF Alive
    <3>1. Fut(z) # Fut(n) /\ Fut(z) # On(n, 0) /\ Fut(z) # On(n, 1) /\ Fut(z) # Cnt(n)
      BY Owners
    <3> QED
      BY <1>3, <3>1
  <2>2. Alive(n)'
    BY <1>3 DEF Alive
  <2>3. \A z : fut'[z] = fut[z] /\ State(z)' = State(z) /\ Waker(z)' = Waker(z)
    BY <1>3 DEF State, Waker
  <2>4. \A z : z # n => (Virgin(z)' <=> Virgin(z)) /\ (Lent(z)' <=> Lent(z)) /\ (Open(z)' <=> Open(z))
    BY <1>8, <1>10, <1>11, <2>1, <2>3 DEF Virgin, Lent, Open, Unresolved
  <2>5. \A z : z # n => (Loose(z)' <=> Loose(z))
    <3>1. \A z : ~Settles(z)
      BY <1>8 DEF Quiet
    <3> QED
      BY <1>3, <1>10, <1>11, <2>1, <2>3, <3>1 DEF Loose
  <2>6. ~Virgin(n)' /\ ~Lent(n) /\ ~Lent(n)' /\ Open(n)'
    BY <1>3, <1>7, <1>10, <1>11, <2>2, <2>3 DEF Virgin, Lent, Open, Unresolved, PENDING, WAITING, CANCELLED
  <2> QED
    BY <2>1, <2>2, <2>3, <2>4, <2>5, <2>6
<1>14. \A c : c \notin {Fut(n), On(n, 0), On(n, 1), Cnt(n)} => BlockKept(c)
  BY <1>3, <1>8, <1>9 DEF BlockKept
<1>15. \A z : z # n => NodeBlocksKept(z)
  <2> SUFFICES ASSUME NEW z, z # n PROVE NodeBlocksKept(z)
    OBVIOUS
  <2> DEFINE B == {Fut(n), On(n, 0), On(n, 1), Cnt(n)}
  <2>1. Resume(z) \notin B /\ Reap(z) \notin B /\ Cb(z) \notin B /\ Cnt(z) \notin B /\ Drp(z) \notin B /\ Cas(z) \notin B
    BY Owners
  <2>2. live' \subseteq live \cup B /\ live \subseteq live'
    BY <1>3
  <2>3. \A c : c \notin B => BlockKept(c) /\ (c \in live' <=> c \in live)
    BY <1>14, <2>2
  <2> HIDE DEF B
  <2> QED
    BY <2>1, <2>3 DEF NodeBlocksKept
<1>16. \A z \in Nodes : z \notin {n, x, y} => Same(z)
  BY <1>3, <1>11, <1>13 DEF Same
<1>17. /\ \A q, r : In(q, r)' = In(q, r)
       /\ \A q : (IsJoin(q)' <=> IsJoin(q))
  BY <1>12, InFrame
<1>18. UniqueOK'
  <2> SUFFICES ASSUME NEW p \in Combs, NEW q \in Combs, NEW r \in {0, 1}, NEW u \in {0, 1},
                      ~Virgin(p)', ~Virgin(q)', In(p, r) = In(q, u)
               PROVE  p = q /\ r = u
    BY <1>17 DEF UniqueOK
  <2>1. ASSUME NEW g \in Combs, NEW v \in {0, 1}, NEW w \in {0, 1}, g # n, In(n, w) = In(g, v) PROVE Virgin(g)
    <3>1. PICK z \in {x, y} : In(n, w) = z
      BY <1>2
    <3> QED
      BY <1>3, <2>1, <3>1, MineView
  <2>2. CASE p = n /\ q = n
    BY <1>1, <2>2, KidsDiffer
  <2>3. CASE p = n /\ q # n
    BY <1>13, <2>1, <2>3
  <2>4. CASE p # n /\ q = n
    BY <1>13, <2>1, <2>4
  <2>5. CASE p # n /\ q # n
    BY <1>1, <1>13, <2>5 DEF UniqueOK
  <2> QED
    BY <2>2, <2>3, <2>4, <2>5
<1>19. ASSUME NEW z \in {x, y}
       PROVE  NodeOK(z)' /\ ~Virgin(z) /\ Loose(z) /\ z \notin mine' \cup held' /\ (z \in Combs => \A r \in {0, 1} : Holder(z, r) => Holder(z, r)')
  <2>1. z \in Nodes /\ z \in mine /\ z # n
    BY <1>3, <1>4
  <2>2. /\ FutureOK(z) /\ MineOK(z) /\ BlocksOK(z) /\ OwnerOK(z)
        /\ z \in Leaves => LeafOK(z)
        /\ z \in Combs => CombOK(z) /\ NewOK(z)
    BY <2>1 DEF IInv
  <2>3. /\ Alive(z) /\ State(z) \in {PENDING, READY} /\ Waker(z) = Nop /\ z \notin held /\ ~Claimed(z) /\ z \notin taken /\ ~Settles(z)
    BY <2>1, <2>2 DEF MineOK
  <2>4. ~Virgin(z) /\ Loose(z) /\ ~Virgin(z)'
    BY <1>13, <2>1, <2>3 DEF Virgin, Loose
  <2>5. z \notin mine' \cup held'
    BY <1>3, <2>1, <2>3
  <2>6. FutureOK(z)'
    <3>1. ~Drops(z) /\ ~Releases(z) /\ ~FreesNode(z) /\ ~Settles(z)
      BY <1>8 DEF Quiet
    <3> QED
      BY <1>3, <1>10, <1>11, <1>13, <1>17, <2>1, <2>2, <2>3, <3>1 DEF FutureOK
  <2>7. MineOK(z)'
    <3>1. Waker(z)' # Resume(z) /\ Waker(z)' # Reap(z)
      BY <1>13, <2>1, <2>3, NotNop
    <3> QED
      BY <1>10, <2>5, <3>1 DEF MineOK
  <2>8. BlocksOK(z)'
    BY <1>3, <1>12, <1>13, <1>15, <2>1, <2>2, BlocksSame
  <2>9. OwnerOK(z)'
    <3>1. PICK r \in {0, 1} : In(n, r) = z
      BY <1>2
    <3>2. Parent(z)'
      BY <1>13, <1>17, <3>1 DEF Parent, Holder
    <3> QED
      BY <3>2 DEF OwnerOK
  <2>10. z \in Leaves => LeafOK(z)'
    <3>1. \A v : ~Resolves(z, v)
      BY <1>8 DEF Quiet
    <3> QED
      BY <1>3, <1>8, <1>10, <1>11, <1>13, <2>1, <2>2 DEF LeafOK, Unresolved
  <2>11. z \in Combs => Like(z)
    <3>1. z \in Combs => (Full(z)' <=> Full(z)) /\ (Resolved(z)' <=> Resolved(z)) /\ \A v : (Resolves(z, v)' <=> Resolves(z, v)) /\ (Yields(z, v)' <=> Yields(z, v))
      BY <1>3, <1>8, <1>10, <1>11, <1>13 DEF Full, Yields, Quiet, Resolved
    <3> QED
      BY <1>3, <1>11, <1>13, <2>1, <3>1 DEF Like, OpsSame
  <2>12. ASSUME z \in Combs PROVE NewOK(z)' /\ CombOK(z)'
    <3>1. PICK e \in Nodes, f \in Nodes : In(z, 0) = e /\ In(z, 1) = f
      BY <1>1, <2>12, InNodes
    <3>2. \A r \in {0, 1} : In(z, r) \notin {n, x, y}
      <4>1. ASSUME NEW r \in {0, 1}, In(z, r) = n PROVE FALSE
        <5>1. In(n, 0) # z /\ In(n, 1) # z
          BY <1>1, <2>12, <4>1, NoLoop
        <5> QED
          BY <1>2, <5>1
      <4>2. ASSUME NEW r \in {0, 1}, NEW k \in {x, y}, In(z, r) = k PROVE FALSE
        <5>1. k \in mine
          BY <1>3
        <5>2. Virgin(z)
          BY <2>12, <4>2, <5>1, MineView
        <5> QED
          BY <2>4, <5>2
      <4> QED
        BY <4>1, <4>2
    <3>3. KidSame(e) /\ KidSame(f)
      BY <1>16, <3>1, <3>2, KidStates
    <3>4. ~Virgin(z)' => BuiltOK(z)'
      BY <1>12, <2>2, <2>11, <2>12, <3>1, <3>3, BuiltFrame DEF CombOK
    <3>5. CallsOK(z)'
      BY <1>10, <1>13, <2>1, <2>2, <2>12 DEF CallsOK, CombOK, Unresolved
    <3> QED
      BY <2>4, <3>4, <3>5 DEF NewOK, CombOK
  <2>13. z \in Combs => \A r \in {0, 1} : Holder(z, r) => Holder(z, r)'
    <3>1. z \in Combs => (Open(z)' <=> Open(z)) /\ (\A v \in 0 .. 2 : Yields(z, v)' <=> Yields(z, v))
      BY <2>11 DEF Like
    <3> QED
      BY <1>17, <3>1 DEF Holder
  <2> QED
    BY <2>4, <2>5, <2>6, <2>7, <2>8, <2>9, <2>10, <2>12, <2>13 DEF NodeOK
<1>20. NodeOK(n)'
  <2>1. FutureOK(n)'
    BY <1>3, <1>7, <1>10, <1>11, <1>13 DEF FutureOK, PENDING, WAITING, READY, CANCELLED
  <2>2. MineOK(n)'
    BY <1>3, <1>4, <1>7, <1>10, <1>11, <1>13, NotNop DEF MineOK
  <2>3. BlocksOK(n)'
    <3>1. Resume(n) \notin live /\ Reap(n) \notin live /\ Cas(n) \notin live /\ Cnt(n) \notin live
      <4>1. ~Open(n)
        BY <1>3 DEF Open
      <4> QED
        BY <1>3, <1>5, <1>8, <1>13, <4>1 DEF BlocksOK, OneOf
    <3>2. Resume(n) \notin live' /\ Reap(n) \notin live' /\ Cas(n) \notin live' /\ (Cnt(n) \in live' <=> IsJoin(n))
      <4>1. /\ Resume(n) \notin {Fut(n), On(n, 0), On(n, 1), Cnt(n)} /\ Reap(n) \notin {Fut(n), On(n, 0), On(n, 1), Cnt(n)}
            /\ Cas(n) \notin {Fut(n), On(n, 0), On(n, 1), Cnt(n)} /\ Cnt(n) \notin {Fut(n), On(n, 0), On(n, 1)}
        BY Owners
      <4> QED
        BY <1>3, <3>1, <4>1
    <3>3. fut'[n].on_drop # Cas(n)
      BY <1>4, <1>7, <1>13, NotNop
    <3> QED
      BY <1>4, <1>9, <1>13, <1>17, <3>2, <3>3 DEF BlocksOK, OneOf
  <2>4. OwnerOK(n)'
    BY <1>3, <1>7, <1>13 DEF OwnerOK, PENDING, READY
  <2>5. OpenOK(n)'
    <3>1. In(n, 0)' = x /\ In(n, 1)' = y
      BY <1>2, <1>17
    <3>2. KidOK(n, 0)' /\ KidOK(n, 1)'
      BY <1>4, <1>11, <1>13, <1>19, <3>1 DEF KidOK
    <3>3. Count(n)' = 0
      <4>1. ~Counted(n, 0)' /\ ~Counted(n, 1)'
        BY <1>11 DEF Counted
      <4> QED
        BY <4>1 DEF Count
    <3>4. cnt'[n] = 0 /\ fut'[n].on_drop = Nop
      BY <1>3, <1>7
    <3> QED
      BY <1>10, <3>2, <3>3, <3>4 DEF OpenOK
  <2>6. BuiltOK(n)'
    <3>1. \A v \in 0 .. 2 : ~Yields(n, v)' /\ ~Resolves(n, v)'
      BY <1>7, <1>10, <1>13 DEF Yields, PENDING, READY, CANCELLED, Resolved
    <3>2. \A r \in {0, 1} : (In(n, r) \notin mine \cup held /\ ~Virgin(In(n, r)))'
      <4>1. \A z \in {x, y} : z \notin mine' \cup held' /\ ~Virgin(z)'
        BY <1>4, <1>13, <1>19
      <4>2. \A r \in {0, 1} : In(n, r) \in {x, y}
        BY <1>2
      <4> QED
        BY <1>17, <4>1, <4>2
    <3>3. ~Resolved(n)'
      BY <1>7, <1>13 DEF PENDING, READY, CANCELLED, Resolved
    <3> QED
      BY <1>13, <2>5, <3>1, <3>2, <3>3 DEF BuiltOK
  <2>7. CallsOK(n)'
    BY <1>3, <1>7, <1>10, <1>13 DEF CallsOK, NoFuture
  <2> QED
    BY <1>4, <1>13, <2>1, <2>2, <2>3, <2>4, <2>6, <2>7 DEF NodeOK, NewOK, CombOK
<1>21. (\E D \in SUBSET Nodes : Doomed(D))'
  BY <1>10, NoDoom
<1>22. ASSUME NEW q \in Combs, NEW r \in {0, 1}
       PROVE  HookOK(q, r)' \/ (BlockKept(On(q, r)) /\ (HookNeed(q, r)' <=> HookNeed(q, r)))
  <2>1. PICK z \in Nodes : In(q, r) = z /\ In(q, r)' = z
    BY <1>1, <1>17, InNodes
  <2>2. CASE q = n
    <3>1. HookNeed(q, r)' /\ On(q, r) \in live' /\ ~Frees(On(q, r))'
      BY <1>3, <1>9, <1>11, <2>2 DEF HookNeed
    <3> QED
      BY <3>1 DEF HookOK, OneOf, HookNeed
  <2>3. CASE q # n
    <3>1. On(q, r) \notin {Fut(n), On(n, 0), On(n, 1), Cnt(n)}
      BY <2>3, OnOf, Owners
    <3>2. BlockKept(On(q, r))
      BY <1>14, <3>1
    <3>3. (Lent(z)' <=> Lent(z)) /\ Waker(z)' = Waker(z)
      BY <1>13
    <3>4. HookNeed(q, r)' <=> HookNeed(q, r)
      BY <1>11, <2>1, <2>3, <3>3 DEF HookNeed
    <3> QED
      BY <3>2, <3>4
  <2> QED
    BY <2>2, <2>3
<1> DEFINE M == {n, x, y}
<1>23. M \in SUBSET Nodes
  BY <1>4
<1>24. \A z \in Nodes \ M : Same(z) /\ NodeBlocksKept(z)
  BY <1>15, <1>16
<1>25. \A z \in M : NodeOK(z)'
  BY <1>19, <1>20
<1>26. \A p \in Combs \ M, r \in {0, 1}, z \in M : In(p, r) = z => Virgin(p) \/ KidSame(z) \/ Faint(z)
  <2> SUFFICES ASSUME NEW p \in Combs, NEW r \in {0, 1}, NEW z \in M, In(p, r) = z PROVE Virgin(p)
    OBVIOUS
  <2>1. CASE z = n
    <3>1. ASSUME ~Virgin(p) PROVE FALSE
      <4>1. BuiltOK(p)
        BY <3>1 DEF IInv, CombOK
      <4>2. ~Virgin(n)
        BY <2>1, <4>1 DEF BuiltOK
      <4> QED
        BY <1>6, <4>2
    <3> QED
      BY <3>1
  <2>2. CASE z # n
    <3>1. z \in mine
      BY <1>3, <2>2
    <3> QED
      BY <3>1, MineView
  <2> QED
    BY <2>1, <2>2
<1>27. \A p \in M \cap Combs, r \in {0, 1} : Holder(p, r) => Holder(p, r)'
  <2>1. \A r \in {0, 1} : ~Holder(n, r)
    BY <1>6, HolderBuilt
  <2> QED
    BY <1>19, <2>1
<1> HIDE DEF M
<1> QED
  BY <1>9, <1>12, <1>18, <1>21, <1>22, <1>23, <1>24, <1>25, <1>26, <1>27, StepFrame

-----------------------------------------------------------------------------
(* The invariant.                                                           *)

(* The invariant holds before anything was built.                           *)
LEMMA InitIInv ==
  ASSUME Init
  PROVE  IInv
<1>1. Leaves \cap Combs = {} /\ reg \subseteq Leaves /\ todo = <<>> /\ mine = Leaves /\ held = {} /\ taken = {}
      /\ done = Leaves \ reg /\ live = {Fut(l) : l \in Leaves} \cup {Drp(l) : l \in reg} \cup {Cb(l) : l \in reg}
      /\ kind \in [Combs -> Kinds] /\ inputs \in Trees
  BY TreesAssumption DEF Init
<1>2. /\ \A n \in reg : fut[n] = [NoFuture EXCEPT !.on_drop = Drp(n)]
      /\ \A n \in Leaves \ reg : fut[n] = [NoFuture EXCEPT !.state = READY]
      /\ \A n \in Combs : fut[n] = NoFuture
      /\ fut \in [Nodes -> Futures]
  <2>1. NoFuture \in Futures
    BY StatesIn DEF NoFuture, Futures, Wakers
  <2>2. \A n \in reg : [NoFuture EXCEPT !.on_drop = Drp(n)] \in Futures
    BY <1>1, <2>1, FutureRec, EnvKinds
  <2>3. [NoFuture EXCEPT !.state = READY] \in Futures
    BY <2>1, FutureRec, StatesIn
  <2>4. fut = [n \in Nodes |-> IF n \in reg THEN [NoFuture EXCEPT !.on_drop = Drp(n)]
                              ELSE IF n \in Leaves THEN [NoFuture EXCEPT !.state = READY] ELSE NoFuture]
    BY DEF Init
  <2>5. \A n \in Nodes : fut[n] \in Futures
    BY <2>1, <2>2, <2>3, <2>4
  <2> QED
    BY <1>1, <2>4, <2>5 DEF Nodes
<1>3. /\ \A n \in reg : State(n) = PENDING /\ Waker(n) = Nop /\ fut[n].on_drop = Drp(n)
      /\ \A n \in Leaves \ reg : State(n) = READY /\ Waker(n) = Nop /\ fut[n].on_drop = Nop
      /\ \A n \in Combs : State(n) = PENDING /\ Waker(n) = Nop /\ fut[n].on_drop = Nop
  <2>1. /\ NoFuture \in Futures
        /\ NoFuture.state = PENDING /\ NoFuture.waker = Nop /\ NoFuture.on_drop = Nop
    BY StatesIn DEF NoFuture, Futures, Wakers
  <2> HIDE DEF NoFuture
  <2>2. ASSUME NEW n \in reg PROVE State(n) = PENDING /\ Waker(n) = Nop /\ fut[n].on_drop = Drp(n)
    <3>1. Drp(n) \in {Nop} \cup OnDrops
      BY <1>1, EnvKinds
    <3>2. fut[n] = [NoFuture EXCEPT !.on_drop = Drp(n)]
      BY <1>2
    <3> QED
      BY <2>1, <3>1, <3>2, FutureRec DEF State, Waker
  <2>3. ASSUME NEW n \in Leaves \ reg PROVE State(n) = READY /\ Waker(n) = Nop /\ fut[n].on_drop = Nop
    <3>1. fut[n] = [NoFuture EXCEPT !.state = READY]
      BY <1>2
    <3> QED
      BY <2>1, <3>1, FutureRec, StatesIn DEF State, Waker
  <2>4. ASSUME NEW n \in Combs PROVE State(n) = PENDING /\ Waker(n) = Nop /\ fut[n].on_drop = Nop
    BY <1>2, <2>1 DEF State, Waker
  <2> QED
    BY <2>2, <2>3, <2>4
<1>4. cnt \in [Combs -> 0 .. 2] /\ \A n \in Combs : cnt[n] = 0
  BY DEF Init
<1>5. Typed
  <2>1. live \subseteq LiveBlocks
    <3>1. \A l \in Leaves : Fut(l) \in LiveBlocks /\ Drp(l) \in LiveBlocks /\ Cb(l) \in LiveBlocks
      BY EnvKinds DEF LiveBlocks, Nodes
    <3> QED
      BY <1>1, <3>1
  <2>2. <<>> \in Seq(AllOps)
    OBVIOUS
  <2> QED
    BY <1>1, <1>2, <1>4, <2>1, <2>2 DEF Typed, Nodes
<1>6. Ordered
  BY <1>1 DEF Ordered
<1>7. (\A z : Quiet(z)) /\ (\A b : ~Frees(b)) /\ (\A c : ~Calls(c))
  BY <1>1, <1>5, <1>6, IdleFacts
<1>8. \A z : /\ ~Drops(z) /\ ~Releases(z) /\ ~FreesNode(z) /\ ~Settles(z)
             /\ ~Arms(z, 0) /\ ~Arms(z, 1) /\ ~Hooks(z) /\ ~Tallies(z) /\ ~Claimed(z) /\ ~Completes(z) /\ ~Runs(z)
             /\ \A r : ~Unarmed(z, r) /\ ~Resolves(z, r)
  BY <1>7, QuietFacts DEF Quiet
<1>9. /\ \A z \in Leaves : Alive(z)
      /\ \A z \in Combs : ~Alive(z) /\ Virgin(z)
      /\ \A z : /\ Resume(z) \notin live /\ Reap(z) \notin live /\ Cnt(z) \notin live /\ Cas(z) \notin live
                /\ (Cb(z) \in live <=> z \in reg) /\ (Drp(z) \in live <=> z \in reg)
      /\ \A p, r : On(p, r) \notin live
  <2>1. \A z : Fut(z) \in live <=> z \in Leaves
    BY <1>1, Owners
  <2>2. \A z : /\ Resume(z) \notin live /\ Reap(z) \notin live /\ Cnt(z) \notin live /\ Cas(z) \notin live
               /\ (Cb(z) \in live <=> z \in reg) /\ (Drp(z) \in live <=> z \in reg)
    <3>1. ASSUME NEW z PROVE Resume(z) \notin live /\ Reap(z) \notin live /\ Cnt(z) \notin live /\ Cas(z) \notin live
      BY <1>1, Owners
    <3>2. ASSUME NEW z PROVE Cb(z) \in live <=> z \in reg
      <4>1. \A l : Cb(z) # Fut(l) /\ Cb(z) # Drp(l) /\ (Cb(z) = Cb(l) => z = l)
        BY Owners
      <4> QED
        BY <1>1, <4>1
    <3>3. ASSUME NEW z PROVE Drp(z) \in live <=> z \in reg
      <4>1. \A l : Drp(z) # Fut(l) /\ Drp(z) # Cb(l) /\ (Drp(z) = Drp(l) => z = l)
        BY Owners
      <4> QED
        BY <1>1, <4>1
    <3> QED
      BY <3>1, <3>2, <3>3
  <2>3. \A p, r : On(p, r) \notin live
    BY <1>1, Owners
  <2> QED
    BY <1>1, <1>3, <2>1, <2>2, <2>3 DEF Alive, Virgin
<1>10. \A z \in Nodes : ~Lent(z) /\ State(z) # WAITING /\ State(z) # CANCELLED /\ Waker(z) = Nop
  BY <1>1, <1>3, <1>7 DEF Lent, Nodes, PENDING, WAITING, READY, CANCELLED
<1>11. UniqueOK
  BY <1>9 DEF UniqueOK
<1>12. \E D \in SUBSET Nodes : Doomed(D)
  <2>1. Doomed({})
    BY <1>7, <1>8 DEF Doomed
  <2> QED
    BY <2>1
<1>13. ASSUME NEW n \in Nodes PROVE FutureOK(n) /\ MineOK(n) /\ BlocksOK(n) /\ OwnerOK(n)
  <2>1. FutureOK(n)
    BY <1>1, <1>8, <1>10 DEF FutureOK
  <2>2. MineOK(n)
    <3>1. Resume(n) # Nop /\ Reap(n) # Nop
      BY NotNop
    <3>2. n \in Leaves => State(n) \in {PENDING, READY}
      BY <1>3
    <3> QED
      BY <1>1, <1>7, <1>8, <1>9, <1>10, <3>1, <3>2 DEF MineOK
  <2>3. BlocksOK(n)
    <3>1. n \in Leaves => (fut[n].on_drop = Drp(n) <=> n \in reg)
      <4>1. Drp(n) # Nop
        BY NotNop
      <4> QED
        BY <1>3, <4>1
    <3>2. n \in Combs => fut[n].on_drop # Cas(n) /\ ~Open(n)
      BY <1>3, <1>9, NotNop DEF Open
    <3> QED
      BY <1>7, <1>9, <1>10, <3>1, <3>2 DEF BlocksOK, OneOf
  <2>4. OwnerOK(n)
    <3>1. n \in Combs => State(n) # READY
      BY <1>3 DEF PENDING, READY
    <3> QED
      BY <1>1, <1>9, <3>1 DEF OwnerOK, Nodes
  <2> QED
    BY <2>1, <2>2, <2>3, <2>4
<1>14. ASSUME NEW l \in Leaves PROVE LeafOK(l)
  <2>1. fut[l].on_drop \in {Nop, Drp(l)}
    BY <1>3
  <2>2. Unresolved(l) <=> l \in reg
    BY <1>3 DEF Unresolved, PENDING, WAITING, READY
  <2>3. State(l) = READY <=> l \in Leaves \ reg
    BY <1>3 DEF PENDING, READY
  <2> QED
    BY <1>1, <1>3, <1>7, <1>8, <1>9, <2>1, <2>2, <2>3 DEF LeafOK
<1>15. ASSUME NEW p \in Combs PROVE NewOK(p) /\ CombOK(p)
  <2>1. NewOK(p)
    BY <1>1, <1>2, <1>4, <1>8 DEF NewOK
  <2>2. CallsOK(p)
    BY <1>2, <1>3, <1>7, <1>8 DEF CallsOK, NoFuture
  <2> QED
    BY <1>9, <2>1, <2>2 DEF CombOK
<1>16. ASSUME NEW p \in Combs, NEW r \in {0, 1} PROVE HookOK(p, r)
  <2>1. PICK z \in Nodes : In(p, r) = z
    BY <1>5, InNodes
  <2> QED
    BY <1>7, <1>8, <1>9, <1>10, <2>1 DEF HookOK, OneOf
<1> QED
  BY <1>5, <1>6, <1>11, <1>12, <1>13, <1>14, <1>15, <1>16 DEF IInv

(* Freeing what the head of the stack frees.                                *)
LEMMA FreeStep ==
  ASSUME IInv, Free
  PROVE  IInv'
<1>1. Typed /\ Ordered
  BY DEF IInv
<1>2. /\ todo # <<>> /\ Head(todo)[1] \in {"release", "Future_free", "free"}
      /\ live' = live \ Uses(Head(todo)) /\ Then(<<>>)
      /\ UNCHANGED <<kind, inputs, fut, cnt, reg, mine, held, done, taken>>
  BY DEF Free, Running
<1>3. CASE Head(todo)[1] = "free"
  BY <1>2, <1>3, FreeEnvs
<1>4. CASE Head(todo)[1] \in {"release", "Future_free"}
  <2>1. PICK a \in {"release", "Future_free"}, n \in Nodes : Head(todo) = Op(a, n)
    BY <1>1, <1>2, <1>4, RestFacts, Forms
  <2> QED
    BY <1>2, <2>1, FreeNode
<1> QED
  BY <1>2, <1>3, <1>4

(* Every step keeps it.                                                     *)
LEMMA StepIInv ==
  ASSUME IInv, Discipline, [Next]_vars
  PROVE  IInv'
<1>1. CASE Execute
  BY <1>1, CompleteStep, FutureDropStep, FreeStep, OnStep, TallyStep, CascadeStep, LeafDropStep, ResumeStep,
     SettleStep,
     ReapStep, ArmSelectStep, ArmJoinStep, HookedStep DEF Execute
<1>2. CASE \E n \in Combs : Create(n) \/ Await(n)
  <2>1. PICK n \in Combs : Create(n) \/ Await(n)
    BY <1>2
  <2>2. n \in Nodes
    BY DEF Nodes
  <2> QED
    BY <2>1, <2>2, CreateStep, AwaitStep
<1>3. CASE \E n \in Nodes : Spawn(n) \/ Drop(n)
  BY <1>3, SpawnStep, DropStep
<1>4. CASE \E l \in Leaves : Fire(l)
  BY <1>4, FireStep
<1>5. CASE UNCHANGED vars
  <2>1. UNCHANGED <<kind, inputs, fut, cnt, live, reg, todo, mine, held, done, taken>>
    BY <1>5 DEF vars
  <2>2. Fixed /\ Typed' /\ Ordered'
    BY <2>1 DEF IInv, Typed, Ordered, Fixed
  <2>3. \A o : Has(o)' <=> Has(o)
    BY <2>1 DEF Has
  <2>4. \A b : BlockKept(b) /\ (b \in live' <=> b \in live)
    BY <2>1 DEF BlockKept, Frees
  <2>5. \A x : Same(x)
    <3> SUFFICES ASSUME NEW x PROVE Same(x)
      OBVIOUS
    <3>1. OpsSame(x)
      BY <2>3 DEF OpsSame, Drops, Releases, FreesNode, Settles, Arms, Hooks, Tallies, Resolves, Calls
    <3> QED
      BY <2>1, <3>1 DEF Same, Alive
  <2>6. \A x : NodeBlocksKept(x)
    BY <2>4 DEF NodeBlocksKept
  <2>7. UniqueOK'
    <3>1. Typed /\ UniqueOK
      BY DEF IInv
    <3>2. \A x \in Combs : Virgin(x)' <=> Virgin(x)
      BY <2>2, <2>5, StateFrame
    <3> QED
      BY <2>2, <3>1, <3>2, UniqueFrame
  <2>8. (\E D \in SUBSET Nodes : Doomed(D))'
    <3>1. PICK D \in SUBSET Nodes : Doomed(D)
      BY DEF IInv
    <3>2. \A x : (Drops(x)' <=> Drops(x)) /\ (Calls(Cas(x))' <=> Calls(Cas(x))) /\ (Runs(x)' <=> Runs(x))
      BY <2>3 DEF Drops, Calls, Runs, Arms, Hooks, Tallies, Completes, Resolves
    <3> QED
      BY <2>2, <3>1, <3>2, DoomedFrame DEF Doomed
  <2>9. \A p \in Combs, r \in {0, 1} : HookNeed(p, r)' <=> HookNeed(p, r)
    BY <2>2, <2>5, HookFrame
  <2>10. {} \in SUBSET Nodes
    OBVIOUS
  <2> QED
    BY <2>2, <2>4, <2>5, <2>6, <2>7, <2>8, <2>9, <2>10, StepFrame
<1> QED
  BY <1>1, <1>2, <1>3, <1>4, <1>5 DEF Next

(* The invariant holds in every behaviour, whatever completes, is dropped   *)
(* or is awaited while something else runs (future.esk:123-261,             *)
(* futureval.esk:40-115).                                                   *)
THEOREM Inductive ==
  ASSUME Discipline
  PROVE  Spec => []IInv
<1>1. Init => IInv
  BY InitIInv
<1>2. IInv /\ [Next]_vars => IInv'
  BY StepIInv
<1> QED
  BY <1>1, <1>2, PTL DEF Spec

-----------------------------------------------------------------------------
(* What follows from it.                                                    *)

(* What the inputs, closures and counters of a combinator are allocated for. *)
LEMMA EnvLive ==
  ASSUME IInv, NEW b \in Envs, Frees(b)
  PROVE  b \in live
<1>1. CASE b \in {Resume(n) : n \in Nodes} \cup {Reap(n) : n \in Nodes}
  <2>1. PICK n \in Nodes : b = Resume(n) \/ b = Reap(n)
    BY <1>1
  <2>2. BlocksOK(n)
    BY DEF IInv
  <2> QED
    BY <2>1, <2>2 DEF BlocksOK, OneOf
<1>2. CASE b \in Hooked
  <2>1. PICK p \in Combs, r \in {0, 1} : b = On(p, r)
    BY <1>2 DEF Hooked
  <2>2. HookOK(p, r)
    BY DEF IInv
  <2> QED
    BY <2>1, <2>2 DEF HookOK, OneOf
<1>3. CASE b \in {Cb(l) : l \in Leaves}
  <2>1. PICK l \in Leaves : b = Cb(l)
    BY <1>3
  <2>2. BlocksOK(l)
    BY DEF IInv, Nodes
  <2> QED
    BY <2>1, <2>2 DEF BlocksOK, OneOf
<1>4. CASE b \in {Cnt(n) : n \in Combs}
  <2>1. PICK p \in Combs : b = Cnt(p)
    BY <1>4
  <2>2. BlocksOK(p)
    BY DEF IInv, Nodes
  <2> QED
    BY <2>1, <2>2 DEF BlocksOK, OneOf
<1> QED
  BY <1>1, <1>2, <1>3, <1>4 DEF Envs, Resuming

(* A future's on_drop is as allocated as the future.                        *)
LEMMA OnDropLive ==
  ASSUME IInv, NEW n \in Nodes, Alive(n)
  PROVE  Env(fut[n].on_drop) \subseteq live
<1>1. CASE n \in Leaves
  <2>1. LeafOK(n) /\ BlocksOK(n)
    BY <1>1 DEF IInv
  <2> QED
    BY <1>1, <2>1 DEF LeafOK, BlocksOK, Env
<1>2. CASE n \in Combs
  <2>1. CallsOK(n) /\ BlocksOK(n)
    BY <1>2 DEF IInv, CombOK
  <2> QED
    BY <1>2, <2>1 DEF CallsOK, BlocksOK, Env
<1> QED
  BY <1>1, <1>2 DEF Nodes

(* So is its waker, while it waits, is cancelled or calls it.               *)
LEMMA WakerLive ==
  ASSUME IInv, NEW n \in Nodes, Lent(n)
  PROVE  Env(Waker(n)) \subseteq live
<1>1. FutureOK(n) /\ BlocksOK(n)
  BY DEF IInv
<1>2. CASE Waker(n) \in {Nop, Resume(n), Reap(n)}
  BY <1>1, <1>2 DEF BlocksOK, OneOf, Env
<1>3. CASE \E p \in Combs, r \in {0, 1} : In(p, r) = n /\ Waker(n) = On(p, r)
  <2>1. PICK p \in Combs, r \in {0, 1} : In(p, r) = n /\ Waker(n) = On(p, r)
    BY <1>3
  <2>2. HookOK(p, r)
    BY DEF IInv
  <2> QED
    BY <2>1, <2>2 DEF HookOK, OneOf, Env
<1> QED
  BY <1>1, <1>2, <1>3 DEF FutureOK

(* The closure that is called is allocated, and the input that it reads.    *)
LEMMA CallLive ==
  ASSUME IInv, NEW c \in Resuming \cup Hooked \cup OnDrops, Calls(c)
  PROVE  Env(c) \cup (IF c[1] = "on" THEN {Fut(In(c[2], c[3]))} ELSE {}) \subseteq live
<1>1. Typed /\ Ordered
  BY DEF IInv
<1>2. CASE c \in Resuming
  <2>1. PICK n \in Nodes : c = Resume(n) \/ c = Reap(n)
    BY <1>2 DEF Resuming
  <2>2. MineOK(n)
    BY DEF IInv
  <2>3. Alive(n) /\ Waker(n) = c /\ c[1] # "on"
    BY <2>1, <2>2, Tags DEF MineOK
  <2>4. Lent(n)
    BY <2>3 DEF Lent
  <2> QED
    BY <2>3, <2>4, WakerLive
<1>3. CASE c \in Hooked
  <2>1. PICK p \in Combs, r \in {0, 1} : c = On(p, r)
    BY <1>3 DEF Hooked
  <2>2. todo # <<>> /\ Head(todo) = Op("call", On(p, r))
    BY <1>1, <2>1, AtOnce DEF AtHead
  <2>3. PICK x \in Nodes : In(p, r) = x
    BY <1>1, InNodes
  <2>4. Alive(x) /\ Waker(x) = On(p, r)
    BY <2>2, <2>3, OnFacts DEF Called, Kept
  <2>5. Lent(x)
    BY <2>1, <2>4 DEF Lent
  <2>6. Env(c) \subseteq live
    BY <2>1, <2>4, <2>5, WakerLive
  <2>7. c[2] = p /\ c[3] = r
    BY <2>1, Tags
  <2> QED
    BY <2>3, <2>4, <2>6, <2>7 DEF Alive
<1>4. CASE c \in OnDrops
  <2>1. PICK n \in Nodes : (c = Cas(n) /\ n \in Combs) \/ (c = Drp(n) /\ n \in Leaves)
    BY <1>4 DEF OnDrops, Nodes
  <2>2. c[1] # "on"
    BY <2>1, Tags
  <2>3. CASE c = Drp(n) /\ n \in Leaves
    <3>1. LeafOK(n)
      BY <2>3 DEF IInv
    <3>2. Alive(n) /\ fut[n].on_drop = c
      BY <2>3, <3>1 DEF LeafOK
    <3> QED
      BY <2>2, <3>2, OnDropLive
  <2>4. CASE c = Cas(n) /\ n \in Combs
    <3>1. CallsOK(n)
      BY <2>4 DEF IInv, CombOK
    <3>2. Alive(n) /\ State(n) # PENDING
      BY <2>4, <3>1 DEF CallsOK, PENDING, CANCELLED
    <3>3. Open(n)
      BY <2>4, <3>2 DEF Open
    <3>4. fut[n].on_drop = c
      BY <2>4, <3>1, <3>2, <3>3, OpenFacts DEF OpenOK, CallsOK
    <3> QED
      BY <2>2, <3>2, <3>4, OnDropLive
  <2> QED
    BY <2>1, <2>3, <2>4
<1> QED
  BY <1>2, <1>3, <1>4

(* What each operation uses.                                                *)
LEMMA UsesOf ==
  /\ \A n, v : Uses(Complete(n, v)) = {Fut(n)}
  /\ \A n : /\ Uses(Op("drop", n)) = {Fut(n)}
            /\ Uses(Op("release", n)) = {Fut(n)} \cup Env(fut[n].waker) \cup Env(fut[n].on_drop)
            /\ Uses(Op("Future_free", n)) = {Fut(n)} \cup Env(fut[n].on_drop)
            /\ Uses(Op("tally", n)) = {Cnt(n)}
            /\ Uses(Op("hook", n)) = {Fut(n)} \cup (IF IsJoin(n) THEN {Cnt(n)} ELSE {})
            /\ Uses(Op("settle", n)) = {}
  /\ \A e : Uses(FreeAll(e)) = e \ {Nop}
  /\ \A c : Uses(Op("call", c)) = Env(c) \cup (IF c[1] = "on" THEN {Fut(In(c[2], c[3]))} ELSE {})
  /\ \A n, s : Uses(Arm(n, s)) = {Fut(n), Fut(In(n, s))} \cup (IF IsJoin(n) THEN {Cnt(n)} ELSE {})
<1>1. \A n, v : Uses(Complete(n, v)) = {Fut(n)}
  BY OpFacts DEF Uses
<1>2. \A n : /\ Uses(Op("drop", n)) = {Fut(n)}
            /\ Uses(Op("release", n)) = {Fut(n)} \cup Env(fut[n].waker) \cup Env(fut[n].on_drop)
            /\ Uses(Op("Future_free", n)) = {Fut(n)} \cup Env(fut[n].on_drop)
            /\ Uses(Op("tally", n)) = {Cnt(n)}
            /\ Uses(Op("hook", n)) = {Fut(n)} \cup (IF IsJoin(n) THEN {Cnt(n)} ELSE {})
            /\ Uses(Op("settle", n)) = {}
  BY OpFacts DEF Uses
<1>3. \A e : Uses(FreeAll(e)) = e \ {Nop}
  BY OpFacts DEF Uses
<1>4. \A c : Uses(Op("call", c)) = Env(c) \cup (IF c[1] = "on" THEN {Fut(In(c[2], c[3]))} ELSE {})
  BY OpFacts DEF Uses
<1>5. \A n, s : Uses(Arm(n, s)) = {Fut(n), Fut(In(n, s))} \cup (IF IsJoin(n) THEN {Cnt(n)} ELSE {})
  BY OpFacts DEF Uses
<1> QED
  BY <1>1, <1>2, <1>3, <1>4, <1>5

(* Whatever the running operation uses is allocated.                        *)
LEMMA HeadLive ==
  ASSUME IInv
  PROVE  NoUseAfterFree
<1> SUFFICES ASSUME todo # <<>> PROVE Uses(Head(todo)) \subseteq live
  BY DEF NoUseAfterFree
<1> DEFINE o == Head(todo)
<1>1. Typed /\ Ordered /\ o \in AllOps /\ Has(o)
  BY RestFacts DEF IInv
<1>2. o[1] \in Kinds1
  BY <1>1, OpFacts
<1>3. ASSUME NEW p \in Combs, Open(p) PROVE Alive(p) /\ (IsJoin(p) => Cnt(p) \in live)
  <2>1. BlocksOK(p)
    BY DEF IInv, Nodes
  <2> QED
    BY <1>3, <2>1 DEF Open, BlocksOK, OneOf
<1>4. CASE o[1] = "complete"
  <2>1. PICK n \in Nodes, v \in 0 .. 2 : o = Complete(n, v)
    BY <1>1, <1>4, Forms
  <2>2. Completes(n) /\ FutureOK(n)
    BY <1>1, <2>1 DEF IInv, Completes, Resolves
  <2>3. Alive(n)
    BY <2>2 DEF FutureOK
  <2>4. Uses(o) = {Fut(n)}
    BY <2>1, UsesOf
  <2> QED
    BY <2>3, <2>4 DEF Alive
<1>5. CASE o[1] = "drop"
  <2>1. PICK n \in Nodes : o = Op("drop", n)
    BY <1>1, <1>5, Forms
  <2>2. Drops(n) /\ FutureOK(n)
    BY <1>1, <2>1 DEF IInv, Drops
  <2>3. Alive(n)
    BY <2>2 DEF FutureOK
  <2>4. Uses(o) = {Fut(n)}
    BY <2>1, UsesOf
  <2> QED
    BY <2>3, <2>4 DEF Alive
<1>6. CASE o[1] = "release"
  <2>1. PICK n \in Nodes : o = Op("release", n)
    BY <1>1, <1>6, Forms
  <2>2. Releases(n) /\ FutureOK(n)
    BY <1>1, <2>1 DEF IInv, Releases
  <2>3. Alive(n) /\ Lent(n)
    BY <2>2 DEF FutureOK, Lent
  <2>4. Uses(o) = {Fut(n)} \cup Env(fut[n].waker) \cup Env(fut[n].on_drop)
    BY <2>1, UsesOf
  <2>5. Env(fut[n].waker) \subseteq live
    BY <2>3, WakerLive DEF Waker
  <2> QED
    BY <2>3, <2>4, <2>5, OnDropLive DEF Alive
<1>7. CASE o[1] = "Future_free"
  <2>1. PICK n \in Nodes : o = Op("Future_free", n)
    BY <1>1, <1>7, Forms
  <2>2. FreesNode(n) /\ FutureOK(n)
    BY <1>1, <2>1 DEF IInv, FreesNode
  <2>3. Alive(n)
    BY <2>2 DEF FutureOK
  <2>4. Uses(o) = {Fut(n)} \cup Env(fut[n].on_drop)
    BY <2>1, UsesOf
  <2> QED
    BY <2>3, <2>4, OnDropLive DEF Alive
<1>8. CASE o[1] = "free"
  <2>1. PICK e \in SUBSET Envs : o = FreeAll(e)
    BY <1>1, <1>8, SMT DEF AllOps, FreeAll, Op
  <2>2. \A b \in e : Frees(b)
    BY <1>1, <2>1, OpFacts DEF Frees, Has
  <2>3. \A b \in e : b \in live
    BY <2>2, EnvLive
  <2>4. Uses(o) = e \ {Nop}
    BY <2>1, UsesOf
  <2> QED
    BY <2>3, <2>4
<1>9. CASE o[1] = "call"
  <2>1. PICK c \in Resuming \cup Hooked \cup OnDrops : o = Op("call", c)
    BY <1>1, <1>9, Forms
  <2>2. Calls(c)
    BY <1>1, <2>1 DEF Calls
  <2>3. Uses(o) = Env(c) \cup (IF c[1] = "on" THEN {Fut(In(c[2], c[3]))} ELSE {})
    BY <2>1, UsesOf
  <2> QED
    BY <2>2, <2>3, CallLive
<1>10. CASE o[1] = "tally"
  <2>1. PICK p \in Combs : o = Op("tally", p)
    BY <1>1, <1>10, Forms
  <2>2. Open(p) /\ Tallies(p) /\ CallsOK(p)
    BY <1>1, <2>1, LastSteps DEF IInv, CombOK, Tallies
  <2>3. IsJoin(p)
    BY <2>2 DEF CallsOK
  <2>4. Uses(o) = {Cnt(p)}
    BY <2>1, UsesOf
  <2> QED
    BY <1>3, <2>2, <2>3, <2>4
<1>11. CASE o[1] = "hook"
  <2>1. PICK p \in Combs : o = Op("hook", p)
    BY <1>1, <1>11, Forms
  <2>2. Open(p)
    BY <2>1, LastSteps
  <2>3. Uses(o) = {Fut(p)} \cup (IF IsJoin(p) THEN {Cnt(p)} ELSE {})
    BY <2>1, UsesOf
  <2> QED
    BY <1>3, <2>2, <2>3 DEF Alive
<1>12. CASE o[1] = "arm"
  <2>1. PICK p \in Combs, s \in {0, 1} : o = Arm(p, s)
    BY <1>1, <1>12, Forms
  <2>2. Open(p) /\ Loose(In(p, s))
    BY <2>1, ArmFacts
  <2>3. Uses(o) = {Fut(p), Fut(In(p, s))} \cup (IF IsJoin(p) THEN {Cnt(p)} ELSE {})
    BY <2>1, UsesOf
  <2> QED
    BY <1>3, <2>2, <2>3 DEF Alive, Loose
<1>13. CASE o[1] = "settle"
  <2>1. PICK n \in Nodes : o = Op("settle", n)
    BY <1>1, <1>13, Forms
  <2>2. Uses(o) = {}
    BY <2>1, UsesOf
  <2> QED
    BY <2>2
<1> QED
  BY <1>2, <1>4, <1>5, <1>6, <1>7, <1>8, <1>9, <1>10, <1>11, <1>12, <1>13 DEF Kinds1

(* "a later completion can never reach the freed `sel`"                     *)
(* (future.esk:155-156): no block of a combinator, an input, a closure or a *)
(* counter is used or freed after its free.                                 *)
THEOREM UseAfterFree ==
  ASSUME Discipline
  PROVE  Spec => []NoUseAfterFree
<1>1. IInv => NoUseAfterFree
  BY HeadLive
<1>2. Spec => []IInv
  BY Inductive
<1> QED
  BY <1>1, <1>2, PTL

(* The heirs of a future have resolved, and so have the orphans.            *)
LEMMA OrphanFacts ==
  ASSUME IInv
  PROVE  /\ \A n \in Orphans : State(n) = READY
         /\ \A n \in Nodes : Forgotten(n) \/ n \in Orphans => Heirs(n) \subseteq Orphans
<1> DEFINE R == {x \in Nodes : State(x) = READY}
           Closing(S) == \A n \in Nodes : Forgotten(n) \/ n \in S => Heirs(n) \subseteq S
<1>1. Typed
  BY DEF IInv
<1>2. ASSUME NEW n \in Nodes PROVE Heirs(n) \subseteq R
  <2>1. CASE n \in Leaves \/ fut[n].value = None
    BY <2>1 DEF Heirs
  <2>2. CASE n \notin Leaves /\ fut[n].value # None
    <3>1. n \in Combs
      BY <2>2 DEF Nodes
    <3>2. CombOK(n)
      BY <3>1 DEF IInv
    <3>3. ~Unresolved(n) /\ State(n) \in PENDING .. CANCELLED
      BY <1>1, <2>2, <3>2 DEF CombOK, CallsOK, Typed, Futures, State
    <3>4. Resolved(n) /\ ~Virgin(n)
      BY <2>2, <3>3 DEF Unresolved, Resolved, Virgin, PENDING, WAITING, READY, CANCELLED
    <3>5. PICK v \in 0 .. 2 : fut[n].value = v /\ ReasonOK(n, v)
      BY <3>2, <3>4 DEF CombOK, BuiltOK
    <3>6. PICK x \in Nodes, y \in Nodes : In(n, 0) = x /\ In(n, 1) = y
      BY <1>1, <3>1, InNodes
    <3>7. CASE IsJoin(n)
      BY <2>2, <3>5, <3>6, <3>7 DEF Heirs, ReasonOK, Spared
    <3>8. CASE ~IsJoin(n)
      <4>1. v \in {0, 1} /\ Spared(In(n, v)) /\ In(n, v) \in Nodes
        BY <3>5, <3>6, <3>8 DEF ReasonOK
      <4>2. Heirs(n) = {In(n, v)}
        BY <2>2, <3>5, <3>8 DEF Heirs, Winner
      <4> QED
        BY <4>1, <4>2 DEF Spared
    <3> QED
      BY <3>7, <3>8
  <2> QED
    BY <2>1, <2>2
<1>3. Closing(R)
  BY <1>2
<1>4. \A S \in SUBSET Nodes : Closing(S) => Orphans \subseteq S
  BY DEF Orphans
<1>5. \A n \in Orphans : State(n) = READY
  <2> HIDE DEF Closing
  <2> QED
    BY <1>3, <1>4
<1>6. ASSUME NEW n \in Nodes, Forgotten(n) \/ n \in Orphans, NEW x \in Heirs(n)
      PROVE  x \in Orphans
  <2>1. x \in Nodes
    BY <1>2
  <2>2. ASSUME NEW S \in SUBSET Nodes, Closing(S) PROVE x \in S
    BY <1>4, <1>6, <2>2
  <2> QED
    BY <2>1, <2>2 DEF Orphans
<1> QED
  BY <1>5, <1>6

(* With nothing held and nothing running, whatever is live, or resolved     *)
(* with its result still owed, is an orphan or held by a combinator of the  *)
(* same kind: and there is no last one built.                               *)
LEMMA AllFreed ==
  ASSUME IInv
  PROVE  NoLeak
<1> SUFFICES ASSUME todo = <<>>, mine \cup held = {}
             PROVE  live \subseteq UNION {{Fut(x)} \cup Env(fut[x].on_drop) : x \in {y \in Orphans : fut[y].state = READY}}
  BY DEF NoLeak, Idle
<1> DEFINE A == {n \in Nodes : n \notin Orphans /\ (Alive(n) \/ (State(n) = READY /\ n \notin taken /\ Waker(n) # Reap(n)))}
<1>1. Typed /\ Ordered
  BY DEF IInv
<1>2. (\A x : Quiet(x)) /\ (\A b : ~Frees(b)) /\ (\A c : ~Calls(c))
  BY <1>1, IdleFacts
<1>3. \A x : ~Claimed(x) /\ ~Drops(x) /\ ~Settles(x) /\ (\A v : ~Resolves(x, v)) /\ (\A r : ~Unarmed(x, r))
  BY <1>2, QuietFacts DEF Quiet
<1>4. ASSUME NEW n \in A
      PROVE  \E p \in A \cap Combs, r \in {0, 1} : In(p, r) = n
  <2>1. n \in Nodes /\ OwnerOK(n) /\ n \notin mine \cup held
    BY DEF IInv
  <2>2. Parent(n)
    BY <1>3, <1>4, <2>1 DEF OwnerOK
  <2>3. PICK p \in Combs, r \in {0, 1} : In(p, r) = n /\ Holder(p, r)
    BY <2>2 DEF Parent
  <2>4. p \in Nodes /\ p \notin Leaves
    BY TreesAssumption DEF Nodes
  <2>5. CASE Open(p)
    <3>1. Alive(p) /\ State(p) # READY
      BY <1>2, <2>5 DEF Open, Unresolved, PENDING, WAITING, READY
    <3>2. p \notin Orphans
      BY <3>1, OrphanFacts
    <3> QED
      BY <2>3, <2>4, <3>1, <3>2
  <2>6. CASE \E v \in 0 .. 2 : Yields(p, v) /\ (IsJoin(p) \/ r = v)
    <3>1. PICK v \in 0 .. 2 : Yields(p, v) /\ (IsJoin(p) \/ r = v)
      BY <2>6
    <3>2. Resolved(p) /\ p \notin taken /\ fut[p].value = v /\ v # None
      BY <1>3, <3>1, CleanupAssumption DEF Yields
    <3>3. n \in Heirs(p)
      <4>1. CASE IsJoin(p)
        BY <2>3, <2>4, <3>2, <4>1 DEF Heirs
      <4>2. CASE ~IsJoin(p)
        BY <2>3, <2>4, <3>1, <3>2, <4>2 DEF Heirs, Winner
      <4> QED
        BY <4>1, <4>2
    <3>4. ~Forgotten(p) /\ p \notin Orphans
      BY <2>4, <3>3, OrphanFacts
    <3>5. State(p) = READY /\ Waker(p) # Reap(p)
      BY <3>2, <3>4 DEF Forgotten, Resolved, State, Waker
    <3> QED
      BY <2>3, <2>4, <3>2, <3>4, <3>5
  <2> QED
    BY <2>3, <2>5, <2>6 DEF Holder
<1>5. A = {}
  <2> SUFFICES ASSUME A # {} PROVE FALSE
    OBVIOUS
  <2>1. A \cap Combs # {} /\ A \cap Combs \in SUBSET Combs
    BY <1>4
  <2>2. inputs \in Trees
    BY <1>1 DEF Typed
  <2>3. PICK n \in A \cap Combs : \A m \in A \cap Combs : n \notin {inputs[m][1], inputs[m][2]}
    BY <2>1, <2>2, TreesAssumption
  <2>4. PICK p \in A \cap Combs, r \in {0, 1} : In(p, r) = n
    BY <1>4, <2>3
  <2> HIDE DEF A
  <2> QED
    BY <2>3, <2>4 DEF In
<1>6. \A n \in Nodes : Alive(n) => n \in Orphans /\ State(n) = READY
  BY <1>5, OrphanFacts
<1>7. \A n \in Nodes : ~Lent(n) /\ ~Open(n) /\ (Alive(n) => ~Unresolved(n))
  BY <1>2, <1>6 DEF Lent, Open, Unresolved, PENDING, WAITING, READY, CANCELLED
<1> DEFINE L == UNION {{Fut(x)} \cup Env(fut[x].on_drop) : x \in {y \in Orphans : fut[y].state = READY}}
<1>8. ASSUME NEW n \in Nodes, Alive(n) PROVE Fut(n) \in L /\ (fut[n].on_drop # Nop => fut[n].on_drop \in L)
  BY <1>6, <1>8 DEF Env, State
<1> HIDE DEF L
<1>9. ASSUME NEW n \in Nodes PROVE (Fut(n) \in live => Fut(n) \in L) /\ Resume(n) \notin live /\ Reap(n) \notin live
  <2>1. BlocksOK(n)
    BY DEF IInv
  <2> QED
    BY <1>2, <1>7, <1>8, <2>1 DEF BlocksOK, OneOf, Alive
<1>10. ASSUME NEW p \in Combs
       PROVE  (Cas(p) \in live => Cas(p) \in L) /\ Cnt(p) \notin live /\ \A r \in {0, 1} : On(p, r) \notin live
  <2>1. BlocksOK(p) /\ p \in Nodes
    BY DEF IInv, Nodes
  <2>2. (Cas(p) \in live => Cas(p) \in L) /\ Cnt(p) \notin live
    BY <1>2, <1>7, <1>8, <2>1, NotNop DEF BlocksOK, OneOf
  <2>3. ASSUME NEW r \in {0, 1} PROVE On(p, r) \notin live
    <3>1. HookOK(p, r)
      BY DEF IInv
    <3>2. PICK x \in Nodes : In(p, r) = x
      BY <1>1, InNodes
    <3> QED
      BY <1>2, <1>3, <1>7, <3>1, <3>2 DEF HookOK, OneOf
  <2> QED
    BY <2>2, <2>3
<1>11. ASSUME NEW l \in Leaves PROVE Cb(l) \notin live /\ (Drp(l) \in live => Drp(l) \in L)
  <2>1. BlocksOK(l) /\ LeafOK(l) /\ l \in Nodes
    BY DEF IInv, Nodes
  <2> QED
    BY <1>2, <1>7, <1>8, <2>1, NotNop DEF BlocksOK, OneOf, LeafOK
<1>12. \A b \in LiveBlocks : b \in live => b \in L
  BY <1>9, <1>10, <1>11 DEF LiveBlocks, Envs, Resuming, Hooked, OnDrops
<1> QED
  BY <1>1, <1>12 DEF Typed, L

(* The types of the invariant are those that the runs check.                *)
LEMMA TypesOK ==
  ASSUME Typed
  PROVE  TypeOK
<1>1. \A n \in Nodes : {Fut(n), Cnt(n), Cas(n), Drp(n), Cb(n), Resume(n), Reap(n)} \subseteq Blocks
  BY DEF Blocks, Fut, Cnt, Cas, Drp, Cb, Resume, Reap
<1>2. \A p \in Combs : On(p, 0) \in Blocks /\ On(p, 1) \in Blocks
  BY DEF Blocks
<1>3. Resuming \subseteq Blocks /\ Hooked \subseteq Blocks /\ OnDrops \subseteq Blocks
  BY <1>1, <1>2 DEF Resuming, Hooked, OnDrops, Nodes
<1>4. LiveBlocks \subseteq Blocks
  BY <1>1, <1>3 DEF LiveBlocks, Envs, Nodes
<1>5. Futures \subseteq [state : PENDING .. CANCELLED, waker : Blocks \cup {Nop},
                         on_drop : Blocks \cup {Nop}, value : {None} \cup 0 .. 2]
  BY <1>3 DEF Futures, Wakers
<1> QED
  BY <1>4, <1>5 DEF Typed, TypeOK

(* What is resolved was resolved by what resolved below it.                 *)
LEMMA ReadyHolds ==
  ASSUME IInv, NEW n \in Nodes, State(n) = READY
  PROVE  Holds(n) /\ (n \in Combs /\ ~IsJoin(n) => Holds(Winner(n)))
<1> DEFINE S == {m \in Nodes : State(m) = READY}
<1>1. Typed
  BY DEF IInv
<1>2. ASSUME NEW p \in Combs, State(p) = READY
      PROVE  IF IsJoin(p) THEN {In(p, 0), In(p, 1)} \subseteq S
             ELSE Winner(p) \in {In(p, 0), In(p, 1)} \cap S
  <2>1. ~Virgin(p)
    BY <1>2 DEF Virgin, PENDING, READY
  <2>2. BuiltOK(p)
    BY <2>1 DEF IInv, CombOK
  <2>3. fut[p].value \in 0 .. 2 /\ ReasonOK(p, fut[p].value)
    BY <1>2, <2>2 DEF BuiltOK, Resolved
  <2>4. In(p, 0) \in Nodes /\ In(p, 1) \in Nodes
    BY <1>1, InNodes
  <2>5. CASE IsJoin(p)
    BY <2>3, <2>4, <2>5 DEF ReasonOK, Spared
  <2>6. CASE ~IsJoin(p)
    <3>1. PICK v \in {0, 1} : fut[p].value = v /\ Spared(In(p, v))
      BY <2>3, <2>6 DEF ReasonOK
    <3>2. Winner(p) = In(p, v)
      BY <3>1 DEF Winner
    <3> QED
      BY <2>4, <2>6, <3>1, <3>2 DEF Spared
  <2> QED
    BY <2>5, <2>6
<1>3. ASSUME NEW m \in S PROVE Because(m, S)
  <2>1. CASE m \in Leaves
    <3>1. LeafOK(m)
      BY <2>1 DEF IInv
    <3> QED
      BY <2>1, <3>1 DEF LeafOK, Because
  <2>2. CASE m \in Combs /\ m \notin Leaves
    BY <1>2, <2>2 DEF Because
  <2> QED
    BY <2>1, <2>2 DEF Nodes
<1>4. \A m \in S : Holds(m)
  BY <1>3 DEF Holds
<1>5. n \in Combs /\ ~IsJoin(n) => Winner(n) \in S
  BY <1>2
<1> QED
  BY <1>4, <1>5

(* Between callbacks nothing waits for what has resolved.                   *)
LEMMA HoldsReady ==
  ASSUME IInv, todo = <<>>, NEW n \in Combs, Alive(n), Holds(n)
  PROVE  State(n) = READY
<1> SUFFICES ASSUME State(n) # READY PROVE FALSE
  OBVIOUS
<1>1. Typed /\ Ordered
  BY DEF IInv
<1>2. (\A x : Quiet(x)) /\ (\A b : ~Frees(b)) /\ (\A c : ~Calls(c))
  BY <1>1, IdleFacts
<1>3. \A x : ~Completes(x) /\ ~Releases(x) /\ ~Hooks(x) /\ ~Tallies(x) /\ (\A r : ~Unarmed(x, r))
  BY <1>2, QuietFacts DEF Quiet
<1>4. PICK S \in SUBSET Nodes : n \in S /\ \A m \in S : Because(m, S)
  BY DEF Holds
<1> DEFINE T == {m \in S \cap Combs : Alive(m) /\ State(m) # READY}
<1>5. PICK m \in T : {inputs[m][1], inputs[m][2]} \cap T = {}
  <2>1. T # {} /\ T \in SUBSET Combs
    BY <1>4
  <2>2. inputs \in Trees
    BY <1>1 DEF Typed
  <2> HIDE DEF T
  <2> QED
    BY <2>1, <2>2, TreesAssumption
<1>6. m \in Combs /\ m \in Nodes /\ m \notin Leaves /\ Alive(m) /\ Because(m, S)
  BY <1>4, TreesAssumption DEF Nodes
<1>7. In(m, 0) \notin T /\ In(m, 1) \notin T
  BY <1>5 DEF In
<1>8. Open(m)
  <2>1. fut[m].state \in PENDING .. CANCELLED
    BY <1>1, <1>6 DEF Typed, Futures
  <2>2. FutureOK(m)
    BY <1>6 DEF IInv
  <2>3. State(m) # CANCELLED
    BY <1>3, <1>6, <2>2 DEF FutureOK
  <2>4. Unresolved(m)
    BY <2>1, <2>3 DEF Unresolved, State, PENDING, WAITING, READY, CANCELLED
  <2> QED
    BY <1>3, <1>6, <2>4 DEF Open
<1>9. OpenOK(m) /\ KidOK(m, 0) /\ KidOK(m, 1)
  BY <1>6, <1>8, OpenFacts
<1>10. ASSUME NEW r \in {0, 1}, In(m, r) \in S
       PROVE  IsJoin(m) /\ Got(m, r)
  <2>1. PICK x \in Nodes : In(m, r) = x
    BY <1>1, <1>6, InNodes
  <2>2. x \in S /\ x \notin T
    BY <1>7, <1>10, <2>1
  <2>3. ~(Alive(x) /\ State(x) = WAITING)
    <3>1. CASE x \in Leaves
      <4>1. LeafOK(x) /\ x \in done
        BY <1>4, <2>2, <3>1 DEF IInv, Because
      <4> QED
        BY <1>3, <4>1 DEF LeafOK, Unresolved
    <3>2. CASE x \in Combs
      BY <2>2, <3>2 DEF WAITING, READY
    <3> QED
      BY <3>1, <3>2 DEF Nodes
  <2>4. ~Armed(m, r)
    BY <2>1, <2>3 DEF Armed
  <2>5. KidOK(m, r)
    BY <1>9
  <2> QED
    BY <1>2, <1>3, <2>4, <2>5 DEF KidOK
<1>11. CASE IsJoin(m)
  <2>1. In(m, 0) \in S /\ In(m, 1) \in S
    BY <1>6, <1>11 DEF Because
  <2>2. Got(m, 0) /\ Got(m, 1)
    BY <1>10, <2>1
  <2>3. Counted(m, 0) /\ Counted(m, 1)
    BY <1>2, <1>3, <2>2 DEF Counted, Got, Kept, Untaken
  <2>4. Count(m) = 2
    BY <2>3 DEF Count
  <2>5. cnt[m] \in 0 .. 2
    BY <1>1, <1>6 DEF Typed
  <2> QED
    BY <1>3, <1>9, <1>11, <2>4, <2>5 DEF OpenOK
<1>12. CASE ~IsJoin(m)
  BY <1>6, <1>10, <1>12 DEF Because
<1> QED
  BY <1>11, <1>12

(* Both directions of Resolution, and the registrations.                    *)
LEMMA AllSettled ==
  ASSUME IInv
  PROVE  Settled
<1>1. TypeOK
  BY TypesOK DEF IInv
<1>2. Resolution
  <2> SUFFICES ASSUME todo = <<>>, NEW n \in Combs, Fut(n) \in live
               PROVE  /\ fut[n].state = READY <=> Holds(n)
                      /\ fut[n].state = READY /\ ~IsJoin(n) => Holds(Winner(n))
    BY DEF Resolution, Idle
  <2>1. n \in Nodes /\ Alive(n)
    BY DEF Nodes, Alive
  <2>2. Holds(n) => State(n) = READY
    BY <2>1, HoldsReady
  <2>3. State(n) = READY => Holds(n) /\ (~IsJoin(n) => Holds(Winner(n)))
    BY <2>1, ReadyHolds
  <2> QED
    BY <2>2, <2>3 DEF State
<1>3. LoserDeregistered
  <2> SUFFICES ASSUME NEW l \in reg PROVE Fut(l) \in live /\ Cb(l) \in live
    BY DEF LoserDeregistered
  <2>1. l \in Leaves /\ l \in Nodes
    BY DEF IInv, Typed, Nodes
  <2>2. LeafOK(l) /\ BlocksOK(l)
    BY <2>1 DEF IInv
  <2> QED
    BY <2>1, <2>2 DEF LeafOK, BlocksOK, OneOf, Alive
<1> QED
  BY <1>1, <1>2, <1>3 DEF Settled

(* "Leak-free via the self-free waker technique" (future.esk:123-124): once *)
(* the program holds and awaits nothing, nothing is allocated but what a    *)
(* forgotten combinator left.                                               *)
THEOREM NoLeakAlways ==
  ASSUME Discipline
  PROVE  Spec => []NoLeak
<1>1. IInv => NoLeak
  BY AllFreed
<1>2. Spec => []IInv
  BY Inductive
<1> QED
  BY <1>1, <1>2, PTL

(* Between callbacks a combinator is resolved exactly when its inputs make  *)
(* it so, a select's index is an input that completed, and no loser is      *)
(* registered with the loop.                                                *)
THEOREM SettledAlways ==
  ASSUME Discipline
  PROVE  Spec => []Settled
<1>1. IInv => Settled
  BY AllSettled
<1>2. Spec => []IInv
  BY Inductive
<1> QED
  BY <1>1, <1>2, PTL
=============================================================================
