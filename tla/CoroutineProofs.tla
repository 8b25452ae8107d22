--------------------------- MODULE CoroutineProofs ---------------------------
(***************************************************************************)
(* Proofs about Coroutine.tla, for any set of tasks and leaves, whatever   *)
(* each task awaits and however many cleanups are pending: no block is     *)
(* used after its free, every cleanup runs once and nothing is leaked, and *)
(* a dropped future never completes.                                       *)
(*                                                                         *)
(* IInv says what one moment of the call stack allows.  An operation       *)
(* changes one task or one future, or a task and what it awaits; the rest  *)
(* of the forest of tasks sees nothing of it.  So each action's lemma      *)
(* proves the parts of IInv about the nodes it touches, the set M, and     *)
(* Concluded gives IInv' from these and from what M lets the others see.   *)
(***************************************************************************)
EXTENDS Coroutine, TLAPS

(* What t awaits with its frame at k.                                       *)
At(t, k) == IF k > Last(t) THEN Callee[t] ELSE cleanups[t][k]

-----------------------------------------------------------------------------
(* The call stack.  An operation of Control runs a frame, so at most one of *)
(* a frame is on the stack; only an operation of Beneath calls others and   *)
(* waits for them.                                                          *)
Control == {"call", "poll", "extract", "run", "publish", "end", "on_drop", "cleanup"}
Beneath == {"poll", "cleanup", "run", "release", "user"}

(* a may be above b.                                                        *)
Above(a, b) ==
  /\ b[1] \in Beneath
  /\ a[1] \in Control /\ b[1] \in Control => a[2] # b[2]
  /\ a[1] = "release" /\ b[1] # "user" => a[2] # b[2]

Ordered == \A i, j \in 1 .. Len(todo) : i < j => Above(todo[i], todo[j])

(* What is on the stack; what is below its head.                            *)
Has(name, n) == \E i \in 1 .. Len(todo) : todo[i] = <<name, n>>
Below(name, n) == \E i \in 2 .. Len(todo) : todo[i] = <<name, n>>
Quiet(n) == \A name \in Control : ~Has(name, n)

TaskOps == {"poll", "extract", "run", "publish", "end", "cleanup", "reap", "user"}
NodeOps == {"call", "drop", "on_drop", "release"}
AllOps == (TaskOps \X Tasks) \cup (NodeOps \X Nodes) \cup ({"complete"} \X Leaves)
Blocks == {Fut(n) : n \in Nodes} \cup {Drp(n) : n \in Nodes} \cup {Resume(n) : n \in Nodes} \cup {Reap(n) : n \in Nodes}
            \cup {Closure(t) : t \in Tasks}

Wakers == {None} \cup {Resume(n) : n \in Nodes} \cup {Reap(n) : n \in Nodes}
Futures == [state : PENDING .. CLEANED, waker : Wakers]
Modes == {"new", "running", "cancelled", "detached"}
Frames == [k : Nat, awaiting : Nodes \cup {None}, mode : Modes]

Typed ==
  /\ cleanups \in Programs /\ fut \in [Nodes -> Futures] /\ frame \in [Tasks -> Frames]
  /\ \A t \in Tasks : frame[t].k <= Last(t) + 1
  /\ live \subseteq Blocks /\ reg \subseteq Leaves /\ mine \subseteq Roots /\ fresh \subseteq Roots
  /\ ran \in [Tasks -> Seq(Nat)]
  /\ todo \in Seq(AllOps)

-----------------------------------------------------------------------------
(* A task in itself.  Its closure is live as long as its body or a cleanup  *)
(* has work to do; it is parked when nothing on the stack runs it.          *)
Works(t) == Closure(t) \in live
Parks(t) == Works(t) /\ Quiet(t)
Alive(n) == Fut(n) \in live
Drops(n) == Drp(n) \in live
Resumes(n) == Resume(n) \in live
Reaps(n) == Reap(n) \in live

(* Not called yet: nothing of it is allocated.                              *)
NewOK(t) ==
  frame[t].mode = "new" =>
    /\ fut[t].state = PENDING /\ fut[t].waker = None
    /\ ~Alive(t) /\ ~Works(t)
    /\ frame[t].k = Last(t) + 1 /\ frame[t].awaiting = None /\ ran[t] = <<>>

(* The mode of the frame and the state of its future.                       *)
ModeOK(t) ==
  LET s == fut[t].state m == frame[t].mode IN
  /\ m = "running" => s <= CANCELLED
  /\ m = "cancelled" => s = CANCELLED
  /\ m = "detached" => s >= DETACHED

(* A frame with work to do is allocated and not completed, and `ran` has    *)
(* the cleanups between its state k and the body.                           *)
WorksOK(t) ==
  LET s == fut[t].state m == frame[t].mode IN
  Works(t) =>
    /\ Alive(t) /\ m # "new" /\ s \notin {READY, CLEANED}
    /\ m = "running" => (s = CANCELLED <=> Has("on_drop", t) \/ Has("cleanup", t))
    /\ m = "cancelled" => /\ Has("run", t) /\ frame[t].k <= Last(t)
                          /\ \A j \in 1 .. frame[t].k : cleanups[t][j] = Plain
    /\ IF Has("run", t) THEN frame[t].k <= Last(t) /\ Len(ran[t]) = Last(t) - frame[t].k
                        ELSE frame[t].k > 0 /\ Len(ran[t]) = Last(t) - frame[t].k + 1 /\ Awaited(t) \in Nodes

(* A frame without has begun them all; it is on its way to complete, to be  *)
(* freed, or is READY.                                                      *)
DoneOK(t) ==
  LET s == fut[t].state m == frame[t].mode IN
  ~Works(t) /\ m # "new" =>
    /\ Len(ran[t]) = Last(t)
    /\ Alive(t) => Has("publish", t) \/ Has("end", t) \/ s = READY \/ (Has("release", t) /\ s # DETACHED)

(* When an operation may be on the stack.                                   *)
OpsOK(t) ==
  LET s == fut[t].state m == frame[t].mode IN
  /\ Has("call", t) => m = "new"
  /\ Has("poll", t) \/ Has("extract", t) \/ Has("run", t) => Works(t)
  /\ Has("on_drop", t) \/ Has("cleanup", t) => Works(t) /\ s = CANCELLED /\ m = "running"
  /\ Has("publish", t) => Alive(t) /\ ~Works(t) /\ m = "running" /\ s <= WAITING
  /\ Has("end", t) => Alive(t) /\ ~Works(t) /\ m = "detached" /\ s # CLEANED
  /\ Has("reap", t) => Alive(t) /\ s = READY /\ fut[t].waker = Reap(t)

RanOK(t) == Descending(ran[t], Last(t))

TaskOK(t) == NewOK(t) /\ ModeOK(t) /\ WorksOK(t) /\ DoneOK(t) /\ OpsOK(t) /\ RanOK(t)

(* A future in itself.  Idle: not made yet.                                 *)
Idles(n) ==
  /\ fut[n].state = PENDING /\ fut[n].waker = None /\ ~Alive(n) /\ n \notin reg
  /\ n \in Tasks => frame[n].mode = "new"

(* on_drop's env and the waker's closure live as long as the future, until  *)
(* the future is handed to its detached cleanup.                            *)
BlocksOK(n) ==
  /\ Drops(n) <=> Alive(n) /\ fut[n].state # ORPHANED
  /\ Resumes(n) <=> Drops(n) /\ fut[n].waker = Resume(n)
  /\ Reaps(n) <=> Drops(n) /\ fut[n].waker = Reap(n)

(* The state machine: waker, call, completion and release.                  *)
FutureOK(n) ==
  LET s == fut[n].state w == fut[n].waker IN
  /\ w \in {None, Resume(n), Reap(n)} /\ (w = Reap(n) => n \in Roots)
  /\ s = PENDING => w = None
  /\ s = WAITING => w # None
  /\ Has("call", n) => Idles(n)
  /\ s = READY => Quiet(n)
  /\ Has("release", n) <=> Alive(n) /\ s \in {CANCELLED, DETACHED, CLEANED}

(* What the program holds, and what it may still call.                      *)
MineOK(n) ==
  /\ n \in mine => /\ n \notin fresh /\ fut[n].waker = None
                   /\ Has("call", n) \/ (Alive(n) /\ fut[n].state \in {PENDING, READY})
  /\ n \in fresh => n \in Tasks /\ frame[n].mode = "new" /\ ~Has("call", n)

(* A leaf is registered until it completes or is dropped.                   *)
LeafOK(l) ==
  LET s == fut[l].state IN
  /\ s <= CANCELLED
  /\ l \in reg => Alive(l) /\ (s <= WAITING \/ Has("on_drop", l))
  /\ Alive(l) /\ s <= WAITING => l \in reg \/ Has("complete", l)
  /\ Has("complete", l) => Alive(l) /\ s <= WAITING /\ l \notin reg
  /\ Has("on_drop", l) => Alive(l) /\ s = CANCELLED

NodeOK(n) == BlocksOK(n) /\ FutureOK(n) /\ MineOK(n) /\ (n \in Leaves => LeafOK(n))

(* A future and who awaits it: it has an owner, and the awaiter's frame     *)
(* points to it while it is parked there.                                   *)
Awaits(t, n) == frame[t].k > 0 /\ Awaited(t) = n

OwnerOK(n) ==
  LET s == fut[n].state IN
  /\ Has("call", n) => n \in mine \/ \E t \in Tasks : Has("poll", t) /\ Awaits(t, n)
  /\ Alive(n) /\ s \in {PENDING, READY} =>
       n \in mine \/ Has("drop", n) \/ Has("reap", n)
         \/ \E t \in Tasks : (Has("poll", t) \/ Has("extract", t)) /\ Awaits(t, n)
  /\ Alive(n) /\ s = WAITING /\ fut[n].waker = Resume(n) =>
       Has("drop", n) \/ \E t \in Tasks : (Parks(t) \/ Has("on_drop", t)) /\ Awaits(t, n)

Linked(t, n) ==
  LET s == fut[n].state w == fut[n].waker IN
  /\ Parks(t) \/ Has("on_drop", t) => frame[t].awaiting = n /\ Alive(n) /\ s = WAITING /\ w = Resume(n)
  /\ Has("poll", t) => Has("call", n) \/ (Alive(n) /\ w = None /\ s \in {PENDING, READY})
  /\ Has("extract", t) => Alive(n) /\ s = READY /\ w = Resume(n)
LinkOK(t) == \A n \in Nodes : Awaits(t, n) => Linked(t, n)

(* What a task is still to call is idle; `awaiting` is what it awaits or    *)
(* did.                                                                     *)
ToCall(t, j) == frame[t].mode = "new" \/ (Works(t) /\ (j < frame[t].k \/ (j = frame[t].k /\ Has("run", t))))
SitesOK(t) ==
  \A j \in 1 .. Last(t) + 1 : \A n \in Nodes : At(t, j) = n /\ ToCall(t, j) => Idles(n) /\ ~Has("call", n)
AwaitingOK(t) ==
  frame[t].awaiting # None => \E j \in 1 .. Last(t) + 1 : j >= frame[t].k /\ frame[t].awaiting = At(t, j)

(* A drop finds no frame at work: nothing below it on the stack runs a      *)
(* frame of the chain that it cascades down, S, and the chain does not come *)
(* back to it.                                                              *)
Calm(S) ==
  /\ \A x \in S : frame[x].awaiting \in Tasks => frame[x].awaiting \in S
  /\ \A x \in S : \A name \in Control : ~Below(name, x)
Quits(n) == \E S \in SUBSET Tasks : Calm(S) /\ (n \in Tasks => n \in S) /\ \A x \in S : frame[x].awaiting # n

DropOK(n) ==
  /\ Running("drop") /\ Arg = n =>
       /\ Alive(n)
       /\ \/ fut[n].state >= DETACHED
          \/ /\ fut[n].state <= READY /\ n \notin mine /\ Quits(n)
             /\ \A t \in Tasks : Works(t) /\ Awaits(t, n) => Has("cleanup", t)
  /\ Running("on_drop") /\ Arg = n => Quits(n)

IInv ==
  /\ Typed /\ Ordered
  /\ \A t \in Tasks : TaskOK(t) /\ LinkOK(t) /\ SitesOK(t) /\ AwaitingOK(t)
  /\ \A n \in Nodes : NodeOK(n) /\ OwnerOK(n) /\ DropOK(n)

-----------------------------------------------------------------------------
(* The stack after a pop, a push of one call or of two.                     *)

(* The running operation is one of the operations; what is below it can     *)
(* only be waiting for it to return, and nothing else below it works on the *)
(* same frame.                                                              *)
LEMMA HeadFacts ==
  ASSUME Typed, Ordered, todo # <<>>
  PROVE  /\ Head(todo) \in AllOps /\ Head(todo) = <<Head(todo)[1], Arg>>
         /\ \A name, n : Has(name, n) <=> (Running(name) /\ n = Arg) \/ Below(name, n)
         /\ \A name, n : Below(name, n) => name \in Beneath
         /\ \A name, n : Below(name, n) => <<name, n>> \in AllOps
         /\ Head(todo)[1] \in Control => \A name \in Control : ~Below(name, Arg)
         /\ Running("release") => \A name : name # "user" => ~Below(name, Arg)
<1>1. todo \in Seq(AllOps) /\ Len(todo) \in Nat /\ Len(todo) > 0 /\ Head(todo) = todo[1]
  BY SMT DEF Typed
<1>2. \A i \in 1 .. Len(todo) : todo[i] \in AllOps
  BY <1>1
<1>3. \A o \in AllOps : o = <<o[1], o[2]>>
  BY SMT DEF AllOps
<1>4. Head(todo) \in AllOps /\ Head(todo) = <<Head(todo)[1], Arg>>
  BY <1>1, <1>2, <1>3 DEF Arg
<1>5. \A name, n : Has(name, n) <=> (Running(name) /\ n = Arg) \/ Below(name, n)
  <2> SUFFICES ASSUME NEW name, NEW n PROVE Has(name, n) <=> (Running(name) /\ n = Arg) \/ Below(name, n)
    BY Zenon
  <2>1. Has(name, n) <=> todo[1] = <<name, n>> \/ Below(name, n)
    BY <1>1, SMT DEF Has, Below
  <2>2. todo[1] = <<name, n>> <=> Running(name) /\ n = Arg
    BY <1>1, <1>4, SMT DEF Running, Arg
  <2> QED
    BY <2>1, <2>2, Zenon
<1>6. ASSUME NEW name, NEW n, Below(name, n)
      PROVE  Above(Head(todo), <<name, n>>) /\ <<name, n>> \in AllOps
  <2>1. PICK i \in 2 .. Len(todo) : todo[i] = <<name, n>>
    BY <1>6 DEF Below
  <2>2. 1 \in 1 .. Len(todo) /\ i \in 1 .. Len(todo) /\ 1 < i
    BY <1>1, SMT
  <2>3. Above(todo[1], todo[i])
    BY <2>2, Zenon DEF Ordered
  <2> QED
    BY <1>1, <1>2, <2>1, <2>2, <2>3, Zenon
<1>7. ASSUME NEW name, NEW n, Below(name, n)
      PROVE  /\ name \in Beneath /\ <<name, n>> \in AllOps
             /\ Head(todo)[1] \in Control /\ name \in Control => n # Arg
             /\ Running("release") /\ name # "user" => n # Arg
  BY <1>6, <1>7, SMT DEF Above, Arg, Running
<1> QED
  BY <1>4, <1>5, <1>7, Zenon

(* A return leaves the operations below.                                    *)
LEMMA Popped ==
  ASSUME Typed, Ordered, todo # <<>>, Then(<<>>)
  PROVE  /\ todo' \in Seq(AllOps) /\ Ordered'
         /\ \A name, n : Has(name, n)' <=> Below(name, n)
         /\ \A name, n : Below(name, n)' => Below(name, n)
         /\ \A name : Running(name)' => name \in Beneath
<1>1. todo \in Seq(AllOps) /\ Len(todo) \in Nat /\ Len(todo) > 0
  BY SMT DEF Typed
<1>2. todo' = Tail(todo)
  BY <1>1, SMT DEF Then
<1>3. todo' \in Seq(AllOps) /\ Len(todo') = Len(todo) - 1 /\ \A i \in 1 .. Len(todo') : todo'[i] = todo[i + 1]
  BY <1>1, <1>2, SMT
<1>4. Ordered'
  BY <1>1, <1>3, SMT DEF Ordered
<1>5. ASSUME NEW name, NEW n PROVE (Has(name, n)' <=> Below(name, n)) /\ (Below(name, n)' => Below(name, n))
  <2>1. ASSUME Has(name, n)' PROVE Below(name, n)
    <3>1. PICK i \in 1 .. Len(todo') : todo'[i] = <<name, n>>
      BY <2>1 DEF Has
    <3>2. i + 1 \in 2 .. Len(todo) /\ todo[i + 1] = <<name, n>>
      BY <1>1, <1>3, <3>1, SMT
    <3> QED
      BY <3>2 DEF Below
  <2>2. ASSUME Below(name, n) PROVE Has(name, n)'
    <3>1. PICK i \in 2 .. Len(todo) : todo[i] = <<name, n>>
      BY <2>2 DEF Below
    <3>2. i - 1 \in 1 .. Len(todo') /\ todo'[i - 1] = <<name, n>>
      BY <1>1, <1>3, <3>1, SMTT(30)
    <3> QED
      BY <3>2 DEF Has
  <2>3. Below(name, n)' => Has(name, n)'
    BY <1>1, <1>3, SMT DEF Below, Has
  <2> QED
    BY <2>1, <2>2, <2>3, Zenon
<1>6. ASSUME NEW name, Running(name)' PROVE name \in Beneath
  <2>1. 1 \in 1 .. Len(todo') /\ todo'[1] = Head(todo')
    BY <1>1, <1>3, <1>6, SMT DEF Running
  <2>2. todo'[1] \in AllOps
    BY <1>3, <2>1, SMT
  <2>3. \A o \in AllOps : o = <<o[1], o[2]>>
    BY SMT DEF AllOps
  <2>4. PICK n : todo'[1] = <<name, n>>
    BY <1>6, <2>1, <2>2, <2>3, SMT DEF Running
  <2>5. Has(name, n)'
    BY <2>1, <2>4 DEF Has
  <2> QED
    BY <1>5, <2>5, HeadFacts, Zenon
<1> QED
  BY <1>3, <1>4, <1>5, <1>6, Zenon

(* A call above the operations in `rest`, when each of them may be below    *)
(* it.                                                                      *)
LEMMA Pushed ==
  ASSUME Typed, Ordered, NEW a, NEW x, NEW rest \in Seq(AllOps), todo' = <<Op(a, x)>> \o rest,
         Op(a, x) \in AllOps,
         \A i \in 1 .. Len(rest) : Above(Op(a, x), rest[i]),
         \A i, j \in 1 .. Len(rest) : i < j => Above(rest[i], rest[j])
  PROVE  /\ todo' \in Seq(AllOps) /\ Ordered' /\ todo' # <<>>
         /\ (\A nm : Running(nm)' <=> nm = a) /\ Arg' = x
         /\ \A name, n : Below(name, n)' <=> \E i \in 1 .. Len(rest) : rest[i] = <<name, n>>
         /\ \A name, n : Has(name, n)' <=> (name = a /\ n = x) \/ Below(name, n)'
<1> DEFINE o == Op(a, x)
<1>1. o \in AllOps /\ o = <<a, x>>
  BY DEF Op
<1>2. /\ todo' \in Seq(AllOps) /\ Len(todo') = Len(rest) + 1 /\ Len(rest) \in Nat
      /\ todo'[1] = o /\ \A i \in 2 .. Len(todo') : todo'[i] = rest[i - 1]
  <2> HIDE DEF o
  <2>1. todo' = <<o>> \o rest
    BY DEF o
  <2> QED
    BY <1>1, <2>1, SMT
<1>3. Ordered'
  <2> SUFFICES ASSUME NEW i \in 1 .. Len(todo'), NEW j \in 1 .. Len(todo'), i < j
               PROVE  Above(todo'[i], todo'[j])
    BY DEF Ordered, Above
  <2>1. j - 1 \in 1 .. Len(rest) /\ todo'[j] = rest[j - 1]
    BY <1>2, SMT
  <2>2. CASE i = 1
    BY <1>2, <2>1, <2>2, Zenon
  <2>3. CASE i # 1
    <3>1. i - 1 \in 1 .. Len(rest) /\ todo'[i] = rest[i - 1] /\ i - 1 < j - 1
      BY <1>2, <2>3, SMT
    <3> QED
      BY <2>1, <3>1, Zenon
  <2> QED
    BY <2>2, <2>3
<1>4. todo' # <<>> /\ (\A nm : Running(nm)' <=> nm = a) /\ Arg' = x
  <2>1. Head(todo') = <<a, x>> /\ todo' # <<>>
    BY <1>1, <1>2, SMT
  <2> QED
    BY <2>1, SMT DEF Running, Arg
<1>5. ASSUME NEW name, NEW n PROVE Below(name, n)' <=> \E i \in 1 .. Len(rest) : rest[i] = <<name, n>>
  <2>1. ASSUME Below(name, n)' PROVE \E i \in 1 .. Len(rest) : rest[i] = <<name, n>>
    <3>1. PICK i \in 2 .. Len(todo') : todo'[i] = <<name, n>>
      BY <2>1 DEF Below
    <3>2. i - 1 \in 1 .. Len(rest) /\ rest[i - 1] = <<name, n>>
      BY <1>2, <3>1, SMT
    <3> QED
      BY <3>2
  <2>2. ASSUME NEW i \in 1 .. Len(rest), rest[i] = <<name, n>> PROVE Below(name, n)'
    <3>1. i + 1 \in 2 .. Len(todo') /\ todo'[i + 1] = <<name, n>>
      BY <1>2, <2>2, SMT
    <3> QED
      BY <3>1 DEF Below
  <2> QED
    BY <2>1, <2>2
<1>6. ASSUME NEW name, NEW n PROVE Has(name, n)' <=> (name = a /\ n = x) \/ Below(name, n)'
  <2>1. Has(name, n)' <=> todo'[1] = <<name, n>> \/ Below(name, n)'
    <3>1. ASSUME NEW i \in 1 .. Len(todo') PROVE i = 1 \/ i \in 2 .. Len(todo')
      BY <1>2, SMT
    <3>2. 1 \in 1 .. Len(todo') /\ \A i \in 2 .. Len(todo') : i \in 1 .. Len(todo')
      BY <1>2, SMT
    <3> QED
      BY <3>1, <3>2, Zenon DEF Has, Below
  <2>2. todo'[1] = <<name, n>> <=> name = a /\ n = x
    BY <1>1, <1>2, SMT
  <2> QED
    BY <2>1, <2>2, Zenon
<1> QED
  BY <1>2, <1>3, <1>4, <1>5, <1>6, Zenon

(* At most one operation on the stack has the control of a frame.           *)
LEMMA OneControl ==
  ASSUME Typed, Ordered, NEW n, NEW a \in Control, NEW b \in Control, Has(a, n), Has(b, n)
  PROVE  a = b
<1>1. PICK i \in 1 .. Len(todo) : todo[i] = <<a, n>>
  BY DEF Has
<1>2. PICK j \in 1 .. Len(todo) : todo[j] = <<b, n>>
  BY DEF Has
<1>3. i < j => Above(todo[i], todo[j])
  BY Zenon DEF Ordered
<1>4. j < i => Above(todo[j], todo[i])
  BY Zenon DEF Ordered
<1>5. i < j \/ j < i \/ i = j
  BY SMT DEF Typed
<1> QED
  BY <1>1, <1>2, <1>3, <1>4, <1>5, SMT DEF Above

\* What follows the head, as a stack of its own.
(* The stack without its head.                                              *)
LEMMA Rest ==
  ASSUME Typed, Ordered, todo # <<>>
  PROVE  /\ Tail(todo) \in Seq(AllOps)
         /\ \A i, j \in 1 .. Len(Tail(todo)) : i < j => Above(Tail(todo)[i], Tail(todo)[j])
         /\ \A name, n : Below(name, n) <=> \E i \in 1 .. Len(Tail(todo)) : Tail(todo)[i] = <<name, n>>
         /\ \A i \in 1 .. Len(Tail(todo)) : \E name, n : Below(name, n) /\ Tail(todo)[i] = <<name, n>>
<1>1. todo \in Seq(AllOps) /\ Len(todo) \in Nat /\ Len(todo) > 0
  BY SMT DEF Typed
<1>2. /\ Tail(todo) \in Seq(AllOps) /\ Len(Tail(todo)) = Len(todo) - 1
      /\ \A i \in 1 .. Len(Tail(todo)) : Tail(todo)[i] = todo[i + 1]
  BY <1>1, SMT
<1>3. ASSUME NEW i \in 1 .. Len(Tail(todo)), NEW j \in 1 .. Len(Tail(todo)), i < j
      PROVE  Above(Tail(todo)[i], Tail(todo)[j])
  <2>1. i + 1 \in 1 .. Len(todo) /\ j + 1 \in 1 .. Len(todo) /\ i + 1 < j + 1
    BY <1>1, <1>2, <1>3, SMT
  <2>2. Above(todo[i + 1], todo[j + 1])
    BY <2>1, Zenon DEF Ordered
  <2> QED
    BY <1>2, <2>2, Zenon
<1>4. ASSUME NEW name, NEW n PROVE Below(name, n) <=> \E i \in 1 .. Len(Tail(todo)) : Tail(todo)[i] = <<name, n>>
  <2>1. ASSUME Below(name, n) PROVE \E i \in 1 .. Len(Tail(todo)) : Tail(todo)[i] = <<name, n>>
    <3>1. PICK i \in 2 .. Len(todo) : todo[i] = <<name, n>>
      BY <2>1 DEF Below
    <3>2. i - 1 \in 1 .. Len(Tail(todo)) /\ Tail(todo)[i - 1] = <<name, n>>
      BY <1>1, <1>2, <3>1, SMT
    <3> QED
      BY <3>2
  <2>2. ASSUME NEW i \in 1 .. Len(Tail(todo)), Tail(todo)[i] = <<name, n>> PROVE Below(name, n)
    <3>1. i + 1 \in 2 .. Len(todo) /\ todo[i + 1] = <<name, n>>
      BY <1>1, <1>2, <2>2, SMT
    <3> QED
      BY <3>1 DEF Below
  <2> QED
    BY <2>1, <2>2
<1>5. ASSUME NEW i \in 1 .. Len(Tail(todo)) PROVE \E name, n : Below(name, n) /\ Tail(todo)[i] = <<name, n>>
  <2>1. Tail(todo)[i] \in AllOps
    BY <1>2, SMT
  <2>2. \A o \in AllOps : o = <<o[1], o[2]>>
    BY SMT DEF AllOps
  <2> QED
    BY <1>4, <2>1, <2>2, Zenon
<1> QED
  BY <1>2, <1>3, <1>4, <1>5, Zenon

\* May an operation go on top of what is below the head?
(* a may run on x above what is below the head.                             *)
Fits(a, x) ==
  \A name : Below(name, x) => /\ ~(a \in Control /\ name \in Control)
                             /\ ~(a = "release" /\ name # "user")

(* The running operation is replaced by one call.                           *)
LEMMA Then1 ==
  ASSUME Typed, Ordered, todo # <<>>, NEW a, NEW x, Then(<<Op(a, x)>>), Op(a, x) \in AllOps, Fits(a, x)
  PROVE  /\ todo' \in Seq(AllOps) /\ Ordered' /\ todo' # <<>>
         /\ (\A nm : Running(nm)' <=> nm = a) /\ Arg' = x
         /\ \A name, n : Below(name, n)' <=> Below(name, n)
         /\ \A name, n : Has(name, n)' <=> (name = a /\ n = x) \/ Below(name, n)
<1>1. todo' = <<Op(a, x)>> \o Tail(todo)
  BY DEF Then
<1>2. ASSUME NEW i \in 1 .. Len(Tail(todo)) PROVE Above(Op(a, x), Tail(todo)[i])
  <2>1. PICK name, n : Below(name, n) /\ Tail(todo)[i] = <<name, n>>
    BY Rest, Zenon
  <2>2. name \in Beneath
    BY <2>1, HeadFacts, Zenon
  <2> QED
    BY <2>1, <2>2, SMT DEF Above, Fits, Op
<1>3. /\ todo' \in Seq(AllOps) /\ Ordered' /\ todo' # <<>>
      /\ (\A nm : Running(nm)' <=> nm = a) /\ Arg' = x
      /\ \A name, n : Below(name, n)' <=> \E i \in 1 .. Len(Tail(todo)) : Tail(todo)[i] = <<name, n>>
      /\ \A name, n : Has(name, n)' <=> (name = a /\ n = x) \/ Below(name, n)'
  BY <1>1, <1>2, Rest, Pushed, Zenon
<1> QED
  BY <1>3, Rest, SMTT(30)

(* The running operation is replaced by two calls, one after the other.     *)
LEMMA Then2 ==
  ASSUME Typed, Ordered, todo # <<>>, NEW a, NEW x, NEW b, NEW y, Then(<<Op(a, x), Op(b, y)>>),
         Op(a, x) \in AllOps, Op(b, y) \in AllOps, Fits(a, x), Fits(b, y),
         b \in Beneath, a \in Control /\ b \in Control => x # y, a # "release"
  PROVE  /\ todo' \in Seq(AllOps) /\ Ordered' /\ todo' # <<>>
         /\ (\A nm : Running(nm)' <=> nm = a) /\ Arg' = x
         /\ \A name, n : Below(name, n)' <=> (name = b /\ n = y) \/ Below(name, n)
         /\ \A name, n : Has(name, n)' <=> (name = a /\ n = x) \/ (name = b /\ n = y) \/ Below(name, n)
<1> DEFINE rest == <<Op(b, y)>> \o Tail(todo)
<1>0. Tail(todo) \in Seq(AllOps)
  BY Rest
<1>1. todo' = <<Op(a, x)>> \o rest /\ rest \in Seq(AllOps)
  BY <1>0, SMT DEF Then
<1>2. ASSUME NEW i \in 1 .. Len(Tail(todo)) PROVE Above(Op(a, x), Tail(todo)[i]) /\ Above(Op(b, y), Tail(todo)[i])
  <2>1. PICK name, n : Below(name, n) /\ Tail(todo)[i] = <<name, n>>
    BY Rest, Zenon
  <2>2. name \in Beneath
    BY <2>1, HeadFacts, Zenon
  <2> QED
    BY <2>1, <2>2, SMT DEF Above, Fits, Op
<1>3. Above(Op(a, x), Op(b, y))
  BY SMT DEF Above, Op
<1>4. /\ Len(rest) = Len(Tail(todo)) + 1 /\ Len(Tail(todo)) \in Nat /\ rest[1] = Op(b, y)
      /\ \A i \in 2 .. Len(rest) : i - 1 \in 1 .. Len(Tail(todo)) /\ rest[i] = Tail(todo)[i - 1]
      /\ \A i \in 1 .. Len(Tail(todo)) : i + 1 \in 2 .. Len(rest)
  <2> DEFINE r == Tail(todo)
  <2>1. r \in Seq(AllOps)
    BY <1>0
  <2> HIDE DEF r
  <2>2. rest = <<Op(b, y)>> \o r
    BY DEF r
  <2> HIDE DEF rest
  <2>3. /\ Len(rest) = Len(r) + 1 /\ Len(r) \in Nat /\ rest[1] = Op(b, y)
        /\ \A i \in 2 .. Len(rest) : i - 1 \in 1 .. Len(r) /\ rest[i] = r[i - 1]
        /\ \A i \in 1 .. Len(r) : i + 1 \in 2 .. Len(rest)
    BY <2>1, <2>2, SMT
  <2> QED
    BY <2>3 DEF r
<1> HIDE DEF rest
<1>5. ASSUME NEW i \in 1 .. Len(rest) PROVE i = 1 \/ i \in 2 .. Len(rest)
  BY <1>4, SMT
<1>6. \A i \in 1 .. Len(rest) : Above(Op(a, x), rest[i])
  BY <1>2, <1>3, <1>4, <1>5, Zenon
<1>7. ASSUME NEW i \in 1 .. Len(rest), NEW j \in 1 .. Len(rest), i < j PROVE Above(rest[i], rest[j])
  <2>1. j - 1 \in 1 .. Len(Tail(todo)) /\ rest[j] = Tail(todo)[j - 1]
    BY <1>4, <1>7, SMT
  <2>2. CASE i = 1
    BY <1>2, <1>4, <2>1, <2>2, Zenon
  <2>3. CASE i # 1
    <3>1. i - 1 \in 1 .. Len(Tail(todo)) /\ rest[i] = Tail(todo)[i - 1] /\ i - 1 < j - 1
      BY <1>4, <1>7, <2>3, SMT
    <3> QED
      BY <2>1, <3>1, Rest, Zenon
  <2> QED
    BY <2>2, <2>3
<1>8. /\ todo' \in Seq(AllOps) /\ Ordered' /\ todo' # <<>>
      /\ (\A nm : Running(nm)' <=> nm = a) /\ Arg' = x
      /\ \A name, n : Below(name, n)' <=> \E i \in 1 .. Len(rest) : rest[i] = <<name, n>>
      /\ \A name, n : Has(name, n)' <=> (name = a /\ n = x) \/ Below(name, n)'
  BY <1>1, <1>6, <1>7, Pushed, Zenon
<1>9. ASSUME NEW name, NEW n
      PROVE  (\E i \in 1 .. Len(rest) : rest[i] = <<name, n>>) <=> (name = b /\ n = y) \/ Below(name, n)
  <2>1. Op(b, y) = <<name, n>> <=> name = b /\ n = y
    BY SMT DEF Op
  <2>2. ASSUME NEW i \in 1 .. Len(rest), rest[i] = <<name, n>> PROVE (name = b /\ n = y) \/ Below(name, n)
    BY <1>4, <1>5, <2>1, <2>2, Rest, Zenon
  <2>3. ASSUME name = b /\ n = y PROVE \E i \in 1 .. Len(rest) : rest[i] = <<name, n>>
    <3>1. 1 \in 1 .. Len(rest)
      BY <1>4, SMT
    <3> QED
      BY <1>4, <2>1, <2>3, <3>1, Zenon
  <2>4. ASSUME Below(name, n) PROVE \E i \in 1 .. Len(rest) : rest[i] = <<name, n>>
    <3>1. PICK i \in 1 .. Len(Tail(todo)) : Tail(todo)[i] = <<name, n>>
      BY <2>4, Rest, Zenon
    <3>2. i + 1 \in 2 .. Len(rest) /\ i + 1 \in 1 .. Len(rest) /\ rest[i + 1] = Tail(todo)[i]
      BY <1>4, SMT
    <3> QED
      BY <3>1, <3>2, Zenon
  <2> QED
    BY <2>2, <2>3, <2>4, Zenon
<1> QED
  BY <1>8, <1>9, Zenon

(* A call from the program or the loop, or from a plain cleanup.            *)
LEMMA Start1 ==
  ASSUME Typed, Ordered, InUser, NEW a, NEW x, Start(<<Op(a, x)>>), Op(a, x) \in AllOps,
         a \in Control => Quiet(x), a # "release"
  PROVE  /\ todo' \in Seq(AllOps) /\ Ordered' /\ todo' # <<>>
         /\ (\A nm : Running(nm)' <=> nm = a) /\ Arg' = x
         /\ \A name, n : Below(name, n)' <=> Has(name, n)
         /\ \A name, n : Has(name, n)' <=> (name = a /\ n = x) \/ Has(name, n)
         /\ \A name, n : Has(name, n) => name \in Beneath
<1>1. todo' = <<Op(a, x)>> \o todo /\ todo \in Seq(AllOps)
  BY DEF Start, Typed
<1>2. ASSUME NEW name, NEW n, Has(name, n) PROVE name \in Beneath
  <2>1. PICK i \in 1 .. Len(todo) : todo[i] = <<name, n>>
    BY <1>2 DEF Has
  <2>2. todo # <<>>
    BY <1>1, <2>1, SMT
  <2>3. Running("user") \/ Below(name, n)
    BY <1>2, <2>2, HeadFacts, Zenon DEF InUser
  <2>4. Running(name) \/ Below(name, n)
    BY <1>2, <2>2, HeadFacts, Zenon
  <2>5. Below(name, n) => name \in Beneath
    BY <2>2, HeadFacts, Zenon
  <2> QED
    BY <2>3, <2>4, <2>5, SMT DEF Running, Beneath
<1>3. ASSUME NEW i \in 1 .. Len(todo) PROVE Above(Op(a, x), todo[i])
  <2>1. todo[i] \in AllOps
    BY <1>1, SMT
  <2>2. \A o \in AllOps : o = <<o[1], o[2]>>
    BY SMT DEF AllOps
  <2>3. PICK name, n : todo[i] = <<name, n>>
    BY <2>1, <2>2, Zenon
  <2>4. Has(name, n)
    BY <2>3 DEF Has
  <2>5. name \in Beneath
    BY <1>2, <2>4
  <2>6. a \in Control /\ name \in Control => x # n
    BY <2>4, Zenon DEF Quiet
  <2> QED
    BY <2>3, <2>5, <2>6, SMT DEF Above, Op
<1>4. /\ todo' \in Seq(AllOps) /\ Ordered' /\ todo' # <<>>
      /\ (\A nm : Running(nm)' <=> nm = a) /\ Arg' = x
      /\ \A name, n : Below(name, n)' <=> \E i \in 1 .. Len(todo) : todo[i] = <<name, n>>
      /\ \A name, n : Has(name, n)' <=> (name = a /\ n = x) \/ Below(name, n)'
  <2>1. \A i, j \in 1 .. Len(todo) : i < j => Above(todo[i], todo[j])
    BY Zenon DEF Ordered
  <2> QED
    BY <1>1, <1>3, <2>1, Pushed, Zenon
<1> QED
  BY <1>2, <1>4, Zenon DEF Has

-----------------------------------------------------------------------------
(* What an action leaves alone.                                             *)
\* Nothing of x changes, but for a drop to come.
(* Nothing of x changes, but for the program's own calls and its drops.     *)
Alike(x) ==
  /\ fut'[x] = fut[x] /\ (x \in Tasks => frame'[x] = frame[x] /\ ran'[x] = ran[x])
  /\ (Alive(x)' <=> Alive(x)) /\ (Drops(x)' <=> Drops(x)) /\ (Resumes(x)' <=> Resumes(x))
  /\ (Reaps(x)' <=> Reaps(x)) /\ (Works(x)' <=> Works(x))
  /\ (x \in reg' <=> x \in reg) /\ (x \in mine' <=> x \in mine) /\ (x \in fresh' <=> x \in fresh)
  /\ \A name : name \notin {"user", "drop"} => (Has(name, x)' <=> Has(name, x))

(* Nothing of x changes.                                                    *)
Still(x) == Alike(x) /\ (Has("drop", x)' <=> Has("drop", x))

(* A task that nothing changed is in order.                                 *)
LEMMA AlikeTask ==
  ASSUME NEW t \in Tasks, TaskOK(t), Alike(t), cleanups' = cleanups
  PROVE  TaskOK(t)'
<1>1. Last(t)' = Last(t) /\ cleanups'[t] = cleanups[t]
  BY DEF Last
<1>2. Awaited(t)' = Awaited(t)
  BY <1>1, Zenon DEF Awaited, Alike
<1>3. /\ (Has("call", t)' <=> Has("call", t)) /\ (Has("poll", t)' <=> Has("poll", t))
      /\ (Has("extract", t)' <=> Has("extract", t)) /\ (Has("run", t)' <=> Has("run", t))
      /\ (Has("publish", t)' <=> Has("publish", t)) /\ (Has("end", t)' <=> Has("end", t))
      /\ (Has("on_drop", t)' <=> Has("on_drop", t)) /\ (Has("cleanup", t)' <=> Has("cleanup", t))
      /\ (Has("reap", t)' <=> Has("reap", t)) /\ (Has("release", t)' <=> Has("release", t))
  BY SMT DEF Alike
<1>4. /\ fut'[t] = fut[t] /\ frame'[t] = frame[t] /\ ran'[t] = ran[t]
      /\ (Alive(t)' <=> Alive(t)) /\ (Works(t)' <=> Works(t))
  BY Zenon DEF Alike
<1>5. NewOK(t)'
  BY <1>1, <1>4, SMT DEF TaskOK, NewOK
<1>6. ModeOK(t)'
  BY <1>4, SMT DEF TaskOK, ModeOK
<1>7. WorksOK(t)'
  BY <1>1, <1>2, <1>3, <1>4, SMT DEF TaskOK, WorksOK
<1>8. DoneOK(t)'
  BY <1>1, <1>3, <1>4, SMT DEF TaskOK, DoneOK
<1>9. OpsOK(t)'
  BY <1>3, <1>4, SMT DEF TaskOK, OpsOK
<1>10. RanOK(t)'
  BY <1>1, <1>4, SMT DEF TaskOK, RanOK, Descending
<1> QED
  BY <1>5, <1>6, <1>7, <1>8, <1>9, <1>10, Zenon DEF TaskOK

(* So is a future.                                                          *)
LEMMA AlikeNode ==
  ASSUME NEW n \in Nodes, NodeOK(n), Alike(n)
  PROVE  NodeOK(n)'
<1>1. /\ (Has("call", n)' <=> Has("call", n)) /\ (Has("on_drop", n)' <=> Has("on_drop", n))
      /\ (Has("complete", n)' <=> Has("complete", n)) /\ (Has("release", n)' <=> Has("release", n))
      /\ (Quiet(n)' <=> Quiet(n))
  <2>1. /\ (Has("call", n)' <=> Has("call", n)) /\ (Has("on_drop", n)' <=> Has("on_drop", n))
        /\ (Has("complete", n)' <=> Has("complete", n)) /\ (Has("release", n)' <=> Has("release", n))
    BY SMT DEF Alike
  <2>2. \A name \in Control : Has(name, n)' <=> Has(name, n)
    BY SMT DEF Alike, Control
  <2>3. Quiet(n)' <=> Quiet(n)
    BY <2>2, Zenon DEF Quiet
  <2> QED
    BY <2>1, <2>3
<1>2. BlocksOK(n)'
  BY Zenon DEF NodeOK, BlocksOK, Alike
<1>3. Idles(n)' <=> Idles(n)
  BY Zenon DEF Idles, Alike
<1>4. FutureOK(n)'
  BY <1>1, <1>3, Zenon DEF NodeOK, FutureOK, Alike
<1>5. MineOK(n)'
  BY <1>1, Zenon DEF NodeOK, MineOK, Alike
<1>6. n \in Leaves => LeafOK(n)'
  BY <1>1, Zenon DEF NodeOK, LeafOK, Alike
<1> QED
  BY <1>2, <1>4, <1>5, <1>6, Zenon DEF NodeOK

\* t waits for what it awaits, and nothing of t that matters to that changes.
(* t is suspended, or is about to look at what it awaits.                   *)
Waits(t) == Parks(t) \/ Has("on_drop", t) \/ Has("poll", t) \/ Has("extract", t)
(* What the awaited future's part of the invariant reads of a task.         *)
Steady(t) ==
  /\ frame'[t] = frame[t] /\ (Works(t)' <=> Works(t)) /\ (Parks(t)' <=> Parks(t))
  /\ \A name \in Control : Has(name, t)' <=> Has(name, t)

(* A task that nothing changed is steady.                                   *)
LEMMA AlikeSteady ==
  ASSUME NEW t \in Tasks, Alike(t) PROVE Steady(t)
<1>1. \A name \in Control : Has(name, t)' <=> Has(name, t)
  BY SMT DEF Alike, Control
<1>2. Quiet(t)' <=> Quiet(t)
  BY <1>1, Zenon DEF Quiet
<1> QED
  BY <1>1, <1>2, Zenon DEF Steady, Alike, Parks

\* Nothing changes of what n shows to who awaits it, or of n but for its control and its cleanups.
(* What the awaiting task's part of the invariant reads of a future.        *)
Visible(n) ==
  /\ fut'[n] = fut[n] /\ (Alive(n)' <=> Alive(n)) /\ (n \in mine' <=> n \in mine)
  /\ (Has("call", n)' <=> Has("call", n)) /\ (Has("drop", n)' <=> Has("drop", n))
        /\ (Has("reap", n)' <=> Has("reap", n))

(* What NodeOK reads of a future, but for the calls of a task's own body.   *)
Placid(n) ==
  /\ Visible(n) /\ (n \in Tasks => (frame'[n].mode = "new" <=> frame[n].mode = "new"))
  /\ (Drops(n)' <=> Drops(n)) /\ (Resumes(n)' <=> Resumes(n)) /\ (Reaps(n)' <=> Reaps(n))
  /\ (n \in reg' <=> n \in reg) /\ (n \in fresh' <=> n \in fresh)
  /\ \A name \in {"release", "complete", "on_drop"} : Has(name, n)' <=> Has(name, n)

(* A node that nothing changed is placid.                                   *)
LEMMA StillPlacid ==
  ASSUME NEW n \in Nodes, Still(n) PROVE Placid(n)
<1>1. \A name \in {"call", "drop", "reap", "release", "complete", "on_drop"} : Has(name, n)' <=> Has(name, n)
  BY SMT DEF Still, Alike
<1> QED
  BY <1>1, Zenon DEF Still, Alike, Placid, Visible

(* A placid future is in order, unless it is READY: then its task must stay *)
(* quiet.                                                                   *)
LEMMA PlacidNode ==
  ASSUME NEW n \in Nodes, NodeOK(n), Placid(n), fut[n].state # READY
  PROVE  NodeOK(n)'
<1>1. /\ (Has("call", n)' <=> Has("call", n)) /\ (Has("on_drop", n)' <=> Has("on_drop", n))
      /\ (Has("complete", n)' <=> Has("complete", n)) /\ (Has("release", n)' <=> Has("release", n))
  BY SMT DEF Placid, Visible
<1>2. BlocksOK(n)'
  BY Zenon DEF NodeOK, BlocksOK, Placid, Visible
<1>3. Idles(n)' <=> Idles(n)
  BY Zenon DEF Idles, Placid, Visible
<1>4. FutureOK(n)'
  BY <1>1, <1>3, Zenon DEF NodeOK, FutureOK, Placid, Visible
<1>5. MineOK(n)'
  BY <1>1, Zenon DEF NodeOK, MineOK, Placid, Visible
<1>6. n \in Leaves => LeafOK(n)'
  BY <1>1, Zenon DEF NodeOK, LeafOK, Placid, Visible
<1> QED
  BY <1>2, <1>4, <1>5, <1>6, Zenon DEF NodeOK

(* The places of a program are fixed; what a task awaits depends on its     *)
(* frame only.                                                              *)
LEMMA SameSites ==
  ASSUME cleanups' = cleanups
  PROVE  \A t \in Tasks : /\ Last(t)' = Last(t) /\ \A j : At(t, j)' = At(t, j)
                          /\ frame'[t] = frame[t] => Awaited(t)' = Awaited(t) /\ \A n : Awaits(t, n)' <=> Awaits(t, n)
BY Zenon DEF Last, At, Awaited, Awaits

(* The link of a task to what it awaits needs a steady task and an          *)
(* unchanged future.                                                        *)
LEMMA SteadyLinked ==
  ASSUME NEW t \in Tasks, NEW n \in Nodes, Linked(t, n), Steady(t), Visible(n) \/ ~Waits(t)
  PROVE  Linked(t, n)'
<1>1. /\ (Has("poll", t)' <=> Has("poll", t)) /\ (Has("extract", t)' <=> Has("extract", t))
      /\ (Has("on_drop", t)' <=> Has("on_drop", t)) /\ (Parks(t)' <=> Parks(t)) /\ frame'[t] = frame[t]
  BY SMT DEF Steady, Control
<1>2. CASE Visible(n)
  BY <1>1, <1>2, Zenon DEF Linked, Visible
<1>3. CASE ~Waits(t)
  BY <1>1, <1>3, Zenon DEF Linked, Waits
<1> QED
  BY <1>2, <1>3

(* The same of all a task may await.                                        *)
LEMMA SteadyLink ==
  ASSUME NEW t \in Tasks, LinkOK(t), Steady(t), cleanups' = cleanups,
         \A n \in Nodes : Awaits(t, n) /\ Waits(t) => Visible(n)
  PROVE  LinkOK(t)'
<1> SUFFICES ASSUME NEW n \in Nodes, Awaits(t, n)' PROVE Linked(t, n)'
  BY DEF LinkOK
<1>1. Awaits(t, n) /\ Linked(t, n)
  BY SameSites, Zenon DEF LinkOK, Steady
<1> QED
  BY <1>1, SteadyLinked, Zenon

(* A future keeps its owner when its awaiter is steady.                     *)
LEMMA SteadyOwner ==
  ASSUME NEW n \in Nodes, OwnerOK(n), Visible(n), cleanups' = cleanups,
         \A t \in Tasks : Awaits(t, n) /\ Waits(t) => Steady(t)
  PROVE  OwnerOK(n)'
<1>1. /\ (Has("call", n)' <=> Has("call", n)) /\ (Has("drop", n)' <=> Has("drop", n))
            /\ (Has("reap", n)' <=> Has("reap", n))
      /\ fut'[n] = fut[n] /\ (Alive(n)' <=> Alive(n)) /\ (n \in mine' <=> n \in mine)
  BY SMT DEF Visible
<1>2. ASSUME NEW t \in Tasks, Awaits(t, n), Waits(t)
      PROVE  /\ Awaits(t, n)' /\ (Has("poll", t)' <=> Has("poll", t)) /\ (Has("extract", t)' <=> Has("extract", t))
             /\ (Has("on_drop", t)' <=> Has("on_drop", t)) /\ (Parks(t)' <=> Parks(t))
  <2>1. Steady(t)
    BY <1>2
  <2>2. Awaits(t, n)'
    BY <1>2, <2>1, SameSites, Zenon DEF Steady
  <2> QED
    BY <2>1, <2>2, SMT DEF Steady, Control
<1>3. Has("call", n)' => n \in mine' \/ \E t \in Tasks : Has("poll", t)' /\ Awaits(t, n)'
  BY <1>1, <1>2, Zenon DEF OwnerOK, Waits
<1>4. Alive(n)' /\ fut'[n].state \in {PENDING, READY} =>
       n \in mine' \/ Has("drop", n)' \/ Has("reap", n)'
         \/ \E t \in Tasks : (Has("poll", t)' \/ Has("extract", t)') /\ Awaits(t, n)'
  BY <1>1, <1>2, Zenon DEF OwnerOK, Waits
<1>5. Alive(n)' /\ fut'[n].state = WAITING /\ fut'[n].waker = Resume(n) =>
       Has("drop", n)' \/ \E t \in Tasks : (Parks(t)' \/ Has("on_drop", t)') /\ Awaits(t, n)'
  BY <1>1, <1>2, Zenon DEF OwnerOK, Waits
<1> QED
  BY <1>3, <1>4, <1>5, Zenon DEF OwnerOK, WAITING, Resume

(* What a steady task is still to call stays idle.                          *)
LEMMA SteadySites ==
  ASSUME NEW t \in Tasks, SitesOK(t), Steady(t), cleanups' = cleanups,
         \A n \in Nodes : \A j \in 1 .. Last(t) + 1 :
           At(t, j) = n /\ ToCall(t, j) /\ Idles(n) /\ ~Has("call", n) => Idles(n)' /\ ~Has("call", n)'
  PROVE  SitesOK(t)'
<1>1. Has("run", t)' <=> Has("run", t)
  BY SMT DEF Steady, Control
<1>2. \A j : ToCall(t, j)' <=> ToCall(t, j)
  BY <1>1, Zenon DEF ToCall, Steady
<1> QED
  BY <1>2, SameSites, Zenon DEF SitesOK

(* The frame's pointer to what it awaits is unchanged with the frame.       *)
LEMMA SameAwaiting ==
  ASSUME NEW t \in Tasks, AwaitingOK(t), frame'[t] = frame[t], cleanups' = cleanups
  PROVE  AwaitingOK(t)'
BY SameSites, Zenon DEF AwaitingOK

\* What is not touched by a step keeps its part of the invariant.
(* Only the nodes of M change.                                              *)
Untouched(M) == cleanups' = cleanups /\ \A x \in Nodes \ M : Still(x)

(* A task that waits for nothing has no link.                               *)
LEMMA NoLink ==
  ASSUME NEW t, ~Waits(t)' PROVE LinkOK(t)'
BY Zenon DEF LinkOK, Linked, Waits

(* What follows for the nodes and tasks outside M, and for those inside     *)
(* that no awaiter can tell apart.                                          *)
LEMMA Kept ==
  ASSUME IInv, NEW M, Untouched(M)
  PROVE  /\ \A t \in Tasks \ M : TaskOK(t)' /\ Steady(t)
         /\ \A n \in Nodes \ M : NodeOK(n)' /\ Placid(n) /\ Visible(n)
         /\ \A t \in Tasks : Steady(t) => AwaitingOK(t)'
         /\ \A t \in Tasks : Steady(t) /\ (\A n \in M \cap Nodes : Visible(n) \/ ~(Awaits(t, n)
               /\ Waits(t))) => LinkOK(t)'
         /\ \A n \in Nodes : Visible(n) /\ (\A t \in M \cap Tasks : Steady(t) \/ ~(Awaits(t, n)
               /\ Waits(t))) => OwnerOK(n)'
         /\ \A t \in Tasks :
              /\ Steady(t)
              /\ \A n \in M \cap Nodes : Idles(n) /\ ~Has("call", n) =>
                   \/ Idles(n)' /\ ~Has("call", n)'
                   \/ \A j \in 1 .. Last(t) + 1 : ~(At(t, j) = n /\ ToCall(t, j))
              => SitesOK(t)'
<1>1. cleanups' = cleanups /\ \A x \in Nodes \ M : Still(x) /\ Alike(x) /\ Placid(x) /\ Visible(x)
  BY StillPlacid, Zenon DEF Untouched, Still, Placid
<1>2. \A t \in Tasks : TaskOK(t) /\ AwaitingOK(t) /\ LinkOK(t) /\ SitesOK(t)
  BY DEF IInv
<1>3. ASSUME NEW t \in Tasks \ M PROVE TaskOK(t)' /\ Steady(t)
  <2>1. t \in Nodes \ M
    BY DEF Nodes
  <2>2. Alike(t)
    BY <1>1, <2>1
  <2> QED
    BY <1>1, <1>2, <2>2, AlikeTask, AlikeSteady, Zenon
<1>4. ASSUME NEW n \in Nodes \ M PROVE NodeOK(n)' /\ Placid(n) /\ Visible(n)
  BY <1>1, AlikeNode, Zenon DEF IInv
<1>5. ASSUME NEW t \in Tasks, Steady(t) PROVE AwaitingOK(t)'
  BY <1>1, <1>2, <1>5, SameAwaiting, Zenon DEF Steady
<1>6. ASSUME NEW t \in Tasks, Steady(t), \A n \in M \cap Nodes : Visible(n) \/ ~(Awaits(t, n) /\ Waits(t))
      PROVE  LinkOK(t)'
  <2>1. \A n \in Nodes : Awaits(t, n) /\ Waits(t) => Visible(n)
    BY <1>1, <1>6, Zenon
  <2> QED
    BY <1>1, <1>2, <1>6, <2>1, SteadyLink, Zenon
<1>7. ASSUME NEW n \in Nodes, Visible(n), \A t \in M \cap Tasks : Steady(t) \/ ~(Awaits(t, n) /\ Waits(t))
      PROVE  OwnerOK(n)'
  <2>1. \A t \in Tasks : Awaits(t, n) /\ Waits(t) => Steady(t)
    BY <1>3, <1>7, Zenon
  <2> QED
    BY <1>1, <1>7, <2>1, SteadyOwner, Zenon DEF IInv
<1>8. ASSUME NEW t \in Tasks, Steady(t),
             \A n \in M \cap Nodes : Idles(n) /\ ~Has("call", n) =>
               \/ Idles(n)' /\ ~Has("call", n)'
               \/ \A j \in 1 .. Last(t) + 1 : ~(At(t, j) = n /\ ToCall(t, j))
      PROVE  SitesOK(t)'
  <2>1. ASSUME NEW n \in Nodes \ M, Idles(n), ~Has("call", n) PROVE Idles(n)' /\ ~Has("call", n)'
    <3>1. Alike(n)
      BY <1>1
    <3>2. Has("call", n)' <=> Has("call", n)
      BY <3>1, SMT DEF Alike
    <3> QED
      BY <2>1, <3>1, <3>2, Zenon DEF Alike, Idles
  <2>2. \A n \in Nodes : \A j \in 1 .. Last(t) + 1 :
           At(t, j) = n /\ ToCall(t, j) /\ Idles(n) /\ ~Has("call", n) => Idles(n)' /\ ~Has("call", n)'
    BY <1>8, <2>1, Zenon
  <2> QED
    BY <1>1, <1>2, <1>8, <2>2, SteadySites, Zenon
<1> QED
  BY <1>3, <1>4, <1>5, <1>6, <1>7, <1>8, Zenon

-----------------------------------------------------------------------------
\* The blocks are different ones.
(* Blocks of different kinds, or of different nodes, are different.         *)
LEMMA BlockNames ==
  /\ \A m, n : Fut(m) = Fut(n) <=> m = n
  /\ \A m, n : Drp(m) = Drp(n) <=> m = n
  /\ \A m, n : Resume(m) = Resume(n) <=> m = n
  /\ \A m, n : Reap(m) = Reap(n) <=> m = n
  /\ \A m, n : Closure(m) = Closure(n) <=> m = n
  /\ \A m, n : Fut(m) # Drp(n) /\ Fut(m) # Resume(n) /\ Fut(m) # Reap(n) /\ Fut(m) # Closure(n)
  /\ \A m, n : Drp(m) # Resume(n) /\ Drp(m) # Reap(n) /\ Drp(m) # Closure(n)
  /\ \A m, n : Resume(m) # Reap(n) /\ Resume(m) # Closure(n) /\ Reap(m) # Closure(n)
BY SMT DEF Fut, Drp, Resume, Reap, Closure

(* The types, one node at a time.                                           *)
LEMMA Shapes ==
  ASSUME Typed
  PROVE  /\ \A n \in Nodes : fut[n] \in Futures /\ fut[n].state \in 0 .. 6 /\ fut[n].waker \in Wakers
         /\ \A t \in Tasks : frame[t] \in Frames /\ frame[t].k \in Nat /\ frame[t].awaiting \in Nodes \cup {None}
                             /\ frame[t].mode \in Modes /\ frame[t].k <= Last(t) + 1
         /\ \A t \in Tasks : t \in Nodes
         /\ \A l \in Leaves : l \in Nodes
BY SMT DEF Typed, Futures, Frames, PENDING, CLEANED, Nodes

(* A store to a future's state leaves its waker and the other futures.      *)
LEMMA StateSet ==
  ASSUME Typed, NEW n \in Nodes, NEW s \in 0 .. 6, SetState(n, s)
  PROVE  /\ fut' \in [Nodes -> Futures] /\ fut'[n].state = s /\ fut'[n].waker = fut[n].waker
         /\ \A x \in Nodes : x # n => fut'[x] = fut[x]
<1>1. fut \in [Nodes -> Futures] /\ fut' = [fut EXCEPT ![n].state = s]
  BY DEF Typed, SetState
<1>2. fut[n] \in Futures
  BY <1>1
<1>3. [fut[n] EXCEPT !.state = s] \in Futures /\ [fut[n] EXCEPT !.state = s].state = s
      /\ [fut[n] EXCEPT !.state = s].waker = fut[n].waker
  BY <1>2, SMT DEF Futures, PENDING, CLEANED
<1>4. fut' = [fut EXCEPT ![n] = [fut[n] EXCEPT !.state = s]]
  BY <1>1
<1> QED
  BY <1>1, <1>3, <1>4, SMT

-----------------------------------------------------------------------------
(* What the invariant says of a place, and the actions of one task alone.   *)

(* A node has one place, which is not a root's: ForestAssumption, for the   *)
(* program at hand.                                                         *)
LEMMA Sites ==
  ASSUME IInv
  PROVE  /\ \A t, u \in Tasks : \A j \in 1 .. Last(t) + 1, k \in 1 .. Last(u) + 1 :
              At(t, j) = At(u, k) /\ At(t, j) \in Nodes => t = u /\ j = k
         /\ \A t \in Tasks : \A j \in 1 .. Last(t) + 1 : At(t, j) \notin Roots
         /\ \A t \in Tasks : Last(t) \in Nat
         /\ \A t \in Tasks : \A n : Awaits(t, n) => frame[t].k \in 1 .. Last(t) + 1 /\ n = At(t, frame[t].k)
<1>1. cleanups \in Programs
  BY DEF IInv, Typed
<1>2. \A t \in Tasks : \A j : At(t, j) = Site(cleanups, t, j)
  BY Zenon DEF At, Site, Last
<1>3. \A t \in Tasks : Last(t) = Len(cleanups[t])
  BY DEF Last
<1>4. \A t \in Tasks : Last(t) \in Nat
  BY <1>1, ProgramsAssumption, SMT DEF Last
<1>5. ASSUME NEW t \in Tasks, NEW n, Awaits(t, n)
      PROVE  frame[t].k \in 1 .. Last(t) + 1 /\ n = At(t, frame[t].k)
  <2>1. frame[t].k \in Nat /\ frame[t].k <= Last(t) + 1
    BY Shapes, Zenon DEF IInv
  <2> QED
    <3>1. frame[t].k > 0 /\ n = At(t, frame[t].k)
      BY <1>5, Zenon DEF Awaits, Awaited, At
    <3> QED
      BY <1>4, <2>1, <3>1, SMT
<1>6. /\ \A t, u \in Tasks : \A j \in 1 .. Last(t) + 1, k \in 1 .. Last(u) + 1 :
           At(t, j) = At(u, k) /\ At(t, j) \in Nodes => t = u /\ j = k
      /\ \A t \in Tasks : \A j \in 1 .. Last(t) + 1 : At(t, j) \notin Roots
  <2>1. /\ \A t, u \in Tasks : \A j \in 1 .. Len(cleanups[t]) + 1, k \in 1 .. Len(cleanups[u]) + 1 :
             Site(cleanups, t, j) = Site(cleanups, u, k) /\ Site(cleanups, t, j) \in Nodes => t = u /\ j = k
        /\ \A t \in Tasks : \A j \in 1 .. Len(cleanups[t]) + 1 : Site(cleanups, t, j) \notin Roots
    BY <1>1, ForestAssumption, Zenon
  <2> QED
    BY <1>2, <1>3, <2>1, SMT
<1> QED
  BY <1>4, <1>5, <1>6, Zenon

(* A node is awaited by one task, a root by none.                           *)
LEMMA OneCaller ==
  ASSUME IInv
  PROVE  /\ \A t, u \in Tasks, n \in Nodes : Awaits(t, n) /\ Awaits(u, n) => t = u
         /\ \A t \in Tasks, n \in Nodes : Awaits(t, n) => n \notin Roots
<1>1. ASSUME NEW t \in Tasks, NEW u \in Tasks, NEW n \in Nodes, Awaits(t, n), Awaits(u, n)
      PROVE  t = u
  BY <1>1, Sites, SMTT(30)
<1>2. ASSUME NEW t \in Tasks, NEW n, Awaits(t, n)
      PROVE  n \notin Roots
  BY <1>2, Sites, Zenon
<1> QED
  BY <1>1, <1>2, Zenon

(* A task that waits has its frame, and its link to what it awaits.         *)
LEMMA Waiting ==
  ASSUME IInv, NEW t \in Tasks, Waits(t)
  PROVE  /\ Works(t) /\ ~Has("run", t) /\ Alive(t) /\ fut[t].state \notin {READY, CLEANED}
         /\ Awaited(t) \in Nodes /\ Awaits(t, Awaited(t)) /\ Linked(t, Awaited(t))
<1>1. Works(t)
  BY Zenon DEF Waits, Parks, IInv, TaskOK, OpsOK
<1>2. ~Has("run", t)
  <2>1. Parks(t) => ~Has("run", t)
    BY SMT DEF Parks, Quiet, Control
  <2>2. Has("on_drop", t) \/ Has("poll", t) \/ Has("extract", t) => ~Has("run", t)
    <3>1. {"on_drop", "poll", "extract", "run"} \subseteq Control
      BY SMT DEF Control
    <3> QED
      BY <3>1, OneControl, SMT DEF IInv
  <2> QED
    BY <2>1, <2>2, Zenon DEF Waits
<1>3. WorksOK(t)
  BY DEF IInv, TaskOK
<1>4. Alive(t) /\ fut[t].state \notin {READY, CLEANED} /\ frame[t].k > 0 /\ Awaited(t) \in Nodes
  BY <1>1, <1>2, <1>3, Zenon DEF WorksOK
<1>5. Awaits(t, Awaited(t))
  BY <1>4, Zenon DEF Awaits
<1>6. LinkOK(t)
  BY DEF IInv
<1> QED
  BY <1>1, <1>2, <1>4, <1>5, <1>6, Zenon DEF LinkOK

\* Once the head is neither a drop nor an on_drop, nothing is said of them.
(* DropOK is about running drops only.                                      *)
LEMMA NoDrop ==
  ASSUME ~Running("drop")', ~Running("on_drop")'
  PROVE  \A n \in Nodes : DropOK(n)'
BY Zenon DEF DropOK

(* The kind of the running operation's argument, and what can be below it.  *)
LEMMA HeadArg ==
  ASSUME IInv, NEW name \in {"call", "poll", "extract", "run", "publish", "end", "on_drop", "cleanup", "drop", "release", "reap", "complete", "user"},
         Running(name)
  PROVE  /\ todo # <<>> /\ Typed /\ Ordered /\ Has(name, Arg)
         /\ name \in TaskOps => Arg \in Tasks
         /\ name \in NodeOps => Arg \in Nodes
         /\ name = "complete" => Arg \in Leaves
         /\ \A nm, n : nm \notin Beneath /\ Has(nm, n) => nm = name /\ n = Arg
         /\ \A nm, n : Has(nm, n) <=> (nm = name /\ n = Arg) \/ Below(nm, n)
         /\ \A nm, n : Below(nm, n) => nm \in Beneath /\ <<nm, n>> \in AllOps
         /\ name \in Control => \A nm \in Control : ~Below(nm, Arg)
         /\ name = "release" => \A nm : nm # "user" => ~Below(nm, Arg)
         /\ name \in Control => \A nm \in Control : Has(nm, Arg) => nm = name
<1>1. todo # <<>> /\ Typed /\ Ordered /\ Head(todo)[1] = name
  BY DEF Running, IInv
<1>2. /\ Head(todo) \in AllOps /\ Head(todo) = <<name, Arg>>
      /\ \A nm, n : Has(nm, n) <=> (nm = name /\ n = Arg) \/ Below(nm, n)
      /\ \A nm, n : Below(nm, n) => nm \in Beneath /\ <<nm, n>> \in AllOps
      /\ name \in Control => \A nm \in Control : ~Below(nm, Arg)
      /\ name = "release" => \A nm : nm # "user" => ~Below(nm, Arg)
  <2>1. \A nm : Running(nm) <=> nm = name
    BY <1>1 DEF Running
  <2> QED
    BY <1>1, <2>1, HeadFacts, Zenon
<1>3. /\ name \in TaskOps => Arg \in Tasks
      /\ name \in NodeOps => Arg \in Nodes
      /\ name = "complete" => Arg \in Leaves
  BY <1>2, SMT DEF AllOps, TaskOps, NodeOps
<1> QED
  BY <1>1, <1>2, <1>3, Zenon

(* UserReturn: the end of the program's turn inside a plain cleanup.        *)
LEMMA UserReturnKeeps ==
  ASSUME IInv, UserReturn PROVE IInv'
<1>1. /\ Running("user") /\ Then(<<>>) /\ cleanups' = cleanups /\ fut' = fut /\ frame' = frame /\ live' = live
      /\ reg' = reg /\ fresh' = fresh /\ mine' = mine /\ ran' = ran
  BY DEF UserReturn
<1>2. /\ todo # <<>> /\ Typed /\ Ordered
      /\ \A nm, n : Has(nm, n) <=> (nm = "user" /\ n = Arg) \/ Below(nm, n)
  BY <1>1, HeadArg, Zenon
<1>3. /\ todo' \in Seq(AllOps) /\ Ordered'
      /\ \A name, n : Has(name, n)' <=> Below(name, n)
      /\ \A name : Running(name)' => name \in Beneath
  BY <1>1, <1>2, Popped, Zenon
<1>4. ASSUME NEW x \in Nodes PROVE Still(x)
  BY <1>1, <1>2, <1>3, Zenon DEF Still, Alike, Alive, Drops, Resumes, Reaps, Works
<1>5. Typed'
  BY <1>1, <1>2, <1>3, SMT DEF Typed, Last
<1>6. \A n \in Nodes : DropOK(n)'
  BY <1>3, NoDrop, SMT DEF Beneath
<1>7. /\ \A t \in Tasks : TaskOK(t)' /\ AwaitingOK(t)' /\ LinkOK(t)' /\ SitesOK(t)'
      /\ \A n \in Nodes : NodeOK(n)' /\ OwnerOK(n)'
  <2>1. Untouched({})
    BY <1>1, <1>4, Zenon DEF Untouched
  <2>2. /\ \A t \in Tasks : t \in Tasks \ {} /\ \A n \in Nodes : n \in Nodes \ {}
        /\ \A S : ~\E x : x \in {} \cap S
    BY Zenon
  <2> QED
    BY <2>1, <2>2, Kept, Zenon
<1> QED
  BY <1>3, <1>5, <1>6, <1>7, Zenon DEF IInv

(* End: the detached cleanup of a frame is over.                            *)
LEMMA EndKeeps ==
  ASSUME IInv, End PROVE IInv'
<1> SUFFICES ASSUME NEW t, t = Arg PROVE IInv'
  BY Zenon
<1>1. Running("end") /\ Then(<<>>) /\ cleanups' = cleanups /\ frame' = frame /\ reg' = reg /\ fresh' = fresh
            /\ mine' = mine /\ ran' = ran
  BY DEF End
<1>2. /\ todo # <<>> /\ Typed /\ Ordered /\ Has("end", t) /\ t \in Tasks /\ t \in Nodes
      /\ \A nm, n : Has(nm, n) <=> (nm = "end" /\ n = t) \/ Below(nm, n)
      /\ \A nm, n : Below(nm, n) => nm \in Beneath
      /\ \A nm \in Control : ~Below(nm, t)
  BY <1>1, HeadArg, SMT DEF Control, TaskOps, Nodes
<1>3. /\ todo' \in Seq(AllOps) /\ Ordered'
      /\ \A name, n : Has(name, n)' <=> Below(name, n)
      /\ \A name : Running(name)' => name \in Beneath
  BY <1>1, <1>2, Popped, Zenon
<1>4. TaskOK(t) /\ NodeOK(t) /\ OwnerOK(t) /\ LinkOK(t) /\ SitesOK(t) /\ AwaitingOK(t)
  BY <1>2, Zenon DEF IInv
<1>5. Alive(t) /\ ~Works(t) /\ frame[t].mode = "detached" /\ fut[t].state \in {DETACHED, ORPHANED}
            /\ fut[t].state # CLEANED
  <2>1. fut[t].state \in 0 .. 6
    BY <1>2, Shapes
  <2>2. Alive(t) /\ ~Works(t) /\ frame[t].mode = "detached" /\ fut[t].state # CLEANED /\ fut[t].state >= DETACHED
    BY <1>2, <1>4, Zenon DEF TaskOK, OpsOK, ModeOK
  <2> QED
    BY <2>1, <2>2, SMT DEF DETACHED, ORPHANED, CLEANED
<1> SUFFICES ASSUME NEW s, s = fut[t].state PROVE IInv'
  BY Zenon
<1>6. /\ s = DETACHED => SetState(t, CLEANED) /\ live' = live
      /\ s = ORPHANED => fut' = fut /\ live' = live \ {Fut(t)}
  BY <1>5, SMT DEF End, InsideDrop, DETACHED, ORPHANED
<1>7. /\ fut' \in [Nodes -> Futures] /\ fut'[t].waker = fut[t].waker
      /\ fut'[t].state = IF s = ORPHANED THEN ORPHANED ELSE CLEANED
      /\ \A x \in Nodes : x # t => fut'[x] = fut[x]
  <2>1. CASE s = ORPHANED
    BY <1>2, <1>6, <2>1 DEF Typed
  <2>2. CASE s = DETACHED
    BY <1>2, <1>6, <2>2, StateSet, SMT DEF CLEANED, DETACHED, ORPHANED
  <2> QED
    BY <1>5, <2>1, <2>2
<1>8. /\ \A x : (Drops(x)' <=> Drops(x)) /\ (Resumes(x)' <=> Resumes(x)) /\ (Reaps(x)' <=> Reaps(x))
            /\ (Works(x)' <=> Works(x))
      /\ \A x : Alive(x)' <=> Alive(x) /\ ~(s = ORPHANED /\ x = t)
      /\ live' \subseteq live
  BY <1>5, <1>6, BlockNames, SMT DEF DETACHED, ORPHANED, Drops, Resumes, Reaps, Works, Alive
<1>9. ASSUME NEW x \in Nodes \ {t} PROVE Still(x)
  BY <1>1, <1>2, <1>3, <1>7, <1>8, Zenon DEF Still, Alike
<1>10. Typed'
  BY <1>1, <1>2, <1>3, <1>7, <1>8, SMT DEF Typed, Last
<1>11. \A n \in Nodes : DropOK(n)'
  BY <1>3, NoDrop, SMT DEF Beneath
<1>12. Untouched({t})
  BY <1>1, <1>9, Zenon DEF Untouched
<1>13. /\ \A nm \in Control : ~Has(nm, t)'
       /\ ~Has("reap", t)' /\ ~Has("drop", t)' /\ ~Has("complete", t)' /\ (Has("release", t)' <=> Has("release", t))
  <2>1. \A nm \in Control : ~Has(nm, t)'
    BY <1>2, <1>3, Zenon
  <2>2. "release" # "end" /\ "reap" \notin Beneath /\ "drop" \notin Beneath /\ "complete" \notin Beneath
    BY SMT DEF Beneath
  <2> QED
    BY <1>2, <1>3, <2>1, <2>2, Zenon
<1>14. TaskOK(t)'
  <2>1. NewOK(t)' /\ ModeOK(t)'
    BY <1>1, <1>5, <1>7, SMT DEF NewOK, ModeOK, CLEANED, DETACHED, ORPHANED, CANCELLED
  <2>2. WorksOK(t)'
    BY <1>5, <1>8, Zenon DEF WorksOK
  <2>3. OpsOK(t)'
    BY <1>13, SMT DEF OpsOK, Control
  <2>4. RanOK(t)'
    BY <1>1, <1>4, Zenon DEF TaskOK, RanOK, Last
  <2>5. DoneOK(t)'
    <3>1. s = DETACHED => Has("release", t)'
      BY <1>4, <1>5, <1>13, SMT DEF NodeOK, FutureOK, ORPHANED, DETACHED
    <3>2. Len(ran'[t]) = Last(t)'
      BY <1>1, <1>4, <1>5, SMT DEF TaskOK, DoneOK, Last
    <3> QED
      BY <1>5, <1>7, <1>8, <3>1, <3>2, SMT DEF DoneOK, CLEANED, DETACHED
  <2> QED
    BY <2>1, <2>2, <2>3, <2>4, <2>5, Zenon DEF TaskOK
<1>15. NodeOK(t)'
  <2>1. BlocksOK(t)'
    BY <1>4, <1>5, <1>7, <1>8, SMT DEF NodeOK, BlocksOK, ORPHANED, DETACHED, CLEANED
  <2>2. FutureOK(t)'
    <3>1. Quiet(t)'
      BY <1>13, Zenon DEF Quiet
    <3>2. ~Has("call", t)'
      BY <1>13, SMT DEF Control
    <3> QED
      BY <1>4, <1>5, <1>7, <1>8, <1>13, <3>1, <3>2, SMT DEF NodeOK, FutureOK, ORPHANED, DETACHED, CLEANED, CANCELLED,
         PENDING, WAITING, READY
  <2>3. MineOK(t)'
    BY <1>1, <1>2, <1>4, <1>5, <1>13, SMT DEF NodeOK, MineOK, PENDING, READY, DETACHED, ORPHANED, Beneath, Control
  <2>4. t \notin Leaves
    BY <1>4, <1>5, SMT DEF NodeOK, LeafOK, CANCELLED, DETACHED, ORPHANED
  <2> QED
    BY <2>1, <2>2, <2>3, <2>4, Zenon DEF NodeOK
<1>16. OwnerOK(t)'
  <2>1. ~Has("call", t)' /\ fut'[t].state \notin {PENDING, READY, WAITING}
    BY <1>7, <1>13, SMT DEF Control, PENDING, READY, WAITING, ORPHANED, CLEANED
  <2> QED
    BY <2>1, SMT DEF OwnerOK
<1>17. LinkOK(t)' /\ ~Waits(t)
  <2>1. ~Waits(t)' /\ ~Waits(t)
    BY <1>2, <1>3, <1>5, <1>8, <1>13, SMT DEF Waits, Parks, Control
  <2> QED
    BY <2>1, Zenon DEF LinkOK, Linked, Waits
<1>18. SitesOK(t)' /\ AwaitingOK(t)'
  <2>1. \A j : ~ToCall(t, j)'
    BY <1>1, <1>5, <1>8, SMT DEF ToCall
  <2> QED
    BY <1>1, <1>2, <1>4, <2>1, SameAwaiting, Zenon DEF SitesOK
<1>19. /\ \A u \in Tasks \ {t} : ~(Awaits(u, t) /\ Waits(u))
       /\ ~Idles(t)
  <2>1. \A u \in Tasks : Awaits(u, t) /\ Waits(u) => Linked(u, t)
    BY <1>2, Zenon DEF IInv, LinkOK
  <2>2. ~Has("call", t)
    BY <1>2, SMT DEF Control, Beneath
  <2>3. fut[t].state \notin {PENDING, WAITING, READY}
    BY <1>5, SMT DEF PENDING, READY, WAITING, ORPHANED, DETACHED
  <2> QED
    BY <1>5, <2>1, <2>2, <2>3, SMT DEF Linked, Waits, Idles
<1>20. \A u \in Tasks \ {t} : TaskOK(u)' /\ AwaitingOK(u)' /\ LinkOK(u)' /\ SitesOK(u)'
  BY <1>12, <1>19, Kept, SMT
<1>21. \A n \in Nodes \ {t} : NodeOK(n)' /\ OwnerOK(n)'
  BY <1>12, <1>17, Kept, SMT
<1> QED
  BY <1>3, <1>10, <1>11, <1>14, <1>15, <1>16, <1>17, <1>18, <1>20, <1>21, Zenon DEF IInv

(* An operation fits on a frame when no other has its control.              *)
LEMMA FitsOn ==
  ASSUME NEW a, NEW x, a # "release", \A nm \in Control : ~Below(nm, x)
  PROVE  Fits(a, x)
BY Zenon DEF Fits

(* Finish: the end of the frame, which frees what it owns.                  *)
LEMMA FinishKeeps ==
  ASSUME IInv, Finish PROVE IInv'
<1> SUFFICES ASSUME NEW t, t = Arg, NEW m, m = frame[t].mode PROVE IInv'
  BY Zenon
<1>1. /\ Running("run") /\ frame[t].k = 0 /\ live' = live \ {Closure(t)}
      /\ Then(IF m = "running" THEN <<Op("publish", t)>> ELSE CancelledEnd(t))
      /\ cleanups' = cleanups /\ fut' = fut /\ frame' = frame /\ reg' = reg /\ fresh' = fresh /\ mine' = mine
            /\ ran' = ran
  BY DEF Finish, OwnedBy
<1>2. /\ todo # <<>> /\ Typed /\ Ordered /\ Has("run", t) /\ t \in Tasks /\ t \in Nodes
      /\ \A nm, n : Has(nm, n) <=> (nm = "run" /\ n = t) \/ Below(nm, n)
      /\ \A nm, n : Below(nm, n) => nm \in Beneath
      /\ \A nm \in Control : ~Below(nm, t)
      /\ \A nm \in Control : Has(nm, t) => nm = "run"
  BY <1>1, HeadArg, SMT DEF Control, TaskOps, Nodes
<1>3. TaskOK(t) /\ NodeOK(t) /\ OwnerOK(t) /\ LinkOK(t) /\ SitesOK(t) /\ AwaitingOK(t) /\ fut[t].state \in 0 .. 6
            /\ m \in Modes
  BY <1>2, Shapes, Zenon DEF IInv
<1>4. /\ Works(t) /\ Alive(t) /\ m # "new" /\ fut[t].state \notin {READY, CLEANED}
      /\ m = "running" => fut[t].state <= CANCELLED /\ (fut[t].state # CANCELLED)
      /\ m = "cancelled" => fut[t].state = CANCELLED
      /\ m = "detached" => fut[t].state >= DETACHED
      /\ Len(ran[t]) = Last(t) - 0
  <2>1. ~Has("on_drop", t) /\ ~Has("cleanup", t)
    BY <1>2, SMT DEF Control
  <2>2. Works(t)
    BY <1>2, <1>3, Zenon DEF TaskOK, OpsOK
  <2> QED
    BY <1>1, <1>2, <1>3, <2>1, <2>2, Zenon DEF TaskOK, WorksOK, ModeOK
<1>5. /\ todo' \in Seq(AllOps) /\ Ordered' /\ ~Running("drop")' /\ ~Running("on_drop")'
      /\ \A nm, n : Has(nm, n)' <=> (n = t /\ ((m = "running" /\ nm = "publish") \/ (m = "detached"
            /\ nm = "end"))) \/ Below(nm, n)
  <2>1. Fits("publish", t) /\ Fits("end", t)
    BY <1>2, FitsOn, SMT
  <2>2. Op("publish", t) \in AllOps /\ Op("end", t) \in AllOps
    BY <1>2, SMT DEF Op, AllOps, TaskOps
  <2>3. CASE m = "running"
    <3>1. Then(<<Op("publish", t)>>)
      BY <1>1, <2>3
    <3>2. /\ todo' \in Seq(AllOps) /\ Ordered' /\ \A nm : Running(nm)' <=> nm = "publish"
          /\ \A nm, n : Has(nm, n)' <=> (nm = "publish" /\ n = t) \/ Below(nm, n)
      BY <1>2, <2>1, <2>2, <3>1, Then1, Zenon
    <3> QED
      BY <2>3, <3>2, SMT
  <2>4. CASE m = "detached"
    <3>1. Then(<<Op("end", t)>>)
      BY <1>1, <2>4, SMT DEF CancelledEnd
    <3>2. /\ todo' \in Seq(AllOps) /\ Ordered' /\ \A nm : Running(nm)' <=> nm = "end"
          /\ \A nm, n : Has(nm, n)' <=> (nm = "end" /\ n = t) \/ Below(nm, n)
      BY <1>2, <2>1, <2>2, <3>1, Then1, Zenon
    <3> QED
      BY <2>4, <3>2, SMT
  <2>5. CASE m = "cancelled"
    <3>1. Then(<<>>)
      BY <1>1, <2>5, SMT DEF CancelledEnd
    <3>2. /\ todo' \in Seq(AllOps) /\ Ordered' /\ \A nm : Running(nm)' => nm \in Beneath
          /\ \A nm, n : Has(nm, n)' <=> Below(nm, n)
      BY <1>2, <3>1, Popped, Zenon
    <3> QED
      BY <2>5, <3>2, SMT DEF Beneath
  <2> QED
    BY <1>3, <1>4, <2>3, <2>4, <2>5, SMT DEF Modes
<1>6. /\ \A x : (Drops(x)' <=> Drops(x)) /\ (Resumes(x)' <=> Resumes(x)) /\ (Reaps(x)' <=> Reaps(x))
            /\ (Alive(x)' <=> Alive(x))
      /\ \A x : Works(x)' <=> Works(x) /\ x # t
      /\ live' \subseteq live
  BY <1>1, BlockNames, SMT DEF Drops, Resumes, Reaps, Works, Alive
<1>7. ASSUME NEW x \in Nodes \ {t} PROVE Still(x)
  BY <1>1, <1>2, <1>5, <1>6, Zenon DEF Still, Alike
<1>8. Untouched({t})
  BY <1>1, <1>7, Zenon DEF Untouched
<1>9. Typed'
  BY <1>1, <1>2, <1>5, <1>6, SMT DEF Typed, Last
<1>10. \A n \in Nodes : DropOK(n)'
  BY <1>5, NoDrop
<1>11. /\ \A nm \in Control : Has(nm, t)' => nm \in {"publish", "end"}
       /\ (Has("publish", t)' <=> m = "running") /\ (Has("end", t)' <=> m = "detached")
       /\ ~Has("reap", t)' /\ (Has("release", t)' <=> Has("release", t)) /\ (Has("drop", t)' <=> Has("drop", t))
       /\ (Has("complete", t)' <=> Has("complete", t))
  <2>1. "release" # "run" /\ "drop" # "run" /\ "complete" # "run" /\ "reap" \notin Beneath /\ "publish" \notin Beneath
              /\ "end" \notin Beneath
    BY SMT DEF Beneath
  <2>2. "release" \notin {"publish", "end"} /\ "drop" \notin {"publish", "end"}
              /\ "complete" \notin {"publish", "end"}
        /\ "reap" \notin {"publish", "end"} /\ "publish" # "end"
    OBVIOUS
  <2> QED
    BY <1>2, <1>5, <2>1, <2>2, SMT
<1>12. TaskOK(t)'
  <2>1. NewOK(t)' /\ ModeOK(t)'
    BY <1>1, <1>3, <1>4, SMT DEF TaskOK, NewOK, ModeOK
  <2>2. WorksOK(t)'
    BY <1>6, Zenon DEF WorksOK
  <2>3. OpsOK(t)'
    BY <1>1, <1>3, <1>4, <1>6, <1>11, SMT DEF OpsOK, Control, WAITING, CANCELLED, READY
  <2>4. RanOK(t)'
    BY <1>1, <1>3, Zenon DEF TaskOK, RanOK, Last
  <2>5. DoneOK(t)'
    <3>1. m = "cancelled" => Has("release", t)'
      BY <1>3, <1>4, <1>11, SMT DEF NodeOK, FutureOK
    <3>2. Len(ran'[t]) = Last(t)'
      BY <1>1, <1>2, <1>4, SMT DEF Last, Typed
    <3> QED
      BY <1>1, <1>3, <1>4, <1>11, <3>1, <3>2, SMT DEF DoneOK, Modes, CANCELLED, DETACHED
  <2> QED
    BY <2>1, <2>2, <2>3, <2>4, <2>5, Zenon DEF TaskOK
<1>13. NodeOK(t)'
  <2>1. BlocksOK(t)'
    BY <1>1, <1>3, <1>6, Zenon DEF NodeOK, BlocksOK
  <2>2. FutureOK(t)'
    <3>1. ~Has("call", t)'
      BY <1>11, SMT DEF Control
    <3> QED
      BY <1>1, <1>3, <1>4, <1>6, <1>11, <3>1, Zenon DEF NodeOK, FutureOK
  <2>3. MineOK(t)'
    <3>1. ~Has("call", t)' /\ ~Has("call", t)
      BY <1>2, <1>11, SMT DEF Control
    <3> QED
      BY <1>1, <1>3, <1>6, <3>1, Zenon DEF NodeOK, MineOK
  <2>4. t \in Leaves => LeafOK(t)'
    <3>1. ~Has("on_drop", t)' /\ ~Has("on_drop", t)
      BY <1>2, <1>11, SMT DEF Control
    <3> QED
      BY <1>1, <1>3, <1>6, <1>11, <3>1, Zenon DEF NodeOK, LeafOK
  <2> QED
    BY <2>1, <2>2, <2>3, <2>4, Zenon DEF NodeOK
<1>14. ~Waits(t) /\ ~Waits(t)'
  BY <1>2, <1>6, <1>11, SMT DEF Waits, Parks, Quiet, Control
<1>15. Visible(t)
  <2>1. /\ Has("call", t)' <=> Has("call", t)
        /\ Has("on_drop", t)' <=> Has("on_drop", t)
        /\ Has("reap", t)' <=> Has("reap", t)
    BY <1>2, <1>11, SMT DEF Control, Beneath
  <2> QED
    BY <1>1, <1>4, <1>6, <1>11, <2>1, SMT DEF Visible
<1>16. LinkOK(t)' /\ SitesOK(t)' /\ AwaitingOK(t)'
  <2>1. \A j : ~ToCall(t, j)'
    BY <1>1, <1>4, <1>6, Zenon DEF ToCall
  <2> QED
    BY <1>1, <1>2, <1>3, <1>14, <2>1, NoLink, SameAwaiting, Zenon DEF SitesOK
<1>17. ~Idles(t)
  BY <1>4, Zenon DEF Idles
<1>18. OwnerOK(t)'
  BY <1>2, <1>8, <1>14, <1>15, Kept, SMT
<1>19. \A u \in Tasks \ {t} : TaskOK(u)' /\ AwaitingOK(u)' /\ LinkOK(u)' /\ SitesOK(u)'
  BY <1>8, <1>15, <1>17, Kept, SMT
<1>20. \A n \in Nodes \ {t} : NodeOK(n)' /\ OwnerOK(n)'
  BY <1>8, <1>14, Kept, SMT
<1> QED
  BY <1>5, <1>9, <1>10, <1>12, <1>13, <1>16, <1>18, <1>19, <1>20, Zenon DEF IInv

(* IInv holds after a step that touches the nodes of M only, if it holds of *)
(* them and the others do not see the change.                               *)
LEMMA Concluded ==
  ASSUME IInv, NEW M, Untouched(M), Typed', Ordered', \A n \in Nodes : DropOK(n)',
         \A t \in Tasks : t \in M => TaskOK(t)' /\ LinkOK(t)' /\ SitesOK(t)' /\ AwaitingOK(t)',
         \A n \in Nodes : n \in M => NodeOK(n)' /\ OwnerOK(n)',
         \A u \in Tasks, n \in Nodes : u \notin M /\ n \in M => Visible(n) \/ Linked(u, n)' \/ ~(Awaits(u, n)
               /\ Waits(u)),
         \A u \in Tasks, n \in Nodes : u \in M /\ n \notin M => Steady(u) \/ ~(Awaits(u, n) /\ Waits(u)),
         \A u \in Tasks, n \in Nodes : u \notin M /\ n \in M /\ Idles(n) /\ ~Has("call", n) =>
           \/ Idles(n)' /\ ~Has("call", n)'
           \/ \A j \in 1 .. Last(u) + 1 : ~(At(u, j) = n /\ ToCall(u, j))
  PROVE  IInv'
<1>1. ASSUME NEW u \in Tasks PROVE TaskOK(u)' /\ LinkOK(u)' /\ SitesOK(u)' /\ AwaitingOK(u)'
  <2>1. CASE u \in M
    BY <2>1
  <2>2. CASE u \notin M
    <3>1. TaskOK(u)' /\ Steady(u) /\ AwaitingOK(u)'
      BY <2>2, Kept, Zenon
    <3>2. LinkOK(u)'
      <4> SUFFICES ASSUME NEW n \in Nodes, Awaits(u, n)' PROVE Linked(u, n)'
        BY Zenon DEF LinkOK
      <4>1. Awaits(u, n) /\ Linked(u, n)
        <5>1. Awaits(u, n)
          BY <3>1, SameSites, Zenon DEF Untouched, Steady
        <5> QED
          BY <5>1, Zenon DEF IInv, LinkOK
      <4>2. Visible(n) \/ ~Waits(u) \/ Linked(u, n)'
        BY <2>2, <4>1, Kept, Zenon
      <4> QED
        BY <3>1, <4>1, <4>2, SteadyLinked, Zenon
    <3>3. SitesOK(u)'
      <4>1. \A n \in M \cap Nodes : Idles(n) /\ ~Has("call", n) =>
              \/ Idles(n)' /\ ~Has("call", n)'
              \/ \A j \in 1 .. Last(u) + 1 : ~(At(u, j) = n /\ ToCall(u, j))
        BY <2>2, Zenon
      <4> QED
        BY <3>1, <4>1, Kept, Zenon
    <3> QED
      BY <3>1, <3>2, <3>3
  <2> QED
    BY <2>1, <2>2
<1>2. ASSUME NEW n \in Nodes PROVE NodeOK(n)' /\ OwnerOK(n)'
  <2>1. CASE n \in M
    BY <2>1
  <2>2. CASE n \notin M
    <3>1. NodeOK(n)' /\ Visible(n)
      BY <2>2, Kept, Zenon
    <3>2. \A u \in M \cap Tasks : Steady(u) \/ ~(Awaits(u, n) /\ Waits(u))
      BY <2>2, Zenon
    <3> QED
      BY <3>1, <3>2, Kept, Zenon
  <2> QED
    BY <2>1, <2>2
<1> QED
  BY <1>1, <1>2, Zenon DEF IInv

(* A frame whose work is done awaits nothing and calls nothing.             *)
LEMMA DoneKeeps ==
  ASSUME IInv, NEW t \in Tasks, TaskOK(t), ~Works(t)', ~Waits(t)', frame'[t] = frame[t], frame[t].mode # "new", cleanups' = cleanups
  PROVE  LinkOK(t)' /\ SitesOK(t)' /\ AwaitingOK(t)'
<1>1. \A j : ~ToCall(t, j)'
  BY Zenon DEF ToCall
<1>2. AwaitingOK(t)
  BY DEF IInv
<1> QED
  BY <1>1, <1>2, NoLink, SameAwaiting, Zenon DEF SitesOK

(* RunReap: the waker of a spawned task frees it.                           *)
LEMMA RunReapKeeps ==
  ASSUME IInv, RunReap PROVE IInv'
<1> SUFFICES ASSUME NEW t, t = Arg PROVE IInv'
  BY Zenon
<1>1. /\ Running("reap") /\ Then(<<>>) /\ live' = live \ Uses(Head(todo))
      /\ cleanups' = cleanups /\ fut' = fut /\ frame' = frame /\ reg' = reg /\ fresh' = fresh /\ mine' = mine
            /\ ran' = ran
  BY DEF RunReap
<1>2. /\ todo # <<>> /\ Typed /\ Ordered /\ Has("reap", t) /\ t \in Tasks /\ t \in Nodes
      /\ \A nm, n : Has(nm, n) <=> (nm = "reap" /\ n = t) \/ Below(nm, n)
      /\ \A nm, n : Below(nm, n) => nm \in Beneath
  <2>1. "reap" \in TaskOps
    BY SMT DEF TaskOps
  <2> QED
    BY <1>1, <2>1, HeadArg, Zenon DEF Nodes
<1>3. TaskOK(t) /\ NodeOK(t) /\ OwnerOK(t) /\ LinkOK(t) /\ SitesOK(t) /\ AwaitingOK(t)
  BY <1>2, Zenon DEF IInv
<1>4. /\ Alive(t) /\ fut[t].state = READY /\ fut[t].waker = Reap(t) /\ ~Works(t) /\ Quiet(t) /\ frame[t].mode # "new"
      /\ t \in Roots /\ t \notin mine /\ ~Has("release", t) /\ t \notin Leaves /\ Len(ran[t]) = Last(t)
  <2>1. Alive(t) /\ fut[t].state = READY /\ fut[t].waker = Reap(t)
    BY <1>2, <1>3, Zenon DEF TaskOK, OpsOK
  <2>2. ~Works(t) /\ frame[t].mode # "new"
    BY <1>3, <2>1, SMT DEF TaskOK, WorksOK, NewOK, READY, PENDING
  <2>3. Quiet(t) /\ t \in Roots /\ (~Has("release", t)) /\ (t \in mine => fut[t].waker = None)
    BY <1>3, <2>1, SMT DEF NodeOK, FutureOK, MineOK, READY, CANCELLED, DETACHED, CLEANED
  <2>4. None # Reap(t)
    BY <1>2, NullAssumption, Zenon
  <2> QED
    BY <1>2, <1>3, <2>1, <2>2, <2>3, <2>4, CalleeAssumption, Zenon DEF TaskOK, DoneOK
<1>5. /\ todo' \in Seq(AllOps) /\ Ordered'
      /\ \A name, n : Has(name, n)' <=> Below(name, n)
      /\ \A name : Running(name)' => name \in Beneath
  BY <1>1, <1>2, Popped, Zenon
<1>6. /\ \A x : (Resumes(x)' <=> Resumes(x)) /\ (Works(x)' <=> Works(x))
      /\ \A x : (Alive(x)' <=> Alive(x) /\ x # t) /\ (Drops(x)' <=> Drops(x) /\ x # t) /\ (Reaps(x)' <=> Reaps(x)
            /\ x # t)
      /\ live' \subseteq live
  <2>1. Head(todo) = <<"reap", t>>
    BY <1>1, <1>2, HeadFacts, Zenon DEF Running
  <2>2. live' = live \ {Fut(t), Drp(t), Reap(t)}
    BY <1>1, <2>1, SMT DEF Uses
  <2> QED
    BY <2>2, BlockNames, SMT DEF Drops, Resumes, Reaps, Works, Alive
<1>7. ASSUME NEW x \in Nodes \ {t} PROVE Still(x)
  BY <1>1, <1>2, <1>5, <1>6, Zenon DEF Still, Alike
<1>8. Untouched({t})
  BY <1>1, <1>7, Zenon DEF Untouched
<1>9. Typed'
  BY <1>1, <1>2, <1>5, <1>6, SMT DEF Typed, Last
<1>10. \A n \in Nodes : DropOK(n)'
  BY <1>5, NoDrop, SMT DEF Beneath
<1>11. /\ \A nm \in Control : ~Has(nm, t) /\ ~Has(nm, t)'
       /\ ~Has("reap", t)' /\ ~Has("release", t)'
  <2>1. \A nm \in Control : ~Has(nm, t)
    BY <1>4, Zenon DEF Quiet
  <2>2. "reap" \notin Beneath /\ "reap" # "release"
    BY SMT DEF Beneath
  <2> QED
    BY <1>2, <1>4, <1>5, <2>1, <2>2, Zenon
<1>12. TaskOK(t)'
  <2>1. NewOK(t)' /\ ModeOK(t)'
    BY <1>1, <1>3, <1>4, SMT DEF TaskOK, NewOK, ModeOK
  <2>2. WorksOK(t)' /\ DoneOK(t)'
    BY <1>1, <1>2, <1>4, <1>6, SMT DEF WorksOK, DoneOK, Last
  <2>3. OpsOK(t)'
    BY <1>11, SMT DEF OpsOK, Control
  <2>4. RanOK(t)'
    BY <1>1, <1>3, Zenon DEF TaskOK, RanOK, Last
  <2> QED
    BY <2>1, <2>2, <2>3, <2>4, Zenon DEF TaskOK
<1>13. NodeOK(t)'
  <2>1. BlocksOK(t)'
    <3>1. Resume(t) # Reap(t)
      BY BlockNames
    <3> QED
      BY <1>1, <1>3, <1>4, <1>6, <3>1, Zenon DEF NodeOK, BlocksOK
  <2>2. FutureOK(t)'
    <3>1. ~Has("call", t)' /\ Quiet(t)'
      BY <1>11, SMT DEF Control, Quiet
    <3> QED
      BY <1>1, <1>3, <1>4, <1>6, <1>11, <3>1, Zenon DEF NodeOK, FutureOK
  <2>3. MineOK(t)'
    BY <1>1, <1>3, <1>4, Zenon DEF NodeOK, MineOK
  <2> QED
    BY <1>4, <2>1, <2>2, <2>3, Zenon DEF NodeOK
<1>14. OwnerOK(t)'
  BY <1>6, <1>11, SMT DEF OwnerOK, Control
<1>15. ~Waits(t)' /\ ~Waits(t)
  BY <1>4, <1>6, <1>11, SMT DEF Waits, Parks, Control
<1>16. LinkOK(t)' /\ SitesOK(t)' /\ AwaitingOK(t)'
  BY <1>1, <1>2, <1>3, <1>4, <1>6, <1>15, DoneKeeps, Zenon
<1>17. ~Idles(t) /\ \A u \in Tasks : ~Awaits(u, t)
  BY <1>2, <1>4, OneCaller, Zenon DEF Idles
<1> QED
  BY <1>5, <1>8, <1>9, <1>10, <1>12, <1>13, <1>14, <1>15, <1>16, <1>17, Concluded, SMT

(* Deregister: a leaf's on_drop takes it off the loop.                      *)
LEMMA DeregisterKeeps ==
  ASSUME IInv, Deregister PROVE IInv'
<1> SUFFICES ASSUME NEW l, l = Arg PROVE IInv'
  BY Zenon
<1>1. /\ Running("on_drop") /\ l \in Leaves /\ Then(<<>>) /\ reg' = reg \ {l}
      /\ cleanups' = cleanups /\ fut' = fut /\ frame' = frame /\ live' = live /\ fresh' = fresh /\ mine' = mine
            /\ ran' = ran
  BY DEF Deregister
<1>2. /\ todo # <<>> /\ Typed /\ Ordered /\ Has("on_drop", l) /\ l \in Nodes /\ l \notin Tasks
      /\ \A nm, n : Has(nm, n) <=> (nm = "on_drop" /\ n = l) \/ Below(nm, n)
      /\ \A nm, n : Below(nm, n) => nm \in Beneath
      /\ \A nm \in Control : ~Below(nm, l)
  <2>1. "on_drop" \in Control
    BY SMT DEF Control
  <2>2. l \in Nodes /\ l \notin Tasks
    BY <1>1, CalleeAssumption, SMT DEF Nodes
  <2> QED
    BY <1>1, <2>1, <2>2, HeadArg, Zenon
<1>3. NodeOK(l) /\ OwnerOK(l)
  BY <1>2, Zenon DEF IInv
<1>4. Alive(l) /\ fut[l].state = CANCELLED
  BY <1>1, <1>2, <1>3, Zenon DEF NodeOK, LeafOK
<1>5. /\ todo' \in Seq(AllOps) /\ Ordered'
      /\ \A name, n : Has(name, n)' <=> Below(name, n)
      /\ \A name : Running(name)' => name \in Beneath
  BY <1>1, <1>2, Popped, Zenon
<1>6. \A x : (Alive(x)' <=> Alive(x)) /\ (Drops(x)' <=> Drops(x)) /\ (Resumes(x)' <=> Resumes(x))
            /\ (Reaps(x)' <=> Reaps(x))
             /\ (Works(x)' <=> Works(x)) /\ (x # l => (x \in reg' <=> x \in reg))
  BY <1>1, Zenon DEF Alive, Drops, Resumes, Reaps, Works
<1>7. ASSUME NEW x \in Nodes \ {l} PROVE Still(x)
  BY <1>1, <1>2, <1>5, <1>6, Zenon DEF Still, Alike
<1>8. Untouched({l})
  BY <1>1, <1>7, Zenon DEF Untouched
<1>9. Typed'
  BY <1>1, <1>2, <1>5, SMT DEF Typed, Last
<1>10. \A n \in Nodes : DropOK(n)'
  BY <1>5, NoDrop, SMT DEF Beneath
<1>11. /\ \A nm \in Control : ~Has(nm, l)'
       /\ (Has("release", l)' <=> Has("release", l)) /\ (Has("complete", l)' => Has("complete", l))
  <2>1. "release" # "on_drop" /\ "complete" # "on_drop"
    OBVIOUS
  <2> QED
    BY <1>2, <1>5, <2>1, Zenon
<1>12. Quiet(l)' /\ ~Has("call", l)' /\ ~Has("on_drop", l)'
  BY <1>11, SMT DEF Quiet, Control
<1>13. NodeOK(l)'
  <2>1. BlocksOK(l)'
    BY <1>1, <1>3, <1>6, Zenon DEF NodeOK, BlocksOK
  <2>2. FutureOK(l)'
    BY <1>1, <1>3, <1>6, <1>11, <1>12, Zenon DEF NodeOK, FutureOK
  <2>3. MineOK(l)'
    BY <1>1, <1>2, CalleeAssumption, SMT DEF MineOK, Typed
  <2>4. LeafOK(l)'
    BY <1>1, <1>3, <1>4, <1>6, <1>11, <1>12, SMT DEF NodeOK, LeafOK, CANCELLED, WAITING
  <2> QED
    BY <2>1, <2>2, <2>3, <2>4, Zenon DEF NodeOK
<1>14. OwnerOK(l)'
  BY <1>1, <1>4, <1>12, SMT DEF OwnerOK, CANCELLED, PENDING, READY, WAITING
<1>15. ~Idles(l) /\ \A u \in Tasks : ~(Awaits(u, l) /\ Waits(u))
  <2>1. \A u \in Tasks : Awaits(u, l) /\ Waits(u) => Linked(u, l)
    BY <1>2, Zenon DEF IInv, LinkOK
  <2>2. ~Has("call", l)
    BY <1>2, SMT DEF Control
  <2> QED
    BY <1>4, <2>1, <2>2, SMT DEF Linked, Waits, Idles, CANCELLED, PENDING, READY, WAITING
<1> QED
  BY <1>2, <1>5, <1>8, <1>9, <1>10, <1>13, <1>14, <1>15, Concluded, SMT

(* Release: the rest of Future_drop.                                        *)
LEMMA ReleaseKeeps ==
  ASSUME IInv, Release PROVE IInv'
<1> SUFFICES ASSUME NEW n, n = Arg, NEW s, s = fut[n].state, NEW w, w = fut[n].waker PROVE IInv'
  BY Zenon
<1>1. /\ Running("release") /\ Then(<<>>)
      /\ s = DETACHED => SetState(n, ORPHANED) /\ live' = live \ {Drp(n), w}
      /\ s # DETACHED => fut' = fut /\ live' = live \ {Drp(n), w, Fut(n)}
      /\ cleanups' = cleanups /\ reg' = reg /\ frame' = frame /\ fresh' = fresh /\ mine' = mine /\ ran' = ran
  BY SMT DEF Release, HandsOver
<1>2. /\ todo # <<>> /\ Typed /\ Ordered /\ Has("release", n) /\ n \in Nodes
      /\ \A nm, x : Has(nm, x) <=> (nm = "release" /\ x = n) \/ Below(nm, x)
      /\ \A nm, x : Below(nm, x) => nm \in Beneath
      /\ \A nm : nm # "user" => ~Below(nm, n)
  <2>1. "release" \in NodeOps
    BY SMT DEF NodeOps
  <2> QED
    BY <1>1, <2>1, HeadArg, Zenon
<1>3. NodeOK(n) /\ OwnerOK(n) /\ (n \in Tasks => TaskOK(n))
  BY <1>2, Zenon DEF IInv
<1>4. Alive(n) /\ s \in {CANCELLED, DETACHED, CLEANED} /\ w \in {None, Resume(n), Reap(n)} /\ Drops(n)
  <2>1. Alive(n) /\ s \in {CANCELLED, DETACHED, CLEANED} /\ w \in {None, Resume(n), Reap(n)}
    BY <1>2, <1>3, Zenon DEF NodeOK, FutureOK
  <2> QED
    BY <1>3, <2>1, SMT DEF NodeOK, BlocksOK, CANCELLED, DETACHED, CLEANED, ORPHANED
<1>5. /\ todo' \in Seq(AllOps) /\ Ordered'
      /\ \A name, x : Has(name, x)' <=> Below(name, x)
      /\ \A name : Running(name)' => name \in Beneath
  BY <1>1, <1>2, Popped, Zenon
<1>6. \A nm : nm # "user" => ~Has(nm, n)' /\ (nm # "release" => ~Has(nm, n))
  BY <1>2, <1>5, Zenon
<1>7. ~Has("call", n)' /\ ~Has("call", n) /\ ~Has("release", n)' /\ ~Has("on_drop", n)' /\ ~Has("complete", n)'
            /\ Quiet(n) /\ Quiet(n)'
  BY <1>6, SMT DEF Quiet, Control
<1>8. /\ fut' \in [Nodes -> Futures] /\ fut'[n].waker = w
      /\ fut'[n].state = IF s = DETACHED THEN ORPHANED ELSE s
      /\ \A x \in Nodes : x # n => fut'[x] = fut[x]
  <2>1. CASE s = DETACHED
    BY <1>1, <1>2, <2>1, StateSet, SMT DEF ORPHANED
  <2>2. CASE s # DETACHED
    BY <1>1, <1>2, <2>2 DEF Typed
  <2> QED
    BY <2>1, <2>2
<1>9. /\ \A x \in Nodes : (Works(x)' <=> Works(x))
      /\ \A x \in Nodes : x # n => (Alive(x)' <=> Alive(x)) /\ (Drops(x)' <=> Drops(x))
                                   /\ (Resumes(x)' <=> Resumes(x)) /\ (Reaps(x)' <=> Reaps(x))
      /\ Alive(n)' <=> s = DETACHED
      /\ ~Drops(n)' /\ (Resumes(n)' <=> Resumes(n) /\ w # Resume(n)) /\ (Reaps(n)' <=> Reaps(n) /\ w # Reap(n))
      /\ live' \subseteq live
  <2>1. w # Drp(n) /\ w # Fut(n)
    BY <1>2, <1>4, BlockNames, NullAssumption, SMT
  <2>2. \A x \in Nodes : x # n => w \notin {Fut(x), Drp(x), Resume(x), Reap(x)}
    BY <1>4, BlockNames, NullAssumption, SMT
  <2>3. \A x \in Nodes : w # Closure(x)
    BY <1>4, BlockNames, NullAssumption, SMT
  <2>4. \A x \in Nodes : Works(x)' <=> Works(x)
    <3>1. \A x \in Nodes : Closure(x) # Drp(n) /\ Closure(x) # w /\ Closure(x) # Fut(n)
      BY <2>3, BlockNames, SMT
    <3> QED
      BY <1>1, <3>1, SMT DEF Works
  <2>5. \A x \in Nodes : x # n => (Alive(x)' <=> Alive(x)) /\ (Drops(x)' <=> Drops(x))
                                   /\ (Resumes(x)' <=> Resumes(x)) /\ (Reaps(x)' <=> Reaps(x))
    BY <1>1, <2>2, BlockNames, SMT DEF Alive, Drops, Resumes, Reaps
  <2>6. /\ Alive(n)' <=> s = DETACHED
        /\ ~Drops(n)' /\ (Resumes(n)' <=> Resumes(n) /\ w # Resume(n)) /\ (Reaps(n)' <=> Reaps(n) /\ w # Reap(n))
    BY <1>1, <1>4, <2>1, BlockNames, SMT DEF Alive, Drops, Resumes, Reaps
  <2>7. live' \subseteq live
    BY <1>1, SMT
  <2> QED
    BY <2>4, <2>5, <2>6, <2>7
<1>10. ASSUME NEW x \in Nodes \ {n} PROVE Still(x)
  BY <1>1, <1>2, <1>5, <1>8, <1>9, Zenon DEF Still, Alike
<1>11. Untouched({n})
  BY <1>1, <1>10, Zenon DEF Untouched
<1>12. Typed'
  BY <1>1, <1>2, <1>5, <1>8, <1>9, SMT DEF Typed, Last
<1>13. \A x \in Nodes : DropOK(x)'
  BY <1>5, NoDrop, SMT DEF Beneath
<1>14. NodeOK(n)'
  <2>1. BlocksOK(n)'
    BY <1>3, <1>4, <1>8, <1>9, SMT DEF NodeOK, BlocksOK
  <2>2. FutureOK(n)'
    BY <1>3, <1>4, <1>7, <1>8, <1>9, SMT DEF NodeOK, FutureOK, CANCELLED, DETACHED, CLEANED, ORPHANED, PENDING,
       WAITING, READY
  <2>3. MineOK(n)'
    <3>1. n \notin mine
      BY <1>3, <1>4, <1>7, SMT DEF NodeOK, MineOK, CANCELLED, DETACHED, CLEANED, PENDING, READY
    <3> QED
      BY <1>1, <1>3, <1>7, <3>1, Zenon DEF NodeOK, MineOK
  <2>4. n \in Leaves => LeafOK(n)'
    <3>1. n \in Leaves => s = CANCELLED /\ n \notin reg
      BY <1>3, <1>4, <1>6, SMT DEF NodeOK, LeafOK, CANCELLED, DETACHED, CLEANED, WAITING
    <3> QED
      BY <1>1, <1>7, <1>8, <1>9, <3>1, SMT DEF LeafOK, CANCELLED, DETACHED
  <2> QED
    BY <2>1, <2>2, <2>3, <2>4, Zenon DEF NodeOK
<1>15. OwnerOK(n)'
  BY <1>4, <1>7, <1>8, SMT DEF OwnerOK, CANCELLED, DETACHED, CLEANED, ORPHANED, PENDING, WAITING, READY
<1>16. ~Idles(n) /\ \A u \in Tasks : ~(Awaits(u, n) /\ Waits(u))
  <2>1. \A u \in Tasks : Awaits(u, n) /\ Waits(u) => Linked(u, n)
    BY <1>2, Zenon DEF IInv, LinkOK
  <2> QED
    BY <1>4, <1>7, <2>1, SMT DEF Linked, Waits, Idles, CANCELLED, DETACHED, CLEANED, PENDING, READY, WAITING
<1>17. n \in Tasks => TaskOK(n)' /\ Steady(n) /\ LinkOK(n)' /\ SitesOK(n)' /\ AwaitingOK(n)'
  <2> SUFFICES ASSUME n \in Tasks PROVE TaskOK(n)' /\ Steady(n) /\ LinkOK(n)' /\ SitesOK(n)' /\ AwaitingOK(n)'
    OBVIOUS
  <2>1. Steady(n)
    <3>1. \A nm \in Control : ~Has(nm, n) /\ ~Has(nm, n)'
      BY <1>7, Zenon DEF Quiet
    <3> QED
      BY <1>2, <1>1, <1>7, <1>9, <3>1, Zenon DEF Steady, Parks
  <2>2. \A nm \in Control \cup {"reap"} : ~Has(nm, n)'
    BY <1>6, SMT DEF Control
  <2>3. NewOK(n)' /\ ModeOK(n)'
    <3>1. frame[n].mode # "new"
      BY <1>3, <1>4, Zenon DEF TaskOK, NewOK
    <3> QED
      BY <1>1, <1>3, <1>4, <1>8, <3>1, SMT DEF TaskOK, NewOK, ModeOK, CANCELLED, DETACHED, CLEANED, ORPHANED
  <2>4. WorksOK(n)'
    <3>1. s = DETACHED \/ ~Works(n)
      <4>1. ASSUME Works(n), s = CANCELLED PROVE FALSE
        <5>1. frame[n].mode = "running" => Has("on_drop", n) \/ Has("cleanup", n)
          BY <1>3, <4>1, Zenon DEF TaskOK, WorksOK
        <5>2. frame[n].mode = "cancelled" => Has("run", n)
          BY <1>3, <4>1, Zenon DEF TaskOK, WorksOK
        <5>3. frame[n].mode \notin {"new", "detached"} /\ frame[n].mode \in Modes
          BY <1>2, <1>3, <4>1, Shapes, SMT DEF TaskOK, WorksOK, ModeOK, CANCELLED, DETACHED
        <5>4. ~Has("on_drop", n) /\ ~Has("cleanup", n) /\ ~Has("run", n)
          BY <1>7, SMT DEF Quiet, Control
        <5> QED
          BY <5>1, <5>2, <5>3, <5>4, SMT DEF Modes
      <4>2. ~(Works(n) /\ s = CLEANED)
        BY <1>3, Zenon DEF TaskOK, WorksOK
      <4> QED
        BY <1>4, <4>1, <4>2
    <3>2. CASE s = DETACHED
      <4>1. Last(n)' = Last(n) /\ Awaited(n)' = Awaited(n) /\ Awaited(n) = Awaited(n)
        BY <1>1, SMT DEF Last, Awaited
      <4>2. ~Has("run", n) /\ ~Has("run", n)' /\ ~Has("on_drop", n)' /\ ~Has("cleanup", n)'
        BY <1>6, <1>7, SMT DEF Quiet, Control
      <4>3. Works(n) => frame[n].mode \notin {"running", "cancelled"}
        BY <1>3, <3>2, SMT DEF TaskOK, ModeOK, CANCELLED, DETACHED
      <4> QED
        BY <1>2, <1>1, <1>3, <1>8, <1>9, <3>2, <4>1, <4>2, <4>3, SMT DEF TaskOK, WorksOK, ORPHANED, READY, CLEANED,
           DETACHED
    <3>3. CASE ~Works(n)
      BY <1>2, <1>9, <3>3, Zenon DEF WorksOK
    <3> QED
      BY <3>1, <3>2, <3>3
  <2>5. DoneOK(n)'
    <3>1. ~Works(n) => s # DETACHED
      <4>1. ~Has("publish", n) /\ ~Has("end", n)
        BY <1>7, SMT DEF Quiet, Control
      <4>2. s # READY /\ frame[n].mode # "new"
        BY <1>3, <1>4, SMT DEF TaskOK, NewOK, CANCELLED, DETACHED, CLEANED, READY
      <4> QED
        BY <1>3, <1>4, <4>1, <4>2, Zenon DEF TaskOK, DoneOK
    <3> QED
      BY <1>2, <1>1, <1>3, <1>9, <3>1, SMT DEF TaskOK, DoneOK, Last
  <2>6. OpsOK(n)'
    BY <2>2, SMT DEF OpsOK, Control
  <2>7. RanOK(n)'
    BY <1>1, <1>3, Zenon DEF TaskOK, RanOK, Last
  <2>8. TaskOK(n)'
    BY <2>3, <2>4, <2>5, <2>6, <2>7, Zenon DEF TaskOK
  <2>9. LinkOK(n)' /\ AwaitingOK(n)'
    <3>1. LinkOK(n) /\ AwaitingOK(n)
      BY DEF IInv
    <3>2. \A x \in Nodes : Awaits(n, x) /\ Waits(n) => Visible(x)
      <4>1. \A x \in Nodes \ {n} : Visible(x)
        BY <1>11, Kept, Zenon
      <4> QED
        BY <1>16, <4>1, SMT
    <3> QED
      BY <1>1, <2>1, <3>1, <3>2, SteadyLink, SameAwaiting, Zenon
  <2>10. SitesOK(n)'
    BY <1>2, <1>11, <1>16, <2>1, Kept, SMT
  <2> QED
    BY <2>1, <2>8, <2>9, <2>10
<1> QED
  BY <1>2, <1>5, <1>11, <1>12, <1>13, <1>14, <1>15, <1>16, <1>17, Concluded, SMT

(* Cleanup: a dropped frame begins its pending cleanups.                    *)
LEMMA CleanupKeeps ==
  ASSUME IInv, Cleanup PROVE IInv'
<1> SUFFICES ASSUME NEW t, t = Arg, NEW k, k = frame[t].k, NEW m, m = CleanupMode(t) PROVE IInv'
  BY Zenon
<1>1. /\ Running("cleanup")
      /\ k - 1 = 0 => live' = live \ {Closure(t)} /\ Then(<<>>) /\ fut' = fut /\ frame' = frame
      /\ k - 1 # 0 => /\ frame' = [frame EXCEPT ![t].k = k - 1, ![t].mode = m] /\ Then(<<Op("run", t)>>)
            /\ live' = live
                      /\ IF m = "detached" THEN SetState(t, DETACHED) ELSE fut' = fut
      /\ cleanups' = cleanups /\ reg' = reg /\ fresh' = fresh /\ mine' = mine /\ ran' = ran
  BY Zenon DEF Cleanup, Pending, OwnedBy
<1>2. /\ todo # <<>> /\ Typed /\ Ordered /\ Has("cleanup", t) /\ t \in Tasks /\ t \in Nodes
      /\ \A nm, x : Has(nm, x) <=> (nm = "cleanup" /\ x = t) \/ Below(nm, x)
      /\ \A nm, x : Below(nm, x) => nm \in Beneath
      /\ \A nm \in Control : ~Below(nm, t)
      /\ \A nm \in Control : Has(nm, t) => nm = "cleanup"
  <2>1. "cleanup" \in TaskOps /\ "cleanup" \in Control
    BY SMT DEF TaskOps, Control
  <2> QED
    BY <1>1, <2>1, HeadArg, Zenon DEF Nodes
<1>3. TaskOK(t) /\ NodeOK(t) /\ OwnerOK(t) /\ LinkOK(t) /\ SitesOK(t) /\ AwaitingOK(t) /\ fut[t].state \in 0 .. 6
  BY <1>2, Shapes, Zenon DEF IInv
<1>4. /\ Works(t) /\ Alive(t) /\ fut[t].state = CANCELLED /\ frame[t].mode = "running" /\ ~Has("run", t)
      /\ k > 0 /\ k \in Nat /\ k <= Last(t) + 1 /\ Last(t) \in Nat
      /\ Len(ran[t]) = Last(t) - k + 1 /\ Awaited(t) \in Nodes /\ Has("release", t) /\ ~Has("call", t)
  <2>1. Works(t) /\ fut[t].state = CANCELLED /\ frame[t].mode = "running"
    BY <1>2, <1>3, Zenon DEF TaskOK, OpsOK
  <2>2. ~Has("run", t) /\ ~Has("call", t)
    BY <1>2, SMT DEF Control
  <2>3. k \in Nat /\ k <= Last(t) + 1 /\ Last(t) \in Nat
    BY <1>2, Shapes, Sites, Zenon
  <2>4. k > 0 /\ Len(ran[t]) = Last(t) - k + 1 /\ Awaited(t) \in Nodes /\ Alive(t)
    BY <1>3, <2>1, <2>2, Zenon DEF TaskOK, WorksOK
  <2>5. Has("release", t)
    BY <1>3, <2>1, <2>4, SMT DEF NodeOK, FutureOK
  <2> QED
    BY <2>1, <2>2, <2>3, <2>4, <2>5
<1>5. CASE k = 1
  <2>1. live' = live \ {Closure(t)} /\ Then(<<>>) /\ fut' = fut /\ frame' = frame
    BY <1>1, <1>5, SMT
  <2>2. /\ todo' \in Seq(AllOps) /\ Ordered'
        /\ \A name, x : Has(name, x)' <=> Below(name, x)
        /\ \A name : Running(name)' => name \in Beneath
    BY <1>2, <2>1, Popped, Zenon
  <2>3. /\ \A x : (Drops(x)' <=> Drops(x)) /\ (Resumes(x)' <=> Resumes(x)) /\ (Reaps(x)' <=> Reaps(x))
              /\ (Alive(x)' <=> Alive(x))
        /\ \A x : Works(x)' <=> Works(x) /\ x # t
        /\ live' \subseteq live
    BY <2>1, BlockNames, SMT DEF Drops, Resumes, Reaps, Works, Alive
  <2>4. ASSUME NEW x \in Nodes \ {t} PROVE Still(x)
    BY <1>1, <1>2, <2>1, <2>2, <2>3, Zenon DEF Still, Alike
  <2>5. Untouched({t})
    BY <1>1, <2>4, Zenon DEF Untouched
  <2>6. Typed'
    BY <1>1, <1>2, <2>1, <2>2, <2>3, SMT DEF Typed, Last
  <2>7. \A x \in Nodes : DropOK(x)'
    BY <2>2, NoDrop, SMT DEF Beneath
  <2>8. /\ \A nm \in Control : ~Has(nm, t)'
        /\ ~Has("reap", t)' /\ (Has("release", t)' <=> Has("release", t)) /\ (Has("drop", t)' <=> Has("drop", t))
        /\ (Has("complete", t)' <=> Has("complete", t)) /\ (Has("reap", t)' <=> Has("reap", t))
    <3>1. "release" # "cleanup" /\ "drop" # "cleanup" /\ "complete" # "cleanup" /\ "reap" # "cleanup"
                /\ "reap" \notin Beneath
      BY SMT DEF Beneath
    <3> QED
      BY <1>2, <2>2, <3>1, Zenon
  <2>9. TaskOK(t)'
    <3>1. NewOK(t)' /\ ModeOK(t)'
      BY <1>1, <1>3, <1>4, <2>1, SMT DEF TaskOK, NewOK, ModeOK
    <3>2. WorksOK(t)'
      BY <2>3, Zenon DEF WorksOK
    <3>3. OpsOK(t)'
      BY <2>8, SMT DEF OpsOK, Control
    <3>4. RanOK(t)'
      BY <1>1, <1>3, Zenon DEF TaskOK, RanOK, Last
    <3>5. DoneOK(t)'
      <4>1. Len(ran'[t]) = Last(t)'
        BY <1>1, <1>4, <1>5, SMT DEF Last
      <4>2. Has("release", t)' /\ fut'[t].state # DETACHED
        BY <1>4, <2>1, <2>8, SMT DEF CANCELLED, DETACHED
      <4> QED
        BY <4>1, <4>2, Zenon DEF DoneOK
    <3> QED
      BY <3>1, <3>2, <3>3, <3>4, <3>5, Zenon DEF TaskOK
  <2>10. ~Waits(t) /\ ~Waits(t)'
    BY <1>2, <2>3, <2>8, SMT DEF Waits, Parks, Quiet, Control
  <2>11. Visible(t) /\ NodeOK(t)'
    <3>1. (Has("call", t)' <=> Has("call", t)) /\ (Has("on_drop", t)' <=> Has("on_drop", t))
      BY <1>2, <2>8, SMT DEF Control
    <3>2. Visible(t)
      BY <1>1, <2>1, <2>3, <2>8, <3>1, Zenon DEF Visible
    <3>3. Placid(t)
      BY <1>1, <2>1, <2>3, <2>8, <3>1, <3>2, SMT DEF Placid
    <3> QED
      BY <1>2, <1>3, <1>4, <3>2, <3>3, PlacidNode, SMT DEF CANCELLED, READY
  <2>12. OwnerOK(t)'
    BY <1>4, <2>1, <2>8, SMT DEF OwnerOK, CANCELLED, PENDING, READY, WAITING, Control
  <2>13. LinkOK(t)' /\ SitesOK(t)' /\ AwaitingOK(t)'
    BY <1>1, <1>2, <1>3, <1>4, <2>1, <2>3, <2>10, DoneKeeps, SMT
  <2>14. ~Idles(t)
    BY <1>4, Zenon DEF Idles
  <2> QED
    BY <1>2, <2>2, <2>5, <2>6, <2>7, <2>9, <2>10, <2>11, <2>12, <2>13, <2>14, Concluded, SMT
<1>6. CASE k # 1
  <2>1. /\ frame' = [frame EXCEPT ![t].k = k - 1, ![t].mode = m] /\ Then(<<Op("run", t)>>) /\ live' = live
        /\ IF m = "detached" THEN SetState(t, DETACHED) ELSE fut' = fut
    BY <1>1, <1>4, <1>6, SMT
  <2>2. /\ m \in {"detached", "cancelled"}
        /\ m = "cancelled" => \A j \in 1 .. k - 1 : cleanups[t][j] = Plain
    BY SMT DEF CleanupMode, Pending
  <2>3. /\ todo' \in Seq(AllOps) /\ Ordered' /\ ~Running("drop")' /\ ~Running("on_drop")'
        /\ \A nm, x : Has(nm, x)' <=> (nm = "run" /\ x = t) \/ Below(nm, x)
    <3>1. Fits("run", t)
      BY <1>2, FitsOn, SMT
    <3>2. Op("run", t) \in AllOps
      BY <1>2, SMT DEF Op, AllOps, TaskOps
    <3>3. /\ todo' \in Seq(AllOps) /\ Ordered' /\ \A nm : Running(nm)' <=> nm = "run"
          /\ \A nm, x : Has(nm, x)' <=> (nm = "run" /\ x = t) \/ Below(nm, x)
      BY <1>2, <2>1, <3>1, <3>2, Then1, Zenon
    <3> QED
      BY <3>3, SMT
  <2>4. /\ frame' \in [Tasks -> Frames] /\ frame'[t].k = k - 1 /\ frame'[t].mode = m
              /\ frame'[t].awaiting = frame[t].awaiting
        /\ \A u \in Tasks : u # t => frame'[u] = frame[u]
    <3>1. frame \in [Tasks -> Frames] /\ frame[t] \in Frames
      BY <1>2 DEF Typed
    <3>2. /\ [frame[t] EXCEPT !.k = k - 1, !.mode = m] \in Frames
                /\ [frame[t] EXCEPT !.k = k - 1, !.mode = m].k = k - 1
          /\ [frame[t] EXCEPT !.k = k - 1, !.mode = m].mode = m
          /\ [frame[t] EXCEPT !.k = k - 1, !.mode = m].awaiting = frame[t].awaiting
      <4>1. k - 1 \in Nat /\ m \in Modes
        BY <1>4, <2>2, SMT DEF Modes
      <4> SUFFICES ASSUME NEW f \in Frames, NEW h \in Nat
                   PROVE  /\ [f EXCEPT !.k = h, !.mode = m] \in Frames /\ [f EXCEPT !.k = h, !.mode = m].k = h
                          /\ [f EXCEPT !.k = h, !.mode = m].mode = m
                          /\ [f EXCEPT !.k = h, !.mode = m].awaiting = f.awaiting
        BY <3>1, <4>1, Zenon
      <4>2. [f EXCEPT !.k = h, !.mode = m] \in Frames
        BY <4>1, Zenon DEF Frames
      <4> QED
        BY <4>1, <4>2, SMT DEF Frames
    <3>3. frame' = [frame EXCEPT ![t] = [frame[t] EXCEPT !.k = k - 1, !.mode = m]]
      BY <2>1
    <3> QED
      BY <1>2, <3>1, <3>2, <3>3, SMT
  <2>5. /\ fut' \in [Nodes -> Futures] /\ fut'[t].waker = fut[t].waker
        /\ fut'[t].state = IF m = "detached" THEN DETACHED ELSE CANCELLED
        /\ \A x \in Nodes : x # t => fut'[x] = fut[x]
    <3>1. CASE m = "detached"
      BY <1>2, <2>1, <3>1, StateSet, SMT DEF DETACHED
    <3>2. CASE m # "detached"
      BY <1>2, <1>4, <2>1, <3>2 DEF Typed
    <3> QED
      BY <3>1, <3>2
  <2>6. \A x : /\ (Drops(x)' <=> Drops(x)) /\ (Resumes(x)' <=> Resumes(x)) /\ (Reaps(x)' <=> Reaps(x))
              /\ (Alive(x)' <=> Alive(x))
               /\ (Works(x)' <=> Works(x))
    BY <2>1, Zenon DEF Drops, Resumes, Reaps, Works, Alive
  <2>7. ASSUME NEW x \in Nodes \ {t} PROVE Still(x)
    BY <1>1, <1>2, <2>3, <2>4, <2>5, <2>6, Zenon DEF Still, Alike
  <2>8. Untouched({t})
    BY <1>1, <2>7, Zenon DEF Untouched
  <2>9. Typed'
    <3>1. ASSUME NEW u \in Tasks PROVE frame'[u].k <= Last(u)' + 1
      <4>1. Last(u)' = Last(u) /\ frame[u].k <= Last(u) + 1
        BY <1>1, <1>2, SameSites, Shapes, Zenon
      <4> QED
        BY <1>4, <2>4, <4>1, SMT
    <3> QED
      BY <1>1, <1>2, <2>1, <2>3, <2>4, <2>5, <3>1, SMT DEF Typed
  <2>10. \A x \in Nodes : DropOK(x)'
    BY <2>3, NoDrop
  <2>11. /\ \A nm \in Control : Has(nm, t)' => nm = "run"
         /\ Has("run", t)' /\ ~Has("reap", t)' /\ (Has("release", t)' <=> Has("release", t))
               /\ (Has("drop", t)' <=> Has("drop", t))
         /\ (Has("complete", t)' => Has("complete", t))
    <3>1. "release" # "cleanup" /\ "drop" # "cleanup" /\ "complete" # "cleanup" /\ "reap" \notin Beneath
          /\ "release" # "run" /\ "drop" # "run" /\ "complete" # "run" /\ "reap" # "run"
      BY SMT DEF Beneath
    <3> QED
      BY <1>2, <2>3, <3>1, Zenon
  <2>12. ~Has("call", t)' /\ ~Has("poll", t)' /\ ~Has("extract", t)' /\ ~Has("publish", t)' /\ ~Has("end", t)'
         /\ ~Has("on_drop", t)' /\ ~Has("cleanup", t)' /\ ~Quiet(t)'
    BY <2>11, SMT DEF Control, Quiet
  <2>13. TaskOK(t)'
    <3>1. NewOK(t)' /\ ModeOK(t)'
      BY <2>2, <2>4, <2>5, SMT DEF NewOK, ModeOK, CANCELLED, DETACHED
    <3>2. WorksOK(t)'
      BY <1>1, <1>4, <2>2, <2>4, <2>5, <2>6, <2>11, SMT DEF WorksOK, Last, CANCELLED, DETACHED, READY, CLEANED
    <3>3. OpsOK(t)'
      BY <1>4, <2>6, <2>11, <2>12, Zenon DEF OpsOK
    <3>4. RanOK(t)'
      BY <1>1, <1>3, Zenon DEF TaskOK, RanOK, Last
    <3>5. DoneOK(t)'
      BY <1>4, <2>6, Zenon DEF DoneOK
    <3> QED
      BY <3>1, <3>2, <3>3, <3>4, <3>5, Zenon DEF TaskOK
  <2>14. ~Waits(t) /\ ~Waits(t)'
    <3>1. ~Has("poll", t) /\ ~Has("extract", t) /\ ~Has("on_drop", t) /\ ~Quiet(t)
      BY <1>2, SMT DEF Control, Quiet
    <3> QED
      BY <2>12, <3>1, Zenon DEF Waits, Parks
  <2>15. NodeOK(t)'
    <3>1. BlocksOK(t)'
      BY <1>3, <1>4, <2>5, <2>6, SMT DEF NodeOK, BlocksOK, CANCELLED, DETACHED, ORPHANED
    <3>2. FutureOK(t)'
      BY <1>3, <1>4, <2>5, <2>6, <2>11, <2>12, SMT DEF NodeOK, FutureOK, CANCELLED, DETACHED, CLEANED, PENDING,
         WAITING, READY
    <3>3. MineOK(t)'
      <4>1. t \notin mine /\ t \notin fresh
        BY <1>3, <1>4, SMT DEF NodeOK, MineOK, CANCELLED, PENDING, READY
      <4> QED
        BY <1>1, <4>1, Zenon DEF MineOK
    <3>4. t \notin Leaves
      BY <1>2, CalleeAssumption, SMT
    <3> QED
      BY <3>1, <3>2, <3>3, <3>4, Zenon DEF NodeOK
  <2>16. OwnerOK(t)'
    BY <2>5, <2>12, SMT DEF OwnerOK, CANCELLED, DETACHED, PENDING, WAITING, READY
  <2>17. ~Idles(t) /\ \A u \in Tasks : ~(Awaits(u, t) /\ Waits(u))
    <3>1. \A u \in Tasks : Awaits(u, t) /\ Waits(u) => Linked(u, t)
      BY <1>2, Zenon DEF IInv, LinkOK
    <3> QED
      BY <1>4, <3>1, SMT DEF Linked, Waits, Idles, CANCELLED, PENDING, READY, WAITING
  <2>18. LinkOK(t)'
    BY <2>14, NoLink
  <2>19. SitesOK(t)'
    <3> SUFFICES ASSUME NEW j \in 1 .. Last(t) + 1, NEW x \in Nodes, At(t, j) = x, ToCall(t, j)'
                 PROVE  Idles(x)' /\ ~Has("call", x)'
      BY <1>1, <1>2, SameSites, Zenon DEF SitesOK
    <3>1. ToCall(t, j)
      BY <1>4, <2>2, <2>4, <2>11, SMT DEF ToCall
    <3>2. Idles(x) /\ ~Has("call", x)
      BY <1>3, <3>1, Zenon DEF SitesOK
    <3>3. x # t
      BY <2>17, <3>2
    <3>4. Placid(x)
      BY <2>7, <3>3, StillPlacid
    <3> QED
      BY <3>2, <3>4, Zenon DEF Placid, Visible, Idles
  <2>20. AwaitingOK(t)'
    <3>1. CASE frame[t].awaiting = None
      BY <2>4, <3>1 DEF AwaitingOK
    <3>2. CASE frame[t].awaiting # None
      <4>1. PICK j \in 1 .. Last(t) + 1 : j >= k /\ frame[t].awaiting = At(t, j)
        BY <1>3, <3>2, Zenon DEF AwaitingOK
      <4>2. j >= k - 1
        BY <1>4, <4>1, SMT
      <4> QED
        <5>1. Last(t)' = Last(t) /\ At(t, j)' = At(t, j)
          BY <1>1, <1>2, SameSites, Zenon
        <5> QED
          BY <2>4, <4>1, <4>2, <5>1, SMT DEF AwaitingOK
    <3> QED
      BY <3>1, <3>2
  <2> QED
    BY <1>2, <2>3, <2>8, <2>9, <2>10, <2>13, <2>14, <2>15, <2>16, <2>17, <2>18, <2>19, <2>20, Concluded, SMT
<1> QED
  BY <1>5, <1>6

-----------------------------------------------------------------------------
(* Drops.                                                                   *)
\* Only a drop to come distinguishes n from before.
(* A step that changes nothing but whether n is to be dropped.              *)
LEMMA OnlyDrop ==
  ASSUME IInv, NEW n \in Nodes, cleanups' = cleanups, \A x \in Nodes : Alike(x), \A x \in Nodes : x # n => Still(x),
         frame' = frame, Typed', Ordered', \A x \in Nodes : DropOK(x)', OwnerOK(n)'
  PROVE  IInv'
<1>1. Untouched({n})
  BY Zenon DEF Untouched
<1>2. \A u \in Tasks : Steady(u) /\ u \in Nodes
  BY AlikeSteady, SMT DEF Nodes
<1>3. NodeOK(n)'
  BY AlikeNode, Zenon DEF IInv
<1>4. n \in Tasks => TaskOK(n)'
  BY AlikeTask, Zenon DEF IInv
<1>5. (Has("call", n)' <=> Has("call", n)) /\ fut'[n] = fut[n] /\ (Alive(n)' <=> Alive(n)) /\ (Idles(n)' <=> Idles(n))
  <2>1. Alike(n)
    OBVIOUS
  <2>2. Has("call", n)' <=> Has("call", n)
    BY <2>1, SMT DEF Alike
  <2> QED
    BY <2>1, <2>2, Zenon DEF Alike, Idles
<1>6. ASSUME NEW u \in Tasks PROVE LinkOK(u)' /\ SitesOK(u)' /\ AwaitingOK(u)'
  <2>1. ASSUME NEW x \in Nodes, Awaits(u, x)' PROVE Linked(u, x)'
    <3>1. Awaits(u, x) /\ Linked(u, x)
      BY <2>1, SameSites, Zenon DEF IInv, LinkOK
    <3>2. CASE x # n
      <4>1. Visible(x)
        BY <1>1, <3>2, Kept, SMT
      <4> QED
        BY <1>2, <3>1, <4>1, SteadyLinked, Zenon
    <3>3. CASE x = n
      <4>1. /\ (Has("poll", u)' <=> Has("poll", u)) /\ (Has("extract", u)' <=> Has("extract", u))
            /\ (Has("on_drop", u)' <=> Has("on_drop", u)) /\ (Parks(u)' <=> Parks(u))
        BY <1>2, SMT DEF Steady, Control
      <4> QED
        BY <1>5, <3>1, <3>3, <4>1, Zenon DEF Linked
    <3> QED
      BY <3>2, <3>3
  <2>2. SitesOK(u)'
    BY <1>1, <1>2, <1>5, Kept, SMT
  <2>3. AwaitingOK(u)'
    BY <1>1, <1>2, Kept, Zenon
  <2> QED
    BY <2>1, <2>2, <2>3, Zenon DEF LinkOK
<1>7. ASSUME NEW x \in Nodes, x # n PROVE NodeOK(x)' /\ OwnerOK(x)'
  BY <1>1, <1>2, <1>7, Kept, SMT
<1>8. ASSUME NEW u \in Tasks, u # n PROVE TaskOK(u)'
  BY <1>1, <1>8, Kept, SMT
<1> QED
  BY <1>3, <1>4, <1>6, <1>7, <1>8, Zenon DEF IInv

(* Two calls, written as a concatenation.                                   *)
LEMMA Joined ==
  ASSUME NEW o \in AllOps, NEW p \in AllOps PROVE <<o>> \o <<p>> = <<o, p>>
<1>1. <<o>> \o <<p>> = Append(<<o>>, p) /\ <<o, p>> = Append(<<o>>, p)
  BY SMT
<1> QED
  BY <1>1

(* Future_drop, up to on_drop.                                              *)
LEMMA Future_dropKeeps ==
  ASSUME IInv, Future_drop PROVE IInv'
<1> SUFFICES ASSUME NEW n, n = Arg, NEW s, s = fut[n].state PROVE IInv'
  BY Zenon
<1>1. /\ Running("drop")
      /\ s >= DETACHED => Then(<<>>) /\ fut' = fut
      /\ ~(s >= DETACHED) => /\ SetState(n, CANCELLED)
                             /\ Then((IF s = READY THEN <<>> ELSE <<Op("on_drop", n)>>) \o <<Op("release", n)>>)
      /\ cleanups' = cleanups /\ live' = live /\ frame' = frame /\ reg' = reg /\ fresh' = fresh /\ mine' = mine
            /\ ran' = ran
  BY Zenon DEF Future_drop
<1>2. /\ todo # <<>> /\ Typed /\ Ordered /\ Has("drop", n) /\ n \in Nodes
      /\ \A nm, x : Has(nm, x) <=> (nm = "drop" /\ x = n) \/ Below(nm, x)
      /\ \A nm, x : Below(nm, x) => nm \in Beneath /\ <<nm, x>> \in AllOps
      /\ \A nm, x : nm \notin Beneath /\ Has(nm, x) => nm = "drop" /\ x = n
  <2>1. "drop" \in NodeOps
    BY SMT DEF NodeOps
  <2> QED
    BY <1>1, <2>1, HeadArg, Zenon
<1>3. NodeOK(n) /\ OwnerOK(n) /\ DropOK(n) /\ s \in 0 .. 6
      /\ (n \in Tasks => TaskOK(n) /\ LinkOK(n) /\ SitesOK(n) /\ AwaitingOK(n))
  BY <1>2, Shapes, Zenon DEF IInv
<1>4. /\ Alive(n)
      /\ ~(s >= DETACHED) => s <= READY /\ n \notin mine /\ Quits(n)
                             /\ \A t \in Tasks : Works(t) /\ Awaits(t, n) => Has("cleanup", t)
  BY <1>1, <1>3, Zenon DEF DropOK
<1>5. \A x : (Alive(x)' <=> Alive(x)) /\ (Drops(x)' <=> Drops(x)) /\ (Resumes(x)' <=> Resumes(x))
            /\ (Reaps(x)' <=> Reaps(x))
             /\ (Works(x)' <=> Works(x))
  BY <1>1, Zenon DEF Alive, Drops, Resumes, Reaps, Works
<1>6. CASE s >= DETACHED
  <2>1. Then(<<>>) /\ fut' = fut
    BY <1>1, <1>6
  <2>2. /\ todo' \in Seq(AllOps) /\ Ordered'
        /\ \A name, x : Has(name, x)' <=> Below(name, x)
        /\ \A name : Running(name)' => name \in Beneath
    BY <1>2, <2>1, Popped, Zenon
  <2>3. \A x \in Nodes : Alike(x) /\ (x # n => Still(x))
    BY <1>1, <1>2, <1>5, <2>1, <2>2, Zenon DEF Still, Alike
  <2>4. Typed'
    BY <1>1, <1>2, <2>1, <2>2, SMT DEF Typed, Last
  <2>5. \A x \in Nodes : DropOK(x)'
    BY <2>2, NoDrop, SMT DEF Beneath
  <2>6. OwnerOK(n)'
    <3>1. "call" \notin Beneath
      BY SMT DEF Beneath
    <3>2. ~Has("call", n)'
      BY <1>2, <2>2, <3>1, Zenon
    <3> QED
      BY <1>6, <2>1, <3>2, SMT DEF OwnerOK, DETACHED, PENDING, WAITING, READY
  <2> QED
    BY <1>1, <1>2, <2>2, <2>3, <2>4, <2>5, <2>6, OnlyDrop, Zenon
<1>7. CASE ~(s >= DETACHED)
  <2>1. /\ s <= READY /\ s \in {PENDING, WAITING, READY} /\ n \notin mine /\ Quits(n)
        /\ \A t \in Tasks : Works(t) /\ Awaits(t, n) => Has("cleanup", t)
    BY <1>3, <1>4, <1>7, SMT DEF READY, WAITING, PENDING
  <2>2. SetState(n, CANCELLED) /\ Then((IF s = READY THEN <<>> ELSE <<Op("on_drop", n)>>) \o <<Op("release", n)>>)
    BY <1>1, <1>7
  <2>3. \A nm \in Control : ~Has(nm, n) /\ ~Below(nm, n)
    <3>1. ASSUME NEW nm \in Control, Below(nm, n) PROVE FALSE
      <4>1. n \in Tasks
        <5>1. nm \in Beneath /\ nm \in Control /\ <<nm, n>> \in AllOps
          BY <1>2, <3>1, Zenon
        <5>2. nm \in {"poll", "cleanup", "run"}
          BY <5>1, SMT DEF Beneath, Control
        <5>3. \A o \in AllOps : o[1] \in {"poll", "cleanup", "run"} => o[2] \in Tasks
          BY SMT DEF AllOps, TaskOps, NodeOps
        <5> QED
          BY <5>1, <5>2, <5>3, SMT
      <4> QED
        BY <2>1, <3>1, <4>1, Zenon DEF Quits, Calm
    <3>2. "drop" \notin Control
      BY SMT DEF Control
    <3> QED
      BY <1>2, <3>1, <3>2, Zenon
  <2>4. ~Has("release", n) /\ ~Below("release", n)
    <3>1. ~Has("release", n)
      BY <1>3, <2>1, SMT DEF NodeOK, FutureOK, PENDING, WAITING, READY, CANCELLED, DETACHED, CLEANED
    <3> QED
      BY <1>2, <3>1, Zenon
  <2>5. ASSUME NEW nm, nm # "user" PROVE ~Below(nm, n)
    <3>1. nm \in Beneath => nm = "release" \/ nm \in Control
      BY <2>5, SMT DEF Beneath, Control
    <3> QED
      BY <1>2, <2>3, <2>4, <3>1, Zenon
  <2>6. Fits("release", n) /\ Fits("on_drop", n)
    BY <2>5, SMT DEF Fits, Control
  <2>7. Op("release", n) \in AllOps /\ Op("on_drop", n) \in AllOps
    BY <1>2, SMT DEF Op, AllOps, NodeOps
  <2>8. /\ todo' \in Seq(AllOps) /\ Ordered' /\ Arg' = n
        /\ \A nm : Running(nm)' <=> nm = IF s = READY THEN "release" ELSE "on_drop"
        /\ \A nm, x : Below(nm, x)' => (nm = "release" /\ x = n) \/ Below(nm, x)
        /\ \A nm, x : Has(nm, x)' <=> (nm = "release" /\ x = n) \/ (s # READY /\ nm = "on_drop"
              /\ x = n) \/ Below(nm, x)
    <3>1. CASE s = READY
      <4>1. Then(<<Op("release", n)>>)
        BY <2>2, <3>1, SMT
      <4>2. /\ todo' \in Seq(AllOps) /\ Ordered' /\ Arg' = n /\ \A nm : Running(nm)' <=> nm = "release"
            /\ \A nm, x : Below(nm, x)' <=> Below(nm, x)
            /\ \A nm, x : Has(nm, x)' <=> (nm = "release" /\ x = n) \/ Below(nm, x)
        <5>1. Op("release", n) \in AllOps /\ Fits("release", n)
          BY <2>6, <2>7
        <5>2. Typed /\ Ordered /\ todo # <<>>
          BY <1>2
        <5> QED
          BY <4>1, <5>1, <5>2, Then1, SMT
      <4> QED
        BY <3>1, <4>2, Zenon
    <3>2. CASE s # READY
      <4>1. Then(<<Op("on_drop", n), Op("release", n)>>)
        <5> DEFINE o == Op("on_drop", n) p == Op("release", n)
        <5>1. Then(<<o>> \o <<p>>)
          BY <2>2, <3>2
        <5>2. <<o>> \o <<p>> = <<o, p>>
          BY <2>7, Joined
        <5> QED
          BY <5>1, <5>2
      <4>2. "release" \in Beneath /\ ("on_drop" \in Control /\ "release" \in Control => n # n)
                  /\ "on_drop" # "release"
        BY SMT DEF Beneath, Control
      <4>3. /\ todo' \in Seq(AllOps) /\ Ordered' /\ Arg' = n /\ \A nm : Running(nm)' <=> nm = "on_drop"
            /\ \A nm, x : Below(nm, x)' <=> (nm = "release" /\ x = n) \/ Below(nm, x)
            /\ \A nm, x : Has(nm, x)' <=> (nm = "on_drop" /\ x = n) \/ (nm = "release" /\ x = n) \/ Below(nm, x)
        <5>2. Typed /\ Ordered /\ todo # <<>>
          BY <1>2
        <5> QED
          BY <2>6, <2>7, <4>1, <4>2, <5>2, Then2, SMT
      <4> QED
        BY <3>2, <4>3, Zenon
    <3> QED
      BY <3>1, <3>2
  <2>9. /\ fut' \in [Nodes -> Futures] /\ fut'[n].waker = fut[n].waker /\ fut'[n].state = CANCELLED
        /\ \A x \in Nodes : x # n => fut'[x] = fut[x]
    BY <1>2, <2>2, StateSet, SMT DEF CANCELLED
  <2>10. ASSUME NEW x \in Nodes \ {n} PROVE Still(x)
    BY <1>1, <1>2, <1>5, <2>8, <2>9, Zenon DEF Still, Alike
  <2>11. Untouched({n})
    BY <1>1, <2>10, Zenon DEF Untouched
  <2>12. Typed'
    BY <1>1, <1>2, <2>8, <2>9, SMT DEF Typed, Last
  <2>13. \A x \in Nodes : DropOK(x)'
    <3>1. ~Running("drop")'
      BY <2>8, SMT
    <3>2. Quits(n)'
      <4>1. PICK S \in SUBSET Tasks : Calm(S) /\ (n \in Tasks => n \in S) /\ \A x \in S : frame[x].awaiting # n
        BY <2>1, Zenon DEF Quits
      <4>2. "release" \notin Control
        BY SMT DEF Control
      <4>3. \A x \in S : \A nm \in Control : ~Below(nm, x)'
        BY <2>8, <4>1, <4>2, Zenon DEF Calm
      <4> QED
        BY <1>1, <4>1, <4>3, Zenon DEF Quits, Calm
    <3> QED
      BY <2>8, <3>1, <3>2, Zenon DEF DropOK
  <2>14. /\ ~Has("call", n)' /\ Has("release", n)' /\ (Has("on_drop", n)' <=> s # READY) /\ ~Has("complete", n)'
               /\ ~Has("reap", n)'
         /\ \A nm \in Control : Has(nm, n)' => nm = "on_drop"
    <3>1. "call" \notin Beneath /\ "complete" \notin Beneath /\ "reap" \notin Beneath /\ "call" # "drop"
                /\ "complete" # "drop"
          /\ "call" \notin {"release", "on_drop"} /\ "complete" \notin {"release", "on_drop"}
                /\ "reap" \notin {"release", "on_drop"}
          /\ "release" \notin Control /\ "on_drop" \in Control /\ "release" # "on_drop"
      BY SMT DEF Beneath, Control
    <3> QED
      BY <1>2, <2>3, <2>8, <3>1, Zenon
  <2>15. ~Has("call", n) /\ ~Has("complete", n) /\ ~Has("on_drop", n) /\ ~Has("reap", n) /\ ~Has("publish", n)
               /\ ~Has("end", n)
         /\ ~Has("run", n) /\ ~Has("cleanup", n) /\ ~Has("poll", n) /\ ~Has("extract", n) /\ Quiet(n)
    <3>1. "complete" \notin Beneath /\ "reap" \notin Beneath /\ "complete" # "drop" /\ "reap" # "drop"
      BY SMT DEF Beneath
    <3> QED
      BY <1>2, <2>3, <3>1, SMT DEF Control, Quiet
  <2>16. NodeOK(n)'
    <3>1. BlocksOK(n)'
      BY <1>3, <1>5, <2>1, <2>9, SMT DEF NodeOK, BlocksOK, PENDING, WAITING, READY, CANCELLED, ORPHANED
    <3>2. FutureOK(n)'
      BY <1>3, <1>4, <1>5, <2>9, <2>14, SMT DEF NodeOK, FutureOK, PENDING, WAITING, READY, CANCELLED
    <3>3. MineOK(n)'
      <4>1. n \notin fresh
        BY <1>3, <1>4, SMT DEF NodeOK, MineOK, TaskOK, NewOK
      <4> QED
        BY <1>1, <2>1, <4>1, Zenon DEF MineOK
    <3>4. n \in Leaves => LeafOK(n)'
      BY <1>1, <1>3, <1>4, <1>5, <2>1, <2>9, <2>14, <2>15, SMT DEF NodeOK, LeafOK, PENDING, WAITING, READY, CANCELLED
    <3> QED
      BY <3>1, <3>2, <3>3, <3>4, Zenon DEF NodeOK
  <2>17. OwnerOK(n)'
    BY <2>9, <2>14, SMT DEF OwnerOK, PENDING, WAITING, READY, CANCELLED
  <2>18. ~Idles(n) /\ \A u \in Tasks : ~(Awaits(u, n) /\ Waits(u))
    <3>1. ASSUME NEW u \in Tasks, Awaits(u, n), Waits(u) PROVE FALSE
      <4>1. Works(u)
        BY <3>1, Waiting
      <4>2. Has("cleanup", u)
        BY <2>1, <3>1, <4>1
      <4>3. ~Parks(u)
        BY <4>2, SMT DEF Parks, Quiet, Control
      <4>4. "poll" \in Control /\ "extract" \in Control /\ "on_drop" \in Control /\ "cleanup" \in Control
        BY SMT DEF Control
      <4>5. \A nm \in Control : Has(nm, u) => nm = "cleanup"
        BY <1>2, <4>2, <4>4, OneControl, Zenon
      <4> QED
        BY <3>1, <4>3, <4>4, <4>5, SMT DEF Waits
    <3> QED
      BY <1>4, <3>1, Zenon DEF Idles
  <2>19. n \in Tasks => (Works(n) <=> s # READY) /\ frame[n].mode = "running"
    <3> SUFFICES ASSUME n \in Tasks PROVE (Works(n) <=> s # READY) /\ frame[n].mode = "running"
      OBVIOUS
    <3>1. frame[n].mode # "new" /\ frame[n].mode \in Modes
      BY <1>2, <1>3, <1>4, Shapes, Zenon DEF TaskOK, NewOK
    <3>2. frame[n].mode \notin {"cancelled", "detached"}
      BY <1>3, <2>1, SMT DEF TaskOK, ModeOK, PENDING, WAITING, READY, CANCELLED, DETACHED
    <3>3. Works(n) => s # READY
      BY <1>3, Zenon DEF TaskOK, WorksOK
    <3>4. ~Works(n) => s = READY
      BY <1>3, <1>4, <2>4, <2>15, <3>1, Zenon DEF TaskOK, DoneOK
    <3> QED
      BY <3>1, <3>2, <3>3, <3>4, SMT DEF Modes
  <2>20. n \in Tasks => TaskOK(n)'
    <3> SUFFICES ASSUME n \in Tasks PROVE TaskOK(n)'
      OBVIOUS
    <3>1. NewOK(n)' /\ ModeOK(n)'
      BY <1>1, <2>9, <2>19, SMT DEF NewOK, ModeOK, CANCELLED
    <3>2. ~Has("run", n)' /\ ~Has("cleanup", n)' /\ ~Has("poll", n)' /\ ~Has("extract", n)' /\ ~Has("publish", n)'
                /\ ~Has("end", n)'
      BY <2>14, SMT DEF Control
    <3>3. WorksOK(n)'
      <4>1. Last(n)' = Last(n) /\ Awaited(n)' = Awaited(n)
        BY <1>1, SMT DEF Last, Awaited
      <4> QED
        BY <1>1, <1>3, <1>5, <2>9, <2>14, <2>15, <2>19, <3>2, <4>1, SMT DEF TaskOK, WorksOK, CANCELLED, READY, CLEANED
    <3>4. DoneOK(n)'
      BY <1>1, <1>3, <2>9, <1>5, <2>14, <2>19, SMT DEF TaskOK, DoneOK, Last, CANCELLED, DETACHED
    <3>5. OpsOK(n)'
      BY <1>1, <1>5, <2>9, <2>14, <2>19, <3>2, SMT DEF OpsOK
    <3>6. RanOK(n)'
      BY <1>1, <1>3, Zenon DEF TaskOK, RanOK, Last
    <3> QED
      BY <3>1, <3>3, <3>4, <3>5, <3>6, Zenon DEF TaskOK
  <2>21. n \in Tasks => LinkOK(n)' /\ SitesOK(n)' /\ AwaitingOK(n)'
    <3> SUFFICES ASSUME n \in Tasks PROVE LinkOK(n)' /\ SitesOK(n)' /\ AwaitingOK(n)'
      OBVIOUS
    <3>1. ~Has("run", n)' /\ ~Has("poll", n)' /\ ~Has("extract", n)'
      BY <2>14, SMT DEF Control
    <3>2. LinkOK(n)'
      <4> SUFFICES ASSUME NEW x \in Nodes, Awaits(n, x)', Waits(n)' PROVE Linked(n, x)'
        BY Zenon DEF LinkOK, Linked, Waits
      <4>1. Awaits(n, x)
        BY <1>1, SameSites, Zenon
      <4>2. Works(n)
        BY <1>5, <2>14, <2>19, <3>1, Zenon DEF Waits, Parks
      <4>3. Linked(n, x) /\ Parks(n)
        BY <1>3, <2>15, <4>1, <4>2, Zenon DEF LinkOK, Parks
      <4>4. frame[n].awaiting = x /\ Alive(x) /\ fut[x].state = WAITING /\ fut[x].waker = Resume(x)
        BY <4>3, Zenon DEF Linked
      <4>5. x # n
        BY <2>18, <4>1, <4>3, Zenon DEF Waits
      <4> QED
        BY <1>1, <1>5, <2>9, <3>1, <4>4, <4>5, Zenon DEF Linked
    <3>3. SitesOK(n)'
      <4> SUFFICES ASSUME NEW j \in 1 .. Last(n) + 1, NEW x \in Nodes, At(n, j) = x, ToCall(n, j)'
                   PROVE  Idles(x)' /\ ~Has("call", x)'
        BY <1>1, SameSites, Zenon DEF SitesOK
      <4>1. ToCall(n, j)
        BY <1>1, <1>5, <2>15, <3>1, Zenon DEF ToCall
      <4>2. Idles(x) /\ ~Has("call", x)
        BY <1>3, <4>1, Zenon DEF SitesOK
      <4>3. Placid(x)
        BY <2>10, <2>18, <4>2, StillPlacid, SMT
      <4> QED
        BY <4>2, <4>3, Zenon DEF Placid, Visible, Idles
    <3> QED
      BY <1>1, <1>3, <3>2, <3>3, SameAwaiting, Zenon
  <2>22. ASSUME NEW x \in Nodes, x # n, n \in Tasks, Awaits(n, x), Waits(n) PROVE OwnerOK(x)'
    <3>1. Works(n) /\ Linked(n, x) /\ Parks(n)
      BY <1>3, <2>15, <2>22, Waiting, Zenon DEF LinkOK, Parks
    <3>2. Alive(x) /\ fut[x].state = WAITING
      BY <3>1, Zenon DEF Linked
    <3>3. ~Has("call", x)
      BY <1>2, <3>2, SMT DEF Beneath
    <3>4. ~Has("call", x)'
      BY <1>2, <2>8, <3>3, SMT
    <3>5. Has("on_drop", n)' /\ Awaits(n, x)'
      BY <1>1, <2>14, <2>19, <2>22, <3>1, SameSites, Zenon
    <3> QED
      BY <2>9, <2>22, <3>2, <3>4, <3>5, SMT DEF OwnerOK, WAITING, PENDING, READY
  <2>23. \A u \in Tasks : TaskOK(u)' /\ LinkOK(u)' /\ SitesOK(u)' /\ AwaitingOK(u)'
    <3>1. \A u \in Tasks \ {n} : TaskOK(u)' /\ LinkOK(u)' /\ SitesOK(u)' /\ AwaitingOK(u)'
      BY <2>11, <2>18, Kept, SMT
    <3> QED
      BY <2>20, <2>21, <3>1, Zenon
  <2>24. \A x \in Nodes : NodeOK(x)' /\ OwnerOK(x)'
    <3>1. \A x \in Nodes \ {n} : NodeOK(x)' /\ Visible(x)
      BY <2>11, Kept, Zenon
    <3>2. ASSUME NEW x \in Nodes \ {n}, ~(n \in Tasks /\ Awaits(n, x) /\ Waits(n)) PROVE OwnerOK(x)'
      BY <2>11, <3>1, <3>2, Kept, SMT
    <3> QED
      BY <2>16, <2>17, <2>22, <3>1, <3>2, SMT
  <2> QED
    BY <2>8, <2>12, <2>13, <2>23, <2>24, Zenon DEF IInv
<1> QED
  BY <1>6, <1>7

(* Cascade: a dropped task drops what it awaits, then cleans up.            *)
LEMMA CascadeKeeps ==
  ASSUME IInv, Cascade PROVE IInv'
<1> SUFFICES ASSUME NEW t, t = Arg, NEW n, n = Awaited(t) PROVE IInv'
  BY Zenon
<1>1. /\ Running("on_drop") /\ t \in Tasks
      /\ Then((IF frame[t].awaiting = None THEN <<>> ELSE <<Op("drop", frame[t].awaiting)>>) \o <<Op("cleanup", t)>>)
      /\ cleanups' = cleanups /\ fut' = fut /\ live' = live /\ frame' = frame /\ reg' = reg /\ fresh' = fresh
            /\ mine' = mine /\ ran' = ran
  BY Zenon DEF Cascade
<1>2. /\ todo # <<>> /\ Typed /\ Ordered /\ Has("on_drop", t) /\ t \in Nodes
      /\ \A nm, x : Has(nm, x) <=> (nm = "on_drop" /\ x = t) \/ Below(nm, x)
      /\ \A nm, x : Below(nm, x) => nm \in Beneath
      /\ \A nm \in Control : ~Below(nm, t)
      /\ \A nm \in Control : Has(nm, t) => nm = "on_drop"
  <2>1. "on_drop" \in NodeOps /\ "on_drop" \in Control
    BY SMT DEF NodeOps, Control
  <2> QED
    BY <1>1, <2>1, HeadArg, Zenon
<1>3. TaskOK(t) /\ NodeOK(t) /\ OwnerOK(t) /\ LinkOK(t) /\ SitesOK(t) /\ AwaitingOK(t) /\ DropOK(t)
  BY <1>1, <1>2, Zenon DEF IInv
<1>4. /\ Works(t) /\ Alive(t) /\ fut[t].state = CANCELLED /\ frame[t].mode = "running" /\ Quits(t) /\ ~Has("run", t)
      /\ n \in Nodes /\ Awaits(t, n) /\ frame[t].awaiting = n /\ Alive(n) /\ fut[n].state = WAITING
            /\ fut[n].waker = Resume(n)
  <2>1. Works(t) /\ fut[t].state = CANCELLED /\ frame[t].mode = "running"
    BY <1>2, <1>3, Zenon DEF TaskOK, OpsOK
  <2>2. Waits(t)
    BY <1>2, Zenon DEF Waits
  <2>3. ~Has("run", t) /\ Alive(t) /\ n \in Nodes /\ Awaits(t, n) /\ Linked(t, n)
    BY <1>1, <2>2, Waiting, Zenon
  <2>4. Quits(t)
    BY <1>1, <1>3, Zenon DEF DropOK
  <2> QED
    BY <1>2, <2>1, <2>3, <2>4, Zenon DEF Linked
<1>5. n # t /\ n # None /\ n \notin mine
  <2>1. n # t
    BY <1>4, SMT DEF WAITING, CANCELLED
  <2>2. n # None
    BY <1>4, NoneAssumption, SMT
  <2>3. Resume(n) # None /\ NodeOK(n)
    BY <1>4, NullAssumption, Zenon DEF IInv
  <2> QED
    BY <1>4, <2>1, <2>2, <2>3, Zenon DEF NodeOK, MineOK
<1>6. \A x : (Alive(x)' <=> Alive(x)) /\ (Drops(x)' <=> Drops(x)) /\ (Resumes(x)' <=> Resumes(x))
            /\ (Reaps(x)' <=> Reaps(x))
             /\ (Works(x)' <=> Works(x))
  BY <1>1, Zenon DEF Alive, Drops, Resumes, Reaps, Works
<1>7. Op("drop", n) \in AllOps /\ Op("cleanup", t) \in AllOps
  BY <1>1, <1>4, SMT DEF Op, AllOps, NodeOps, TaskOps
<1>8. Then(<<Op("drop", n), Op("cleanup", t)>>)
  <2> DEFINE o == Op("drop", n) p == Op("cleanup", t)
  <2>1. Then(<<o>> \o <<p>>)
    BY <1>1, <1>4, <1>5
  <2>2. <<o>> \o <<p>> = <<o, p>>
    BY <1>7, Joined
  <2> QED
    BY <2>1, <2>2
<1>9. /\ todo' \in Seq(AllOps) /\ Ordered' /\ Arg' = n /\ (\A nm : Running(nm)' <=> nm = "drop")
      /\ \A nm, x : Below(nm, x)' <=> (nm = "cleanup" /\ x = t) \/ Below(nm, x)
      /\ \A nm, x : Has(nm, x)' <=> (nm = "drop" /\ x = n) \/ (nm = "cleanup" /\ x = t) \/ Below(nm, x)
  <2>1. "drop" # "release" /\ "cleanup" # "release" /\ "cleanup" \in Beneath /\ "drop" \notin Control
    BY SMT DEF Beneath, Control
  <2>2. Fits("drop", n) /\ Fits("cleanup", t)
    BY <1>2, <2>1, Zenon DEF Fits
  <2>3. Typed /\ Ordered /\ todo # <<>>
    BY <1>2
  <2> QED
    BY <1>7, <1>8, <2>1, <2>2, <2>3, Then2, SMT
<1>10. ASSUME NEW x \in Nodes \ {t} PROVE Alike(x) /\ (x # n => Still(x))
  BY <1>1, <1>2, <1>6, <1>9, Zenon DEF Still, Alike
<1>11. Untouched({t, n})
  BY <1>1, <1>10, Zenon DEF Untouched
<1>12. Typed'
  BY <1>1, <1>2, <1>9, SMT DEF Typed, Last
<1>13. /\ \A nm \in Control : Has(nm, t)' => nm = "cleanup"
       /\ Has("cleanup", t)' /\ ~Has("reap", t)' /\ (Has("release", t)' <=> Has("release", t)) /\ Has("drop", n)'
  <2>1. "reap" \notin Beneath /\ "drop" \notin Control /\ "release" \notin {"cleanup", "drop", "on_drop"}
              /\ "reap" \notin {"cleanup", "drop"}
    BY SMT DEF Beneath, Control
  <2> QED
    BY <1>2, <1>9, <2>1, Zenon
<1>14. ~Has("call", t)' /\ ~Has("poll", t)' /\ ~Has("extract", t)' /\ ~Has("run", t)' /\ ~Has("publish", t)'
             /\ ~Has("end", t)'
       /\ ~Has("on_drop", t)' /\ ~Quiet(t)' /\ ~Has("call", t) /\ ~Has("cleanup", t)
  BY <1>2, <1>13, SMT DEF Control, Quiet
<1>15. TaskOK(t)'
  <2>1. NewOK(t)' /\ ModeOK(t)'
    BY <1>1, <1>3, <1>4, SMT DEF TaskOK, NewOK, ModeOK
  <2>2. WorksOK(t)'
    <3>1. Last(t)' = Last(t) /\ Awaited(t)' = Awaited(t)
      BY <1>1, SMT DEF Last, Awaited
    <3> QED
      BY <1>1, <1>3, <1>4, <1>6, <1>13, <1>14, <3>1, SMT DEF TaskOK, WorksOK
  <2>3. DoneOK(t)'
    BY <1>4, <1>6, Zenon DEF DoneOK
  <2>4. OpsOK(t)'
    BY <1>1, <1>4, <1>6, <1>13, <1>14, Zenon DEF OpsOK
  <2>5. RanOK(t)'
    BY <1>1, <1>3, Zenon DEF TaskOK, RanOK, Last
  <2> QED
    BY <2>1, <2>2, <2>3, <2>4, <2>5, Zenon DEF TaskOK
<1>16. NodeOK(t)'
  <2>1. BlocksOK(t)'
    BY <1>1, <1>3, <1>6, Zenon DEF NodeOK, BlocksOK
  <2>2. FutureOK(t)'
    BY <1>1, <1>3, <1>4, <1>6, <1>13, <1>14, SMT DEF NodeOK, FutureOK, CANCELLED, READY
  <2>3. MineOK(t)'
    BY <1>1, <1>3, <1>6, <1>14, Zenon DEF NodeOK, MineOK
  <2>4. t \notin Leaves
    BY <1>1, CalleeAssumption, SMT
  <2> QED
    BY <2>1, <2>2, <2>3, <2>4, Zenon DEF NodeOK
<1>17. NodeOK(n)' /\ OwnerOK(n)' /\ (n \in Tasks => TaskOK(n)' /\ Steady(n))
  <2>1. Alike(n) /\ NodeOK(n) /\ (n \in Tasks => TaskOK(n))
    BY <1>4, <1>5, <1>10, Zenon DEF IInv
  <2>2. OwnerOK(n)'
    <3>1. ~Has("call", n)
      BY <1>2, SMT DEF Beneath
    <3>2. ~Has("call", n)'
      BY <2>1, <3>1, SMT DEF Alike
    <3> QED
      BY <1>13, <3>2, Zenon DEF OwnerOK
  <2> QED
    BY <1>1, <1>4, <2>1, <2>2, AlikeNode, AlikeTask, AlikeSteady, Zenon
<1>18. OwnerOK(t)'
  BY <1>1, <1>4, <1>14, SMT DEF OwnerOK, CANCELLED, PENDING, WAITING, READY
<1>19. /\ ~Idles(t) /\ ~Idles(n) /\ \A u \in Tasks : ~(Awaits(u, t) /\ Waits(u))
       /\ \A u \in Tasks : Awaits(u, n) => u = t
       /\ \A x \in Nodes : Awaits(t, x) => x = n
  <2>1. \A u \in Tasks : Awaits(u, t) /\ Waits(u) => Linked(u, t)
    BY <1>2, Zenon DEF IInv, LinkOK
  <2>2. \A u \in Tasks : ~(Awaits(u, t) /\ Waits(u))
    BY <1>4, <1>14, <2>1, SMT DEF Linked, Waits, CANCELLED, PENDING, READY, WAITING
  <2> QED
    BY <1>1, <1>4, <2>2, OneCaller, Zenon DEF Idles, Awaits
<1>20. LinkOK(t)' /\ SitesOK(t)' /\ AwaitingOK(t)'
  <2>1. ~Waits(t)'
    BY <1>14, Zenon DEF Waits, Parks
  <2>2. SitesOK(t)'
    <3> SUFFICES ASSUME NEW j \in 1 .. Last(t) + 1, NEW x \in Nodes, At(t, j) = x, ToCall(t, j)'
                 PROVE  Idles(x)' /\ ~Has("call", x)'
      BY <1>1, SameSites, Zenon DEF SitesOK
    <3>1. ToCall(t, j)
      BY <1>1, <1>6, <1>14, Zenon DEF ToCall
    <3>2. Idles(x) /\ ~Has("call", x)
      BY <1>3, <3>1, Zenon DEF SitesOK
    <3>3. Placid(x)
      BY <1>10, <1>19, <3>2, StillPlacid, SMT
    <3> QED
      BY <3>2, <3>3, Zenon DEF Placid, Visible, Idles
  <2> QED
    BY <1>1, <1>3, <2>1, <2>2, NoLink, SameAwaiting, Zenon
<1>21. n \in Tasks => LinkOK(n)' /\ SitesOK(n)' /\ AwaitingOK(n)'
  BY <1>5, <1>11, <1>17, <1>19, Kept, SMT
<1>22. \A x \in Nodes : DropOK(x)'
  <2>1. ~Running("on_drop")'
    BY <1>9, SMT
  <2>2. Quits(n)'
    <3>1. PICK S \in SUBSET Tasks : Calm(S) /\ (t \in Tasks => t \in S) /\ \A x \in S : frame[x].awaiting # t
      BY <1>4, Zenon DEF Quits
    <3> DEFINE R == S \ {t}
    <3>2. \A x \in R : frame[x].awaiting \in Tasks => frame[x].awaiting \in R
      BY <3>1, SMT DEF Calm
    <3>3. \A x \in R : \A nm \in Control : ~Below(nm, x)'
      BY <1>9, <3>1, SMT DEF Calm
    <3>4. n \in Tasks => n \in R
      BY <1>1, <1>4, <1>5, <3>1, SMT DEF Calm
    <3>5. ASSUME NEW x \in R, frame[x].awaiting = n PROVE FALSE
      <4>1. PICK j \in 1 .. Last(x) + 1 : n = At(x, j)
        BY <1>5, <3>1, <3>5, Zenon DEF IInv, AwaitingOK
      <4>2. frame[t].k \in 1 .. Last(t) + 1 /\ n = At(t, frame[t].k)
        BY <1>1, <1>4, Sites, Zenon
      <4> QED
        <5>1. x \in Tasks /\ x # t
          BY <3>1
        <5> QED
          <6>1. \A k \in 1 .. Last(t) + 1 : At(x, j) = At(t, k) /\ At(x, j) \in Nodes => x = t
            BY <1>1, <5>1, Sites, Zenon
          <6> QED
            BY <1>4, <4>1, <4>2, <5>1, <6>1, Zenon
    <3>6. R \in SUBSET Tasks
      BY <3>1
    <3> HIDE DEF R
    <3>7. Calm(R)' /\ \A x \in R : frame'[x].awaiting # n
      BY <1>1, <3>2, <3>3, <3>5, Zenon DEF Calm
    <3> QED
      BY <3>4, <3>6, <3>7, Zenon DEF Quits
  <2>3. \A u \in Tasks : Works(u)' /\ Awaits(u, n)' => Has("cleanup", u)'
    BY <1>1, <1>13, <1>19, SameSites, Zenon
  <2>4. Alive(n)' /\ fut'[n].state <= READY /\ n \notin mine'
    BY <1>1, <1>4, <1>5, <1>6, SMT DEF WAITING, READY
  <2> QED
    BY <1>9, <2>1, <2>2, <2>3, <2>4, Zenon DEF DropOK
<1> QED
  BY <1>1, <1>2, <1>4, <1>5, <1>9, <1>11, <1>12, <1>15, <1>16, <1>17, <1>18, <1>19, <1>20, <1>21, <1>22, Concluded,
     SMT

(* DropAgain: a second drop while the detached cleanup runs.                *)
LEMMA DropAgainKeeps ==
  ASSUME IInv, NEW t \in Tasks, DropAgain(t) PROVE IInv'
<1>1. /\ InUser /\ fut[t].state \in {DETACHED, ORPHANED} /\ Alive(t) /\ Start(<<Op("drop", t)>>)
      /\ cleanups' = cleanups /\ fut' = fut /\ live' = live /\ frame' = frame /\ reg' = reg /\ fresh' = fresh
            /\ mine' = mine /\ ran' = ran
  BY DEF DropAgain, Alive
<1>2. Typed /\ Ordered /\ t \in Nodes
  BY DEF IInv, Nodes
<1>3. "drop" \notin Control /\ "drop" # "release" /\ Op("drop", t) \in AllOps
  BY <1>2, SMT DEF Control, AllOps, Op, NodeOps
<1>4. /\ todo' \in Seq(AllOps) /\ Ordered' /\ Arg' = t /\ (\A nm : Running(nm)' <=> nm = "drop")
      /\ \A nm, x : Has(nm, x)' <=> (nm = "drop" /\ x = t) \/ Has(nm, x)
      /\ \A nm, x : Has(nm, x) => nm \in Beneath
  BY <1>1, <1>2, <1>3, Start1, SMT
<1>5. \A x : (Alive(x)' <=> Alive(x)) /\ (Drops(x)' <=> Drops(x)) /\ (Resumes(x)' <=> Resumes(x))
            /\ (Reaps(x)' <=> Reaps(x))
             /\ (Works(x)' <=> Works(x))
  BY <1>1, Zenon DEF Alive, Drops, Resumes, Reaps, Works
<1>6. \A x \in Nodes : Alike(x) /\ (x # t => Still(x))
  BY <1>1, <1>2, <1>4, <1>5, Zenon DEF Still, Alike
<1>7. Typed'
  BY <1>1, <1>2, <1>4, SMT DEF Typed, Last
<1>8. \A x \in Nodes : DropOK(x)'
  BY <1>1, <1>4, <1>5, SMT DEF DropOK, DETACHED, ORPHANED
<1>9. OwnerOK(t)'
  <2>1. ~Has("call", t)'
    BY <1>4, SMT DEF Beneath
  <2> QED
    BY <1>1, <2>1, SMT DEF OwnerOK, DETACHED, ORPHANED, PENDING, WAITING, READY
<1> QED
  BY <1>1, <1>2, <1>4, <1>6, <1>7, <1>8, <1>9, OnlyDrop, Zenon

(* What t awaits, and what that awaits.                                     *)
LEMMA ChainStep ==
  ASSUME Typed, NEW n \in Tasks
  PROVE  Chain[n] = {n} \cup Chain[frame[n].awaiting]
<1> DEFINE Closed(S) == \A y \in S : frame[y].awaiting \in Tasks => frame[y].awaiting \in S
           D == Nodes \cup {None}
           f == [m \in D |-> {x \in Tasks : \A S \in SUBSET Tasks : Closed(S) /\ (m \in Tasks => m \in S) => x \in S
                 /\ m \in Tasks}]
           F(g) == [m \in D |-> IF m \in Tasks THEN {m} \cup g[frame[m].awaiting] ELSE {}]
<1>1. \A m \in Tasks : m \in D /\ frame[m].awaiting \in D
  BY Shapes, SMT DEF Nodes
<1>2. ASSUME NEW m \in Tasks PROVE f[m] = {m} \cup f[frame[m].awaiting]
  <2> DEFINE a == frame[m].awaiting
  <2>1. m \in D /\ a \in D
    BY <1>1
  <2>2. /\ \A x : x \in f[m] <=> x \in Tasks /\ \A S \in SUBSET Tasks : Closed(S) /\ m \in S => x \in S
        /\ \A x : x \in f[a] <=> x \in Tasks /\ \A S \in SUBSET Tasks : Closed(S)
              /\ (a \in Tasks => a \in S) => x \in S /\ a \in Tasks
    BY <2>1, Zenon
  <2> HIDE DEF f
  <2>3. m \in f[m]
    BY <2>2, Zenon
  <2>4. ASSUME NEW x \in f[a] PROVE x \in f[m]
    <3>1. x \in Tasks
      BY <2>2, <2>4, Zenon
    <3>2. ASSUME NEW S \in SUBSET Tasks, Closed(S), m \in S PROVE x \in S
      <4>1. a \in Tasks => a \in S
        BY <3>2, Zenon
      <4> QED
        BY <2>2, <2>4, <3>2, <4>1, Zenon
    <3> QED
      BY <2>2, <3>1, <3>2, Zenon
  <2>5. ASSUME NEW x \in f[m], x # m PROVE x \in f[a]
    <3>1. x \in Tasks
      BY <2>2, <2>5, Zenon
    <3>2. a \in Tasks
      <4>1. CASE a \notin Tasks
        <5>1. Closed({m}) /\ {m} \in SUBSET Tasks /\ m \in {m}
          BY <4>1, SMT
        <5>2. x \in {m}
          BY <2>2, <2>5, <5>1, Zenon
        <5> QED
          BY <2>5, <5>2
      <4> QED
        BY <4>1
    <3>3. ASSUME NEW S \in SUBSET Tasks, Closed(S), a \in S PROVE x \in S
      <4>1. Closed(S \cup {m}) /\ S \cup {m} \in SUBSET Tasks
        BY <3>3, SMT
      <4>2. x \in S \cup {m}
        BY <2>2, <2>5, <4>1, Zenon
      <4> QED
        BY <2>5, <4>2
    <3> QED
      BY <2>2, <3>1, <3>2, <3>3, Zenon
  <2> QED
    BY <2>3, <2>4, <2>5, Zenon
<1>3. ASSUME NEW m \in D, m \notin Tasks PROVE f[m] = {}
  <2>1. Closed(Tasks) /\ Tasks \in SUBSET Tasks
    BY Zenon
  <2> QED
    BY <1>3, <2>1, Zenon
<1>4. f = F(f)
  <2>1. \A m \in D : f[m] = IF m \in Tasks THEN {m} \cup f[frame[m].awaiting] ELSE {}
    BY <1>2, <1>3
  <2> DEFINE G(m) == {x \in Tasks : \A S \in SUBSET Tasks : Closed(S) /\ (m \in Tasks => m \in S) => x \in S
        /\ m \in Tasks}
  <2>2. f = [m \in D |-> G(m)] /\ \A m \in D : f[m] = G(m)
    OBVIOUS
  <2> HIDE DEF f, G
  <2>3. \A m \in D : G(m) = IF m \in Tasks THEN {m} \cup f[frame[m].awaiting] ELSE {}
    BY <2>1, <2>2
  <2> QED
    BY <2>2, <2>3
<1>5. Chain = CHOOSE g : g = F(g)
  BY DEF Chain
<1> HIDE DEF f
<1>6. Chain = F(Chain)
  BY <1>4, <1>5, Zenon
<1> QED
  BY <1>1, <1>6, Zenon

-----------------------------------------------------------------------------
(* The program and the loop.                                                *)
\* The head when the program or the loop acts.
(* While the program runs, every operation on the stack waits for it.       *)
LEMMA UserHead ==
  ASSUME Typed, Ordered, InUser
  PROVE  \A nm, x : Has(nm, x) => nm \in Beneath
<1> SUFFICES ASSUME NEW nm, NEW x, Has(nm, x) PROVE nm \in Beneath
  BY Zenon
<1>1. todo # <<>>
  <2>1. PICK i \in 1 .. Len(todo) : todo[i] = <<nm, x>>
    BY DEF Has
  <2> QED
    BY <2>1, SMT DEF Typed
<1>2. Running("user") /\ (Running(nm) \/ Below(nm, x))
  BY <1>1, HeadFacts, Zenon DEF InUser
<1>3. Below(nm, x) => nm \in Beneath
  BY <1>1, HeadFacts, Zenon
<1> QED
  BY <1>2, <1>3, SMT DEF Running, Beneath

\* A root the program holds while no operation is on it.
(* A task the program holds and that is not busy is suspended or done, and  *)
(* nothing is about to touch it.                                            *)
LEMMA Held ==
  ASSUME IInv, NEW t \in Tasks, t \in mine, Chain[t] \cap Busy = {}
  PROVE  /\ t \in Nodes /\ t \in Roots /\ t \notin Leaves /\ Alive(t) /\ fut[t].state \in {PENDING, READY} /\ fut[t].waker = None
         /\ t \notin fresh /\ frame[t].mode = "running" /\ \A nm : ~Has(nm, t)
<1>1. Typed /\ NodeOK(t) /\ TaskOK(t) /\ t \in Nodes /\ t \in Roots /\ t \notin Leaves
  BY CalleeAssumption, SMT DEF IInv, Nodes, Typed
<1>2. \A nm : ~Has(nm, t)
  <2>1. t \in Chain[t]
    BY <1>1, ChainStep, Zenon
  <2>2. ASSUME NEW nm, Has(nm, t) PROVE t \in Busy
    <3>1. PICK i \in 1 .. Len(todo) : todo[i] = <<nm, t>>
      BY <2>2 DEF Has
    <3> QED
      BY <3>1, SMT DEF Busy
  <2> QED
    BY <2>1, <2>2
<1>3. Alive(t) /\ fut[t].state \in {PENDING, READY} /\ fut[t].waker = None /\ t \notin fresh
  BY <1>1, <1>2, Zenon DEF NodeOK, MineOK
<1>4. frame[t].mode = "running"
  <2>1. frame[t].mode # "new" /\ frame[t].mode \in Modes
    BY <1>1, <1>3, Shapes, Zenon DEF TaskOK, NewOK
  <2>2. frame[t].mode \notin {"cancelled", "detached"}
    BY <1>1, <1>3, SMT DEF TaskOK, ModeOK, PENDING, READY, CANCELLED, DETACHED
  <2> QED
    BY <2>1, <2>2, SMT DEF Modes
<1> QED
  BY <1>1, <1>2, <1>3, <1>4

\* Nobody is called at a root, or waits for it.
(* Nothing awaits a root.                                                   *)
LEMMA AtRoots ==
  ASSUME IInv, NEW t \in Roots
  PROVE  /\ \A u \in Tasks : ~Awaits(u, t)
         /\ \A u \in Tasks : \A j \in 1 .. Last(u) + 1 : At(u, j) # t
         /\ \A u \in Tasks : frame[u].awaiting # t
<1>1. t \in Nodes /\ t # None
  BY CalleeAssumption, NoneAssumption, SMT DEF Nodes
<1>2. \A u \in Tasks : ~Awaits(u, t)
  BY <1>1, OneCaller, Zenon
<1>3. \A u \in Tasks : \A j \in 1 .. Last(u) + 1 : At(u, j) # t
  BY Sites, Zenon
<1>4. ASSUME NEW u \in Tasks, frame[u].awaiting = t PROVE FALSE
  BY <1>1, <1>3, <1>4, Zenon DEF IInv, AwaitingOK
<1> QED
  BY <1>2, <1>3, <1>4, Zenon

(* Drop: the program drops a task.                                          *)
LEMMA DropKeeps ==
  ASSUME IInv, NEW t \in Tasks, Drop(t) PROVE IInv'
<1>1. /\ InUser /\ t \in mine /\ mine' = mine \ {t} /\ Chain[t] \cap Busy = {} /\ Start(<<Op("drop", t)>>)
      /\ cleanups' = cleanups /\ fut' = fut /\ live' = live /\ frame' = frame /\ reg' = reg /\ fresh' = fresh
            /\ ran' = ran
  BY DEF Drop
<1>2. Typed /\ Ordered
  BY DEF IInv
<1>3. /\ t \in Nodes /\ t \in Roots /\ t \notin Leaves /\ Alive(t) /\ fut[t].state \in {PENDING, READY}
            /\ fut[t].waker = None
      /\ t \notin fresh /\ frame[t].mode = "running" /\ \A nm : ~Has(nm, t)
  BY <1>1, Held, Zenon
<1>4. "drop" \notin Control /\ "drop" # "release" /\ Op("drop", t) \in AllOps
  BY <1>3, SMT DEF Control, AllOps, Op, NodeOps
<1>5. /\ todo' \in Seq(AllOps) /\ Ordered' /\ Arg' = t /\ (\A nm : Running(nm)' <=> nm = "drop")
      /\ \A nm, x : Below(nm, x)' <=> Has(nm, x)
      /\ \A nm, x : Has(nm, x)' <=> (nm = "drop" /\ x = t) \/ Has(nm, x)
      /\ \A nm, x : Has(nm, x) => nm \in Beneath
  BY <1>1, <1>2, <1>4, Start1, SMT
<1>6. \A x : (Alive(x)' <=> Alive(x)) /\ (Drops(x)' <=> Drops(x)) /\ (Resumes(x)' <=> Resumes(x))
            /\ (Reaps(x)' <=> Reaps(x))
             /\ (Works(x)' <=> Works(x))
  BY <1>1, Zenon DEF Alive, Drops, Resumes, Reaps, Works
<1>7. ASSUME NEW x \in Nodes \ {t} PROVE Still(x)
  BY <1>1, <1>2, <1>5, <1>6, Zenon DEF Still, Alike
<1>8. Untouched({t})
  BY <1>1, <1>7, Zenon DEF Untouched
<1>9. Typed'
  BY <1>1, <1>2, <1>5, SMT DEF Typed, Last
<1>10. TaskOK(t) /\ NodeOK(t) /\ LinkOK(t) /\ SitesOK(t) /\ AwaitingOK(t)
  BY <1>3, Zenon DEF IInv
<1>11. \A nm : nm # "drop" => ~Has(nm, t)'
  BY <1>3, <1>5, Zenon
<1>12. ~Has("call", t)' /\ ~Has("poll", t)' /\ ~Has("extract", t)' /\ ~Has("run", t)' /\ ~Has("publish", t)'
             /\ ~Has("end", t)'
       /\ ~Has("on_drop", t)' /\ ~Has("cleanup", t)' /\ ~Has("reap", t)' /\ ~Has("release", t)'
  BY <1>11, Zenon
<1>13. Steady(t) /\ Quiet(t)'
  <2>1. \A nm \in Control : ~Has(nm, t) /\ ~Has(nm, t)'
    BY <1>3, <1>4, <1>11, Zenon
  <2>2. Quiet(t) /\ Quiet(t)'
    BY <2>1, Zenon DEF Quiet
  <2> QED
    BY <1>1, <1>6, <2>1, <2>2, Zenon DEF Steady, Parks
<1>14. TaskOK(t)'
  <2>1. Last(t)' = Last(t) /\ Awaited(t)' = Awaited(t)
    BY <1>1, SMT DEF Last, Awaited
  <2>2. NewOK(t)' /\ ModeOK(t)'
    BY <1>1, <1>3, <1>10, SMT DEF TaskOK, NewOK, ModeOK
  <2>3. WorksOK(t)'
    BY <1>1, <1>3, <1>6, <1>10, <1>12, <2>1, SMT DEF TaskOK, WorksOK
  <2>4. DoneOK(t)'
    BY <1>1, <1>3, <1>6, <1>10, <2>1, SMT DEF TaskOK, DoneOK
  <2>5. OpsOK(t)'
    BY <1>12, Zenon DEF OpsOK
  <2>6. RanOK(t)'
    BY <1>1, <1>10, Zenon DEF TaskOK, RanOK, Last
  <2> QED
    BY <2>2, <2>3, <2>4, <2>5, <2>6, Zenon DEF TaskOK
<1>15. NodeOK(t)'
  <2>1. BlocksOK(t)'
    BY <1>1, <1>6, <1>10, Zenon DEF NodeOK, BlocksOK
  <2>2. FutureOK(t)'
    <3>1. ~Has("release", t)
      BY <1>3
    <3> QED
      BY <1>1, <1>6, <1>10, <1>12, <1>13, <3>1, Zenon DEF NodeOK, FutureOK
  <2>3. MineOK(t)'
    BY <1>1, <1>3, SMT DEF MineOK
  <2> QED
    BY <1>3, <2>1, <2>2, <2>3, Zenon DEF NodeOK
<1>16. OwnerOK(t)'
  <2>1. Has("drop", t)'
    BY <1>5, Zenon
  <2> QED
    BY <1>12, <2>1, Zenon DEF OwnerOK
<1>17. (\A u \in Tasks : ~Awaits(u, t)) /\ ~Idles(t) /\ \A u \in Tasks : frame[u].awaiting # t
  BY <1>3, AtRoots, Zenon DEF Idles
<1>18. LinkOK(t)' /\ SitesOK(t)' /\ AwaitingOK(t)'
  BY <1>8, <1>13, <1>17, Kept, SMT
<1>19. \A x \in Nodes : DropOK(x)'
  <2>1. ~Running("on_drop")'
    BY <1>5, SMT
  <2>2. Quits(t)'
    <3> DEFINE S == {x \in Tasks : Chain[x] \cap Busy = {}}
    <3>1. PICK R \in SUBSET Tasks : R = S
      BY Zenon
    <3>2. ASSUME NEW x \in R, frame[x].awaiting \in Tasks PROVE frame[x].awaiting \in R
      <4>1. Chain[x] = {x} \cup Chain[frame[x].awaiting]
        BY <1>2, ChainStep
      <4> QED
        BY <3>1, <3>2, <4>1, SMT
    <3>3. ASSUME NEW x \in R, NEW nm \in Control PROVE ~Below(nm, x)'
      <4>1. x \notin Busy
        <5>1. Chain[x] = {x} \cup Chain[frame[x].awaiting]
          BY <1>2, ChainStep
        <5> QED
          BY <3>1, <5>1, SMT
      <4>2. ASSUME Has(nm, x) PROVE x \in Busy
        <5>1. PICK i \in 1 .. Len(todo) : todo[i] = <<nm, x>>
          BY <4>2 DEF Has
        <5> QED
          BY <5>1, SMT DEF Busy
      <4> QED
        BY <1>5, <4>1, <4>2, Zenon
    <3>4. t \in R
      BY <1>1, <3>1
    <3>5. Calm(R)'
      BY <1>1, <3>2, <3>3, Zenon DEF Calm
    <3>6. \A x \in R : frame'[x].awaiting # t
      BY <1>1, <1>17
    <3> QED
      BY <3>4, <3>5, <3>6, Zenon DEF Quits
  <2>3. \A u \in Tasks : ~Awaits(u, t)'
    BY <1>1, <1>17, SameSites, Zenon
  <2>4. Alive(t)' /\ fut'[t].state <= READY /\ t \notin mine'
    BY <1>1, <1>3, <1>6, SMT DEF PENDING, READY
  <2> QED
    BY <1>5, <2>1, <2>2, <2>3, <2>4, Zenon DEF DropOK
<1> QED
  BY <1>3, <1>5, <1>8, <1>9, <1>13, <1>14, <1>15, <1>16, <1>17, <1>18, <1>19, Concluded, SMT

(* Spawn: the program hands a task to the loop.                             *)
LEMMA SpawnKeeps ==
  ASSUME IInv, NEW t \in Tasks, Spawn(t) PROVE IInv'
<1> SUFFICES ASSUME NEW s, s = fut[t].state PROVE IInv'
  BY Zenon
<1>1. /\ InUser /\ t \in mine /\ mine' = mine \ {t} /\ Chain[t] \cap Busy = {} /\ todo' = todo
      /\ s = PENDING => fut' = [fut EXCEPT ![t] = [state |-> WAITING, waker |-> Reap(t)]]
            /\ live' = live \cup {Reap(t)}
      /\ s # PENDING => live' = live \ {Fut(t), Drp(t)} /\ fut' = fut
      /\ cleanups' = cleanups /\ frame' = frame /\ reg' = reg /\ fresh' = fresh /\ ran' = ran
  BY DEF Spawn
<1>2. Typed /\ Ordered
  BY DEF IInv
<1>3. /\ t \in Nodes /\ t \in Roots /\ t \notin Leaves /\ Alive(t) /\ s \in {PENDING, READY} /\ fut[t].waker = None
      /\ t \notin fresh /\ frame[t].mode = "running" /\ \A nm : ~Has(nm, t)
  BY <1>1, Held, Zenon
<1>4. TaskOK(t) /\ NodeOK(t) /\ LinkOK(t) /\ SitesOK(t) /\ AwaitingOK(t)
  BY <1>3, Zenon DEF IInv
<1>5. Drops(t) /\ ~Resumes(t) /\ ~Reaps(t)
  <2>1. Drops(t)
    BY <1>3, <1>4, SMT DEF NodeOK, BlocksOK, PENDING, READY, ORPHANED
  <2> QED
    BY <1>3, <1>4, <2>1, NullAssumption, Zenon DEF NodeOK, BlocksOK
<1>6. /\ Ordered' /\ \A nm, x : Has(nm, x)' <=> Has(nm, x)
      /\ \A nm : Running(nm)' <=> Running(nm)
  <2>1. Ordered'
    BY <1>1, <1>2 DEF Ordered
  <2> QED
    BY <1>1, <2>1, Zenon DEF Has, Running
<1>7. /\ fut' \in [Nodes -> Futures]
      /\ s = PENDING => fut'[t].state = WAITING /\ fut'[t].waker = Reap(t)
      /\ s # PENDING => fut'[t] = fut[t]
      /\ \A x \in Nodes : x # t => fut'[x] = fut[x]
  <2>1. CASE s = PENDING
    <3>1. [state |-> WAITING, waker |-> Reap(t)] \in Futures
      BY <1>3, SMT DEF Futures, Wakers, WAITING, PENDING, CLEANED
    <3>2. fut \in [Nodes -> Futures]
      BY <1>2 DEF Typed
    <3> QED
      BY <1>1, <1>3, <2>1, <3>1, <3>2
  <2>2. CASE s # PENDING
    BY <1>1, <1>2, <2>2 DEF Typed
  <2> QED
    BY <2>1, <2>2
<1>8. /\ \A x : x # t => (Alive(x)' <=> Alive(x)) /\ (Drops(x)' <=> Drops(x)) /\ (Reaps(x)' <=> Reaps(x))
      /\ \A x : (Resumes(x)' <=> Resumes(x)) /\ (Works(x)' <=> Works(x))
      /\ s = PENDING => Alive(t)' /\ Drops(t)' /\ Reaps(t)'
      /\ s # PENDING => ~Alive(t)' /\ ~Drops(t)' /\ ~Reaps(t)'
      /\ live' \subseteq live \cup {Reap(t)}
  <2>1. CASE s = PENDING
    BY <1>1, <1>3, <1>5, <2>1, BlockNames, SMT DEF Alive, Drops, Resumes, Reaps, Works
  <2>2. CASE s # PENDING
    BY <1>1, <1>3, <1>5, <2>2, BlockNames, SMT DEF Alive, Drops, Resumes, Reaps, Works
  <2> QED
    BY <2>1, <2>2
<1>9. ASSUME NEW x \in Nodes \ {t} PROVE Still(x)
  BY <1>1, <1>2, <1>6, <1>7, <1>8, Zenon DEF Still, Alike
<1>10. Untouched({t})
  BY <1>1, <1>9, Zenon DEF Untouched
<1>11. Typed'
  <2>1. Reap(t) \in Blocks
    BY <1>3, SMT DEF Blocks
  <2> QED
    BY <1>1, <1>2, <1>7, <1>8, <2>1, SMT DEF Typed, Last
<1>12. \A x \in Nodes : DropOK(x)'
  <2>1. ~Running("drop")' /\ ~Running("on_drop")'
    BY <1>1, <1>6, SMT DEF InUser, Running
  <2> QED
    BY <2>1, NoDrop
<1>13. \A nm : ~Has(nm, t)'
  BY <1>3, <1>6, Zenon
<1>14. Steady(t) /\ Quiet(t) /\ Quiet(t)'
  <2>1. Quiet(t) /\ Quiet(t)'
    BY <1>3, <1>13, Zenon DEF Quiet
  <2> QED
    BY <1>1, <1>3, <1>8, <1>13, <2>1, Zenon DEF Steady, Parks
<1>15. TaskOK(t)'
  <2>1. Last(t)' = Last(t) /\ Awaited(t)' = Awaited(t)
    BY <1>1, SMT DEF Last, Awaited
  <2>2. NewOK(t)' /\ ModeOK(t)'
    BY <1>1, <1>3, <1>4, <1>7, SMT DEF TaskOK, NewOK, ModeOK, PENDING, WAITING, READY, CANCELLED
  <2>3. WorksOK(t)'
    BY <1>1, <1>3, <1>4, <1>7, <1>8, <1>13, <2>1, SMT DEF TaskOK, WorksOK, PENDING, WAITING, READY, CLEANED, CANCELLED
  <2>4. DoneOK(t)'
    BY <1>1, <1>3, <1>4, <1>7, <1>8, <2>1, SMT DEF TaskOK, DoneOK, PENDING, READY
  <2>5. OpsOK(t)'
    BY <1>13, Zenon DEF OpsOK
  <2>6. RanOK(t)'
    BY <1>1, <1>4, Zenon DEF TaskOK, RanOK, Last
  <2> QED
    BY <2>2, <2>3, <2>4, <2>5, <2>6, Zenon DEF TaskOK
<1>16. NodeOK(t)'
  <2>1. BlocksOK(t)'
    BY <1>5, <1>7, <1>8, BlockNames, SMT DEF BlocksOK, WAITING, ORPHANED
  <2>2. FutureOK(t)'
    <3>1. Reap(t) # None
      BY <1>3, NullAssumption
    <3> QED
      BY <1>3, <1>4, <1>7, <1>8, <1>13, <1>14, <3>1, SMT DEF NodeOK, FutureOK, PENDING, WAITING, READY, CANCELLED,
         DETACHED, CLEANED
  <2>3. MineOK(t)'
    BY <1>1, <1>3, SMT DEF MineOK
  <2> QED
    BY <1>3, <2>1, <2>2, <2>3, Zenon DEF NodeOK
<1>17. OwnerOK(t)'
  BY <1>3, <1>7, <1>8, <1>13, BlockNames, SMT DEF OwnerOK, PENDING, WAITING, READY
<1>18. (\A u \in Tasks : ~Awaits(u, t)) /\ ~Idles(t)
  BY <1>3, AtRoots, Zenon DEF Idles
<1>19. LinkOK(t)' /\ SitesOK(t)' /\ AwaitingOK(t)'
  BY <1>10, <1>14, <1>18, Kept, SMT
<1> QED
  BY <1>3, <1>6, <1>10, <1>11, <1>12, <1>14, <1>15, <1>16, <1>17, <1>18, <1>19, Concluded, SMT

(* Call: the program calls a root.                                          *)
LEMMA CallKeeps ==
  ASSUME IInv, NEW t \in Tasks, Call(t) PROVE IInv'
<1>1. /\ InUser /\ todo = <<>> /\ t \in fresh /\ fresh' = fresh \ {t} /\ mine' = mine \cup {t}
            /\ Start(<<Op("call", t)>>)
      /\ cleanups' = cleanups /\ fut' = fut /\ live' = live /\ frame' = frame /\ reg' = reg /\ ran' = ran
  BY DEF Call, InUser
<1>2. Typed /\ Ordered /\ t \in Nodes /\ t \in Roots /\ t \notin Leaves /\ TaskOK(t) /\ NodeOK(t) /\ SitesOK(t)
            /\ AwaitingOK(t)
  BY <1>1, CalleeAssumption, SMT DEF IInv, Nodes, Typed
<1>3. /\ frame[t].mode = "new" /\ Idles(t) /\ ~Alive(t) /\ ~Works(t) /\ fut[t].state = PENDING /\ fut[t].waker = None
      /\ \A nm, x : ~Has(nm, x)
  <2>1. frame[t].mode = "new"
    BY <1>1, <1>2, Zenon DEF NodeOK, MineOK
  <2>2. t \notin reg
    BY <1>2, SMT DEF Typed
  <2>3. \A nm, x : ~Has(nm, x)
    BY <1>1, SMT DEF Has
  <2> QED
    BY <1>2, <2>1, <2>2, <2>3, Zenon DEF TaskOK, NewOK, Idles
<1>4. Op("call", t) \in AllOps /\ "call" # "release"
  BY <1>2, SMT DEF AllOps, Op, NodeOps
<1>5. /\ todo' \in Seq(AllOps) /\ Ordered' /\ Arg' = t /\ (\A nm : Running(nm)' <=> nm = "call")
      /\ \A nm, x : Has(nm, x)' <=> (nm = "call" /\ x = t)
  <2>1. Quiet(t)
    BY <1>3, Zenon DEF Quiet
  <2>2. /\ todo' \in Seq(AllOps) /\ Ordered' /\ Arg' = t /\ (\A nm : Running(nm)' <=> nm = "call")
        /\ \A nm, x : Has(nm, x)' <=> (nm = "call" /\ x = t) \/ Has(nm, x)
    BY <1>1, <1>2, <1>4, <2>1, Start1, SMT
  <2> QED
    BY <1>3, <2>2, Zenon
<1>6. \A x : (Alive(x)' <=> Alive(x)) /\ (Drops(x)' <=> Drops(x)) /\ (Resumes(x)' <=> Resumes(x))
            /\ (Reaps(x)' <=> Reaps(x))
             /\ (Works(x)' <=> Works(x))
  BY <1>1, Zenon DEF Alive, Drops, Resumes, Reaps, Works
<1>7. ASSUME NEW x \in Nodes \ {t} PROVE Still(x)
  BY <1>1, <1>2, <1>3, <1>5, <1>6, Zenon DEF Still, Alike
<1>8. Untouched({t})
  BY <1>1, <1>7, Zenon DEF Untouched
<1>9. Typed'
  BY <1>1, <1>2, <1>5, SMT DEF Typed, Last
<1>10. \A x \in Nodes : DropOK(x)'
  <2>1. ~Running("drop")' /\ ~Running("on_drop")'
    BY <1>5, SMT
  <2> QED
    BY <2>1, NoDrop
<1>11. Has("call", t)' /\ ~Has("poll", t)' /\ ~Has("extract", t)' /\ ~Has("run", t)' /\ ~Has("publish", t)'
             /\ ~Has("end", t)'
       /\ ~Has("on_drop", t)' /\ ~Has("cleanup", t)' /\ ~Has("reap", t)' /\ ~Has("release", t)'
  BY <1>5, SMT
<1>12. TaskOK(t)'
  <2>1. Last(t)' = Last(t)
    BY <1>1, SMT DEF Last
  <2>2. NewOK(t)' /\ ModeOK(t)'
    BY <1>1, <1>2, <1>6, <2>1, SMT DEF TaskOK, NewOK, ModeOK
  <2>3. WorksOK(t)' /\ DoneOK(t)'
    BY <1>1, <1>3, <1>6, Zenon DEF WorksOK, DoneOK
  <2>4. OpsOK(t)'
    BY <1>1, <1>3, <1>11, Zenon DEF OpsOK
  <2>5. RanOK(t)'
    BY <1>1, <1>2, Zenon DEF TaskOK, RanOK, Last
  <2> QED
    BY <2>2, <2>3, <2>4, <2>5, Zenon DEF TaskOK
<1>13. NodeOK(t)' /\ Idles(t)'
  <2>1. BlocksOK(t)'
    BY <1>1, <1>2, <1>6, Zenon DEF NodeOK, BlocksOK
  <2>2. Idles(t)'
    BY <1>1, <1>3, <1>6, Zenon DEF Idles
  <2>3. FutureOK(t)'
    <3>1. ~Has("release", t)
      BY <1>3
    <3>2. fut[t].state # READY
      BY <1>3, SMT DEF PENDING, READY
    <3> QED
      BY <1>1, <1>2, <1>6, <1>11, <2>2, <3>1, <3>2, Zenon DEF NodeOK, FutureOK
  <2>4. MineOK(t)'
    BY <1>1, <1>3, <1>11, SMT DEF MineOK
  <2> QED
    BY <1>2, <2>1, <2>2, <2>3, <2>4, Zenon DEF NodeOK
<1>14. OwnerOK(t)'
  <2>1. t \in mine'
    BY <1>1
  <2> QED
    BY <1>1, <1>3, <1>6, <2>1, Zenon DEF OwnerOK
<1>15. ~Waits(t) /\ ~Waits(t)'
  BY <1>3, <1>6, <1>11, Zenon DEF Waits, Parks
<1>16. (\A u \in Tasks : ~Awaits(u, t)) /\ \A u \in Tasks : \A j \in 1 .. Last(u) + 1 : At(u, j) # t
  BY <1>2, AtRoots, Zenon
<1>17. LinkOK(t)' /\ SitesOK(t)' /\ AwaitingOK(t)'
  <2>1. SitesOK(t)'
    <3> SUFFICES ASSUME NEW j \in 1 .. Last(t) + 1, NEW x \in Nodes, At(t, j) = x, ToCall(t, j)'
                 PROVE  Idles(x)' /\ ~Has("call", x)'
      BY <1>1, SameSites, Zenon DEF SitesOK
    <3>1. ToCall(t, j)
      BY <1>3, Zenon DEF ToCall
    <3>2. Idles(x) /\ ~Has("call", x)
      BY <1>2, <3>1, Zenon DEF SitesOK
    <3>3. Placid(x)
      BY <1>7, <1>16, StillPlacid, SMT
    <3> QED
      BY <3>2, <3>3, Zenon DEF Placid, Visible, Idles
  <2> QED
    BY <1>1, <1>2, <1>15, <2>1, NoLink, SameAwaiting, Zenon
<1> QED
  BY <1>2, <1>5, <1>8, <1>9, <1>10, <1>12, <1>13, <1>14, <1>15, <1>16, <1>17, Concluded, SMT

(* Fire: the loop completes a leaf.                                         *)
LEMMA FireKeeps ==
  ASSUME IInv, NEW l \in Leaves, Fire(l) PROVE IInv'
<1>1. /\ InUser /\ l \in reg /\ reg' = reg \ {l} /\ Start(<<Op("complete", l)>>)
      /\ cleanups' = cleanups /\ fut' = fut /\ live' = live /\ frame' = frame /\ fresh' = fresh /\ mine' = mine
            /\ ran' = ran
  BY DEF Fire
<1>2. Typed /\ Ordered /\ l \in Nodes /\ l \notin Tasks /\ NodeOK(l)
  BY CalleeAssumption, SMT DEF IInv, Nodes
<1>3. \A nm, x : Has(nm, x) => nm \in Beneath
  BY <1>1, <1>2, UserHead, Zenon
<1>4. /\ Alive(l) /\ fut[l].state <= WAITING /\ l \notin mine /\ l \notin fresh
  <2>1. ~Has("on_drop", l)
    BY <1>3, SMT DEF Beneath
  <2>2. LeafOK(l)
    BY <1>2 DEF NodeOK
  <2>3. Alive(l) /\ fut[l].state <= WAITING
    BY <1>1, <2>1, <2>2, Zenon DEF LeafOK
  <2>4. l \notin mine /\ l \notin fresh
    BY <1>2, CalleeAssumption, SMT DEF Typed
  <2> QED
    BY <2>3, <2>4
<1>5. Op("complete", l) \in AllOps /\ "complete" # "release" /\ "complete" \notin Control
  BY SMT DEF AllOps, Op, Control
<1>6. /\ todo' \in Seq(AllOps) /\ Ordered' /\ Arg' = l /\ (\A nm : Running(nm)' <=> nm = "complete")
      /\ \A nm, x : Has(nm, x)' <=> (nm = "complete" /\ x = l) \/ Has(nm, x)
  BY <1>1, <1>2, <1>5, Start1, SMT
<1>7. \A x : (Alive(x)' <=> Alive(x)) /\ (Drops(x)' <=> Drops(x)) /\ (Resumes(x)' <=> Resumes(x))
            /\ (Reaps(x)' <=> Reaps(x))
             /\ (Works(x)' <=> Works(x)) /\ (x # l => (x \in reg' <=> x \in reg))
  BY <1>1, Zenon DEF Alive, Drops, Resumes, Reaps, Works
<1>8. ASSUME NEW x \in Nodes \ {l} PROVE Still(x)
  BY <1>1, <1>2, <1>6, <1>7, Zenon DEF Still, Alike
<1>9. Untouched({l})
  BY <1>1, <1>8, Zenon DEF Untouched
<1>10. Typed'
  BY <1>1, <1>2, <1>6, SMT DEF Typed, Last
<1>11. \A x \in Nodes : DropOK(x)'
  <2>1. ~Running("drop")' /\ ~Running("on_drop")'
    BY <1>6, SMT
  <2> QED
    BY <2>1, NoDrop
<1>12. /\ Has("complete", l)' /\ (Has("release", l)' <=> Has("release", l)) /\ (Has("call", l)' <=> Has("call", l))
             /\ (Has("on_drop", l)' <=> Has("on_drop", l))
       /\ (Has("drop", l)' <=> Has("drop", l)) /\ (Has("reap", l)' <=> Has("reap", l)) /\ ~Has("on_drop", l)
       /\ (Quiet(l)' <=> Quiet(l))
  <2>1. \A nm \in Control : Has(nm, l)' <=> Has(nm, l)
    BY <1>5, <1>6, Zenon
  <2> QED
    BY <1>3, <1>6, <2>1, SMT DEF Quiet, Beneath
<1>13. ~Idles(l) /\ ~Idles(l)'
  BY <1>1, <1>4, <1>7, Zenon DEF Idles
<1>14. NodeOK(l)'
  <2>1. BlocksOK(l)'
    BY <1>1, <1>2, <1>7, Zenon DEF NodeOK, BlocksOK
  <2>2. FutureOK(l)'
    BY <1>1, <1>2, <1>7, <1>12, <1>13, Zenon DEF NodeOK, FutureOK
  <2>3. MineOK(l)'
    BY <1>1, <1>4, Zenon DEF MineOK
  <2>4. LeafOK(l)'
    BY <1>1, <1>2, <1>4, <1>7, <1>12, SMT DEF NodeOK, LeafOK, WAITING, CANCELLED
  <2> QED
    BY <2>1, <2>2, <2>3, <2>4, Zenon DEF NodeOK
<1>15. Visible(l)
  BY <1>1, <1>7, <1>12, Zenon DEF Visible
<1>16. OwnerOK(l)'
  BY <1>2, <1>9, <1>15, Kept, SMT
<1> QED
  BY <1>2, <1>6, <1>9, <1>10, <1>11, <1>13, <1>14, <1>15, <1>16, Concluded, SMT

-----------------------------------------------------------------------------
(* An await: the call, the poll, the completion and the resumption.         *)

(* A task awaits another node, and a task only at its body's await.         *)
LEMMA NotItself ==
  ASSUME IInv, NEW t \in Tasks, NEW n \in Nodes, Awaits(t, n)
  PROVE  n # t /\ (n \in Tasks => n = Callee[t])
<1>1. n \in Tasks => n = Callee[t]
  <2>1. CASE frame[t].k > Last(t)
    BY <2>1, Zenon DEF Awaits, Awaited
  <2>2. CASE ~(frame[t].k > Last(t))
    <3>1. frame[t].k \in 1 .. Len(cleanups[t]) /\ n = cleanups[t][frame[t].k]
      <4>1. frame[t].k \in Nat /\ Last(t) \in Nat
        BY Shapes, Sites, Zenon DEF IInv
      <4> QED
        BY <2>2, <4>1, SMT DEF Awaits, Awaited, Last
    <3>2. cleanups[t] \in Seq(Leaves \cup {Plain})
      BY ProgramsAssumption DEF IInv, Typed
    <3>3. n \in Leaves \cup {Plain}
      BY <3>1, <3>2, SMT
    <3> QED
      BY <3>3, CalleeAssumption, NoneAssumption, SMT
  <2> QED
    BY <2>1, <2>2
<1>2. Callee[t] # t
  <2>1. {t} \in SUBSET Tasks /\ {t} # {}
    BY SMT
  <2>2. \E u \in {t} : Callee[u] \notin {t}
    BY <2>1, ForestAssumption, Zenon
  <2> QED
    BY <2>2, SMT
<1> QED
  BY <1>1, <1>2

(* Extract: the awaiting task takes the value and frees the future.         *)
LEMMA ExtractKeeps ==
  ASSUME IInv, Extract PROVE IInv'
<1> SUFFICES ASSUME NEW t, t = Arg, NEW n, n = Awaited(t), NEW k, k = frame[t].k PROVE IInv'
  BY Zenon
<1>1. /\ Running("extract") /\ live' = live \ {Fut(n), Drp(n), fut[n].waker}
      /\ frame' = [frame EXCEPT ![t].awaiting = None, ![t].k = k - 1] /\ Then(<<Op("run", t)>>)
      /\ cleanups' = cleanups /\ fut' = fut /\ reg' = reg /\ fresh' = fresh /\ mine' = mine /\ ran' = ran
  BY DEF Extract
<1>2. /\ todo # <<>> /\ Typed /\ Ordered /\ Has("extract", t) /\ t \in Tasks /\ t \in Nodes
      /\ \A nm, x : Has(nm, x) <=> (nm = "extract" /\ x = t) \/ Below(nm, x)
      /\ \A nm, x : Below(nm, x) => nm \in Beneath
      /\ \A nm \in Control : ~Below(nm, t)
      /\ \A nm \in Control : Has(nm, t) => nm = "extract"
  <2>1. "extract" \in TaskOps /\ "extract" \in Control
    BY SMT DEF TaskOps, Control
  <2> QED
    BY <1>1, <2>1, HeadArg, Zenon DEF Nodes
<1>3. Waits(t)
  BY <1>2, Zenon DEF Waits
<1>4. /\ Works(t) /\ ~Has("run", t) /\ Alive(t) /\ fut[t].state \notin {READY, CLEANED}
      /\ n \in Nodes /\ Awaits(t, n) /\ Alive(n) /\ fut[n].state = READY /\ fut[n].waker = Resume(n)
  BY <1>2, <1>3, Waiting, Zenon DEF Linked
<1>5. n # t /\ n \notin Roots /\ n # None
  BY <1>2, <1>4, NotItself, OneCaller, NoneAssumption, SMT
<1>6. TaskOK(t) /\ NodeOK(t) /\ SitesOK(t) /\ NodeOK(n) /\ OwnerOK(t)
      /\ (n \in Tasks => TaskOK(n) /\ LinkOK(n) /\ SitesOK(n) /\ AwaitingOK(n))
  BY <1>2, <1>4, Zenon DEF IInv
<1>7. /\ k > 0 /\ k \in Nat /\ k <= Last(t) + 1 /\ Last(t) \in Nat /\ Len(ran[t]) = Last(t) - k + 1
      /\ frame[t].mode \in {"running", "detached"} /\ (frame[t].mode = "running" => fut[t].state # CANCELLED)
  <2>1. k \in Nat /\ k <= Last(t) + 1 /\ Last(t) \in Nat /\ frame[t].mode \in Modes
    BY <1>2, Shapes, Sites, Zenon
  <2>2. ~Has("on_drop", t) /\ ~Has("cleanup", t)
    BY <1>2, SMT DEF Control
  <2>3. k > 0 /\ Len(ran[t]) = Last(t) - k + 1 /\ frame[t].mode \notin {"new", "cancelled"}
        /\ (frame[t].mode = "running" => fut[t].state # CANCELLED)
    BY <1>4, <1>6, <2>2, SMT DEF TaskOK, WorksOK
  <2> QED
    BY <2>1, <2>3, SMT DEF Modes
<1>8. /\ todo' \in Seq(AllOps) /\ Ordered' /\ ~Running("drop")' /\ ~Running("on_drop")'
      /\ \A nm, x : Has(nm, x)' <=> (nm = "run" /\ x = t) \/ Below(nm, x)
  <2>1. Fits("run", t)
    BY <1>2, FitsOn, SMT
  <2>2. Op("run", t) \in AllOps
    BY <1>2, SMT DEF Op, AllOps, TaskOps
  <2>3. Typed /\ Ordered /\ todo # <<>> /\ Then(<<Op("run", t)>>)
    BY <1>1, <1>2
  <2>4. /\ todo' \in Seq(AllOps) /\ Ordered' /\ \A nm : Running(nm)' <=> nm = "run"
        /\ \A nm, x : Has(nm, x)' <=> (nm = "run" /\ x = t) \/ Below(nm, x)
    BY <2>1, <2>2, <2>3, Then1, SMT
  <2> QED
    BY <2>4, SMT
<1>9. /\ frame' \in [Tasks -> Frames] /\ frame'[t].k = k - 1 /\ frame'[t].mode = frame[t].mode
            /\ frame'[t].awaiting = None
      /\ \A u \in Tasks : u # t => frame'[u] = frame[u]
  <2>1. frame \in [Tasks -> Frames] /\ frame[t] \in Frames /\ k - 1 \in Nat
    BY <1>2, <1>7, SMT DEF Typed
  <2>2. frame' = [frame EXCEPT ![t] = [frame[t] EXCEPT !.awaiting = None, !.k = k - 1]]
    BY <1>1
  <2> SUFFICES ASSUME NEW f \in Frames, f = frame[t], NEW h \in Nat, h = k - 1
               PROVE  /\ [f EXCEPT !.awaiting = None, !.k = h] \in Frames /\ [f EXCEPT !.awaiting = None, !.k = h].k = h
                      /\ [f EXCEPT !.awaiting = None, !.k = h].mode = f.mode
                      /\ [f EXCEPT !.awaiting = None, !.k = h].awaiting = None
    BY <1>2, <2>1, <2>2
  <2>3. [f EXCEPT !.awaiting = None, !.k = h] \in Frames
    BY Zenon DEF Frames
  <2> QED
    BY <2>3, SMT DEF Frames
<1>10. /\ \A x : x # n => (Alive(x)' <=> Alive(x)) /\ (Drops(x)' <=> Drops(x)) /\ (Resumes(x)' <=> Resumes(x))
       /\ \A x : (Reaps(x)' <=> Reaps(x)) /\ (Works(x)' <=> Works(x))
       /\ ~Alive(n)' /\ ~Drops(n)' /\ ~Resumes(n)' /\ live' \subseteq live
  BY <1>1, <1>4, BlockNames, SMT DEF Alive, Drops, Resumes, Reaps, Works
<1>11. ASSUME NEW x \in Nodes \ {t, n} PROVE Still(x)
  BY <1>1, <1>2, <1>8, <1>9, <1>10, Zenon DEF Still, Alike
<1>12. Untouched({t, n})
  BY <1>1, <1>11, Zenon DEF Untouched
<1>13. Typed'
  <2>1. ASSUME NEW u \in Tasks PROVE frame'[u].k <= Last(u)' + 1
    <3>1. Last(u)' = Last(u) /\ frame[u].k <= Last(u) + 1
      BY <1>1, <1>2, SameSites, Shapes, Zenon
    <3> QED
      BY <1>7, <1>9, <3>1, SMT
  <2> QED
    BY <1>1, <1>2, <1>8, <1>9, <1>10, <2>1, SMT DEF Typed
<1>14. \A x \in Nodes : DropOK(x)'
  BY <1>8, NoDrop
<1>15. /\ \A nm \in Control : Has(nm, t)' => nm = "run"
       /\ Has("run", t)' /\ ~Has("reap", t)' /\ (Has("reap", t)' <=> Has("reap", t))
             /\ (Has("release", t)' <=> Has("release", t))
       /\ (Has("drop", t)' <=> Has("drop", t)) /\ (Has("complete", t)' <=> Has("complete", t))
  <2>1. "reap" \notin Beneath /\ "release" \notin {"run", "extract"} /\ "drop" \notin {"run", "extract"}
        /\ "complete" \notin {"run", "extract"} /\ "reap" \notin {"run", "extract"}
    BY SMT DEF Beneath
  <2> QED
    BY <1>2, <1>8, <2>1, Zenon
<1>16. ~Has("call", t)' /\ ~Has("poll", t)' /\ ~Has("extract", t)' /\ ~Has("publish", t)' /\ ~Has("end", t)'
       /\ ~Has("on_drop", t)' /\ ~Has("cleanup", t)' /\ ~Quiet(t)' /\ ~Has("call", t) /\ ~Has("on_drop", t)
             /\ ~Has("cleanup", t)
  BY <1>2, <1>15, SMT DEF Control, Quiet
<1>17. TaskOK(t)'
  <2>1. NewOK(t)' /\ ModeOK(t)'
    BY <1>1, <1>6, <1>7, <1>9, SMT DEF TaskOK, NewOK, ModeOK
  <2>2. WorksOK(t)'
    <3>1. Last(t)' = Last(t)
      BY <1>1, SMT DEF Last
    <3> QED
      BY <1>1, <1>4, <1>7, <1>9, <1>10, <1>5, <1>15, <1>16, <3>1, SMT DEF WorksOK
  <2>3. DoneOK(t)'
    BY <1>4, <1>10, Zenon DEF DoneOK
  <2>4. OpsOK(t)'
    BY <1>4, <1>10, <1>15, <1>16, Zenon DEF OpsOK
  <2>5. RanOK(t)'
    BY <1>1, <1>6, Zenon DEF TaskOK, RanOK, Last
  <2> QED
    BY <2>1, <2>2, <2>3, <2>4, <2>5, Zenon DEF TaskOK
<1>18. Visible(t) /\ NodeOK(t)'
  <2>1. Visible(t)
    BY <1>1, <1>5, <1>10, <1>15, <1>16, Zenon DEF Visible
  <2>2. Placid(t)
    BY <1>1, <1>5, <1>9, <1>10, <1>15, <1>16, <2>1, SMT DEF Placid
  <2> QED
    BY <1>2, <1>4, <1>6, <2>1, <2>2, PlacidNode, SMT
<1>19. /\ ~Has("call", n) /\ ~Has("call", n)' /\ ~Has("release", n)' /\ Quiet(n) /\ Quiet(n)' /\ ~Has("complete", n)'
             /\ ~Has("reap", n)'
       /\ \A nm \in Control : ~Has(nm, n) /\ ~Has(nm, n)'
  <2>1. Quiet(n) /\ ~Has("release", n)
    BY <1>4, <1>6, SMT DEF NodeOK, FutureOK, READY, CANCELLED, DETACHED, CLEANED
  <2>2. \A nm : Has(nm, n)' => Has(nm, n)
    BY <1>2, <1>5, <1>8, Zenon
  <2>3. \A nm \in Control : ~Has(nm, n) /\ ~Has(nm, n)'
    BY <2>1, <2>2, Zenon DEF Quiet
  <2>4. "complete" \notin Beneath /\ "reap" \notin Beneath /\ "complete" # "extract" /\ "reap" # "extract"
              /\ "call" \in Control
    BY SMT DEF Beneath, Control
  <2> QED
    BY <1>2, <2>1, <2>2, <2>3, <2>4, Zenon DEF Quiet
<1>20. ~Idles(t) /\ ~Idles(n) /\ ~Reaps(n) /\ (n \in Tasks => ~Works(n) /\ frame[n].mode # "new") /\ n \notin reg
  <2>1. Resume(n) # Reap(n) /\ PENDING # READY
    BY BlockNames, SMT DEF PENDING, READY
  <2>2. ~Has("on_drop", n)
    BY <1>19, SMT DEF Control
  <2>3. n \in reg => n \in Leaves
    BY <1>2, SMT DEF Typed
  <2>4. n \notin reg
    BY <1>4, <1>6, <2>2, <2>3, SMT DEF NodeOK, LeafOK, WAITING, READY
  <2> QED
    BY <1>4, <1>6, <2>1, <2>4, Zenon DEF Idles, NodeOK, BlocksOK, TaskOK, WorksOK, NewOK
<1>21. NodeOK(n)'
  <2>1. BlocksOK(n)'
    BY <1>10, <1>20, Zenon DEF BlocksOK
  <2>2. FutureOK(n)'
    BY <1>1, <1>6, <1>10, <1>19, Zenon DEF NodeOK, FutureOK
  <2>3. MineOK(n)'
    <3>1. n \notin mine /\ n \notin fresh
      BY <1>2, <1>5, SMT DEF Typed
    <3> QED
      BY <1>1, <3>1, Zenon DEF MineOK
  <2>4. LeafOK(n)'
    <3>1. ~Has("on_drop", n)'
      BY <1>19, SMT DEF Control
    <3> QED
      BY <1>1, <1>4, <1>10, <1>19, <1>20, <3>1, SMT DEF LeafOK, READY, CANCELLED
  <2> QED
    BY <2>1, <2>2, <2>3, <2>4, Zenon DEF NodeOK
<1>22. OwnerOK(n)'
  BY <1>10, <1>19, Zenon DEF OwnerOK
<1>23. n \in Tasks => TaskOK(n)' /\ Steady(n) /\ LinkOK(n)' /\ SitesOK(n)' /\ AwaitingOK(n)'
  <2> SUFFICES ASSUME n \in Tasks PROVE TaskOK(n)' /\ Steady(n) /\ LinkOK(n)' /\ SitesOK(n)' /\ AwaitingOK(n)'
    OBVIOUS
  <2>1. Steady(n) /\ frame'[n] = frame[n]
    BY <1>5, <1>9, <1>10, <1>19, Zenon DEF Steady, Parks
  <2>2. NewOK(n)' /\ ModeOK(n)'
    BY <1>1, <1>6, <1>20, <2>1, SMT DEF TaskOK, NewOK, ModeOK
  <2>3. WorksOK(n)' /\ DoneOK(n)'
    BY <1>1, <1>6, <1>10, <1>20, <2>1, SMT DEF TaskOK, WorksOK, DoneOK, Last
  <2>4. OpsOK(n)'
    BY <1>19, SMT DEF OpsOK, Control
  <2>5. RanOK(n)'
    BY <1>1, <1>6, Zenon DEF TaskOK, RanOK, Last
  <2>6. ~Waits(n)'
    BY <1>10, <1>19, <1>20, SMT DEF Waits, Parks, Control
  <2>7. LinkOK(n)' /\ SitesOK(n)' /\ AwaitingOK(n)'
    BY <1>1, <1>6, <1>10, <1>20, <2>1, <2>6, DoneKeeps, Zenon
  <2> QED
    BY <2>1, <2>2, <2>3, <2>4, <2>5, <2>7, Zenon DEF TaskOK
<1>24. /\ \A x \in Nodes : Awaits(t, x) => x = n
       /\ \A u \in Tasks : Awaits(u, n) => u = t
  BY <1>2, <1>4, OneCaller, Zenon DEF Awaits
<1>25. OwnerOK(t)'
  <2>1. ~Awaits(t, t)
    BY <1>2, <1>5, <1>24
  <2> QED
    BY <1>2, <1>12, <1>18, <1>23, <2>1, Kept, SMT
<1>26. LinkOK(t)' /\ SitesOK(t)' /\ AwaitingOK(t)'
  <2>1. LinkOK(t)'
    BY <1>16, NoLink, Zenon DEF Waits, Parks
  <2>2. SitesOK(t)'
    <3> SUFFICES ASSUME NEW j \in 1 .. Last(t) + 1, NEW x \in Nodes, At(t, j) = x, ToCall(t, j)'
                 PROVE  Idles(x)' /\ ~Has("call", x)'
      BY <1>1, <1>2, SameSites, Zenon DEF SitesOK
    <3>1. ToCall(t, j)
      BY <1>4, <1>7, <1>9, <1>15, SMT DEF ToCall
    <3>2. Idles(x) /\ ~Has("call", x)
      BY <1>6, <3>1, Zenon DEF SitesOK
    <3>3. Placid(x)
      BY <1>11, <1>20, <3>2, StillPlacid, SMT
    <3> QED
      BY <3>2, <3>3, Zenon DEF Placid, Visible, Idles
  <2>3. AwaitingOK(t)'
    BY <1>9, Zenon DEF AwaitingOK
  <2> QED
    BY <2>1, <2>2, <2>3
<1> QED
  BY <1>2, <1>4, <1>8, <1>12, <1>13, <1>14, <1>17, <1>18, <1>20, <1>21, <1>22, <1>23, <1>24, <1>25, <1>26, Concluded,
     SMT

(* Poll: the task suspends on a pending future, or goes on with a ready     *)
(* one.                                                                     *)
LEMMA PollKeeps ==
  ASSUME IInv, Poll PROVE IInv'
<1> SUFFICES ASSUME NEW t, t = Arg, NEW n, n = Awaited(t) PROVE IInv'
  BY Zenon
<1>1. /\ Running("poll") /\ live' = live \cup {Resume(n)}
      /\ IF fut[n].state = PENDING
           THEN /\ fut' = [fut EXCEPT ![n] = [state |-> WAITING, waker |-> Resume(n)]]
                /\ frame' = [frame EXCEPT ![t].awaiting = n]
                /\ Then(<<>>)
           ELSE /\ fut' = [fut EXCEPT ![n].waker = Resume(n)]
                /\ Then(<<Op("extract", t)>>)
                /\ frame' = frame
      /\ cleanups' = cleanups /\ reg' = reg /\ fresh' = fresh /\ mine' = mine /\ ran' = ran
  BY DEF Poll
<1>2. /\ todo # <<>> /\ Typed /\ Ordered /\ Has("poll", t) /\ t \in Tasks /\ t \in Nodes
      /\ \A nm, x : nm \notin Beneath /\ Has(nm, x) => nm = "poll" /\ x = t
      /\ \A nm, x : Has(nm, x) <=> (nm = "poll" /\ x = t) \/ Below(nm, x)
      /\ \A nm, x : Below(nm, x) => nm \in Beneath
      /\ \A nm \in Control : ~Below(nm, t)
      /\ \A nm \in Control : Has(nm, t) => nm = "poll"
  <2>1. "poll" \in TaskOps /\ "poll" \in Control
    BY SMT DEF TaskOps, Control
  <2> QED
    BY <1>1, <2>1, HeadArg, Zenon DEF Nodes
<1>3. Waits(t)
  BY <1>2, Zenon DEF Waits
<1>4. /\ Works(t) /\ ~Has("run", t) /\ Alive(t) /\ fut[t].state \notin {READY, CLEANED}
      /\ n \in Nodes /\ Awaits(t, n) /\ Alive(n) /\ fut[n].waker = None /\ fut[n].state \in {PENDING, READY}
  <2>1. \A x : ~Has("call", x)
    BY <1>2, SMT DEF Beneath
  <2> QED
    BY <1>2, <1>3, <2>1, Waiting, Zenon DEF Linked
<1>5. n # t /\ n \notin Roots /\ n # None /\ n \notin mine /\ n \notin fresh
  BY <1>2, <1>4, NotItself, OneCaller, NoneAssumption, SMT DEF Typed
<1>6. TaskOK(t) /\ NodeOK(t) /\ SitesOK(t) /\ AwaitingOK(t) /\ NodeOK(n) /\ OwnerOK(t)
      /\ (n \in Tasks => TaskOK(n) /\ LinkOK(n) /\ SitesOK(n) /\ AwaitingOK(n))
  BY <1>2, <1>4, Zenon DEF IInv
<1>7. frame[t].mode \notin {"new", "cancelled"} /\ (frame[t].mode = "running" => fut[t].state # CANCELLED)
      /\ frame[t].k > 0 /\ Len(ran[t]) = Last(t) - frame[t].k + 1
  <2>2. ~Has("on_drop", t) /\ ~Has("cleanup", t)
    BY <1>2, SMT DEF Control
  <2> QED
    BY <1>4, <1>6, <2>2, SMT DEF TaskOK, WorksOK
<1>8. /\ todo' \in Seq(AllOps) /\ Ordered' /\ ~Running("drop")' /\ ~Running("on_drop")'
      /\ \A nm, x : x # t => (Has(nm, x)' <=> Has(nm, x))
      /\ \A nm \in Control : Has(nm, t)' => nm = "extract"
      /\ \A nm : nm \notin Control => (Has(nm, t)' <=> Has(nm, t))
      /\ (fut[n].state = PENDING => Quiet(t)') /\ (fut[n].state # PENDING => Has("extract", t)')
  <2>0. Typed /\ Ordered /\ todo # <<>> /\ "poll" \in Control /\ "extract" \in Control /\ "drop" \notin Beneath
              /\ "on_drop" \notin Beneath
    BY <1>2, SMT DEF Control, Beneath
  <2>1. CASE fut[n].state = PENDING
    <3>1. Then(<<>>)
      BY <1>1, <2>1
    <3>2. /\ todo' \in Seq(AllOps) /\ Ordered' /\ \A nm : Running(nm)' => nm \in Beneath
          /\ \A nm, x : Has(nm, x)' <=> Below(nm, x)
      BY <2>0, <3>1, Popped, SMT
    <3> QED
      BY <1>2, <2>0, <2>1, <3>2, Zenon DEF Quiet
  <2>2. CASE fut[n].state # PENDING
    <3>1. Then(<<Op("extract", t)>>)
      BY <1>1, <2>2
    <3>2. Fits("extract", t)
      BY <1>2, FitsOn, SMT
    <3>3. Op("extract", t) \in AllOps
      BY <1>2, SMT DEF Op, AllOps, TaskOps
    <3>4. /\ todo' \in Seq(AllOps) /\ Ordered' /\ (\A nm : Running(nm)' <=> nm = "extract")
          /\ \A nm, x : Has(nm, x)' <=> (nm = "extract" /\ x = t) \/ Below(nm, x)
      BY <2>0, <3>1, <3>2, <3>3, Then1, SMT
    <3>5. "drop" # "extract" /\ "on_drop" # "extract"
      BY SMT
    <3> QED
      BY <1>2, <2>0, <2>2, <3>4, <3>5, Zenon
  <2> QED
    BY <2>1, <2>2
<1>9. /\ frame' \in [Tasks -> Frames] /\ frame'[t].k = frame[t].k /\ frame'[t].mode = frame[t].mode
      /\ frame'[t].awaiting = IF fut[n].state = PENDING THEN n ELSE frame[t].awaiting
      /\ \A u \in Tasks : u # t => frame'[u] = frame[u]
  <2>0. frame \in [Tasks -> Frames] /\ frame[t] \in Frames
    BY <1>2, SMT DEF Typed
  <2>1. CASE fut[n].state # PENDING
    BY <1>1, <2>0, <2>1
  <2>2. CASE fut[n].state = PENDING
    <3>2. frame' = [frame EXCEPT ![t] = [frame[t] EXCEPT !.awaiting = n]]
      BY <1>1, <2>2
    <3> SUFFICES ASSUME NEW f \in Frames, f = frame[t]
                 PROVE  /\ [f EXCEPT !.awaiting = n] \in Frames /\ [f EXCEPT !.awaiting = n].k = f.k
                        /\ [f EXCEPT !.awaiting = n].mode = f.mode
                        /\ [f EXCEPT !.awaiting = n].awaiting = n
      BY <1>2, <2>0, <2>2, <3>2
    <3>3. [f EXCEPT !.awaiting = n] \in Frames
      BY <1>4, Zenon DEF Frames
    <3> QED
      BY <3>3, SMT DEF Frames
  <2> QED
    BY <2>1, <2>2
<1>10. /\ fut' \in [Nodes -> Futures] /\ fut'[n].waker = Resume(n)
       /\ fut'[n].state = IF fut[n].state = PENDING THEN WAITING ELSE READY
       /\ \A x \in Nodes : x # n => fut'[x] = fut[x]
  <2>0. fut \in [Nodes -> Futures] /\ fut[n] \in Futures
    BY <1>2, <1>4, SMT DEF Typed
  <2>1. Resume(n) \in Wakers
    BY <1>4, SMT DEF Wakers
  <2>2. CASE fut[n].state = PENDING
    <3>1. [state |-> WAITING, waker |-> Resume(n)] \in Futures
      BY <2>1, SMT DEF Futures, WAITING, PENDING, CLEANED
    <3>2. fut' = [fut EXCEPT ![n] = [state |-> WAITING, waker |-> Resume(n)]]
      BY <1>1, <2>2
    <3> QED
      BY <1>4, <2>0, <2>2, <3>1, <3>2, SMT
  <2>3. CASE fut[n].state # PENDING
    <3>1. fut' = [fut EXCEPT ![n] = [fut[n] EXCEPT !.waker = Resume(n)]]
      BY <1>1, <2>3
    <3>2. \A f \in Futures : /\ [f EXCEPT !.waker = Resume(n)] \in Futures
                             /\ [f EXCEPT !.waker = Resume(n)].waker = Resume(n)
                             /\ [f EXCEPT !.waker = Resume(n)].state = f.state
      <4> SUFFICES ASSUME NEW f \in Futures
                   PROVE /\ [f EXCEPT !.waker = Resume(n)] \in Futures
                         /\ [f EXCEPT !.waker = Resume(n)].waker = Resume(n)
                         /\ [f EXCEPT !.waker = Resume(n)].state = f.state
        OBVIOUS
      <4>1. [f EXCEPT !.waker = Resume(n)] \in Futures
        BY <2>1, Zenon DEF Futures
      <4> QED
        BY <4>1, SMT DEF Futures
    <3> QED
      BY <1>4, <2>0, <2>3, <3>1, <3>2, SMT
  <2> QED
    BY <2>2, <2>3
<1>11. /\ \A x : (Alive(x)' <=> Alive(x)) /\ (Drops(x)' <=> Drops(x)) /\ (Reaps(x)' <=> Reaps(x))
             /\ (Works(x)' <=> Works(x))
       /\ \A x : x # n => (Resumes(x)' <=> Resumes(x))
       /\ Resumes(n)' /\ live' \subseteq Blocks
  <2>1. Resume(n) \in Blocks /\ live \subseteq Blocks
    BY <1>2, <1>4, SMT DEF Blocks, Typed
  <2> QED
    BY <1>1, <1>4, <2>1, BlockNames, SMT DEF Alive, Drops, Resumes, Reaps, Works
<1>12. ASSUME NEW x \in Nodes \ {t, n} PROVE Still(x)
  BY <1>1, <1>2, <1>8, <1>9, <1>10, <1>11, Zenon DEF Still, Alike
<1>13. Untouched({t, n})
  BY <1>1, <1>12, Zenon DEF Untouched
<1>14. Typed'
  <2>1. ASSUME NEW u \in Tasks PROVE frame'[u].k <= Last(u)' + 1
    <3>1. Last(u)' = Last(u) /\ frame[u].k <= Last(u) + 1
      BY <1>1, <1>2, SameSites, Shapes, Zenon
    <3> QED
      BY <1>9, <3>1, SMT
  <2> QED
    BY <1>1, <1>2, <1>8, <1>9, <1>10, <1>11, <2>1, SMT DEF Typed
<1>15. \A x \in Nodes : DropOK(x)'
  BY <1>8, NoDrop
<1>16. ~Has("call", t)' /\ ~Has("poll", t)' /\ ~Has("run", t)' /\ ~Has("publish", t)' /\ ~Has("end", t)'
       /\ ~Has("on_drop", t)' /\ ~Has("cleanup", t)' /\ ~Has("call", t) /\ ~Has("on_drop", t)
       /\ (Has("reap", t)' <=> Has("reap", t)) /\ (Has("release", t)' <=> Has("release", t))
       /\ (Has("drop", t)' <=> Has("drop", t)) /\ (Has("complete", t)' <=> Has("complete", t))
  BY <1>2, <1>8, SMT DEF Control
<1>17. TaskOK(t)'
  <2>0. Last(t)' = Last(t) /\ Awaited(t)' = n
    <3>1. Last(t)' = Last(t)
      BY <1>1, SMT DEF Last
    <3> QED
      BY <1>1, <1>9, <3>1, Zenon DEF Awaited
  <2>1. NewOK(t)' /\ ModeOK(t)'
    BY <1>1, <1>5, <1>6, <1>7, <1>9, <1>10, <1>2, SMT DEF TaskOK, NewOK, ModeOK
  <2>2. WorksOK(t)'
    BY <1>1, <1>4, <1>7, <1>9, <1>10, <1>11, <1>5, <1>2, <1>16, <2>0, SMT DEF WorksOK
  <2>3. DoneOK(t)'
    BY <1>4, <1>11, Zenon DEF DoneOK
  <2>4. OpsOK(t)'
    <3>1. Has("reap", t) => Alive(t) /\ fut[t].state = READY
      BY <1>6 DEF TaskOK, OpsOK
    <3> QED
      BY <1>4, <1>11, <1>16, <3>1, Zenon DEF OpsOK
  <2>5. RanOK(t)'
    BY <1>1, <1>6, Zenon DEF TaskOK, RanOK, Last
  <2> QED
    BY <2>1, <2>2, <2>3, <2>4, <2>5, Zenon DEF TaskOK
<1>18. Visible(t) /\ NodeOK(t)'
  <2>1. Visible(t)
    BY <1>1, <1>2, <1>5, <1>10, <1>11, <1>16, Zenon DEF Visible
  <2>2. Placid(t)
    BY <1>1, <1>2, <1>5, <1>9, <1>11, <1>16, <2>1, SMT DEF Placid
  <2> QED
    BY <1>2, <1>4, <1>6, <2>1, <2>2, PlacidNode, SMT
<1>19. \A nm : Has(nm, n)' <=> Has(nm, n)
  BY <1>5, <1>8
<1>20. ~Idles(t) /\ ~Idles(n) /\ ~Has("call", n) /\ ~Has("release", n) /\ ~Has("reap", n) /\ ~Has("on_drop", n)
  <2>1. \A nm : nm \notin Beneath /\ Has(nm, n) => FALSE
    BY <1>2, <1>5
  <2>2. ~Has("release", n)
    BY <1>4, <1>6, SMT DEF NodeOK, FutureOK, PENDING, READY, CANCELLED, DETACHED, CLEANED
  <2> QED
    BY <1>4, <2>1, <2>2, SMT DEF Idles, Beneath
<1>21. NodeOK(n)'
  <2>0. /\ PENDING # WAITING /\ PENDING # ORPHANED /\ READY # ORPHANED /\ WAITING # ORPHANED /\ READY # WAITING
              /\ READY # PENDING
        /\ WAITING <= WAITING /\ WAITING <= CANCELLED /\ READY <= CANCELLED /\ ~(READY <= WAITING)
              /\ PENDING <= WAITING
        /\ PENDING \notin {CANCELLED, DETACHED, CLEANED} /\ READY \notin {CANCELLED, DETACHED, CLEANED}
              /\ WAITING \notin {CANCELLED, DETACHED, CLEANED}
        /\ Resume(n) # Reap(n) /\ Resume(n) # None /\ None # Reap(n)
    BY <1>4, NullAssumption, BlockNames, SMT DEF PENDING, WAITING, READY, CANCELLED, DETACHED, ORPHANED, CLEANED
  <2>1. BlocksOK(n)'
    <3>1. Drops(n) /\ ~Reaps(n)
      BY <1>4, <1>6, <2>0, Zenon DEF NodeOK, BlocksOK
    <3>2. fut'[n].state # ORPHANED
      BY <1>10, <2>0
    <3> QED
      BY <1>4, <1>10, <1>11, <2>0, <3>1, <3>2, Zenon DEF BlocksOK
  <2>2. FutureOK(n)'
    <3>1. Quiet(n)' <=> Quiet(n)
      BY <1>19, Zenon DEF Quiet
    <3>2. fut[n].state # PENDING => fut[n].state = READY
      BY <1>4
    <3> QED
      BY <1>6, <1>10, <1>11, <1>19, <1>20, <2>0, <3>1, <3>2, Zenon DEF NodeOK, FutureOK
  <2>3. MineOK(n)'
    BY <1>1, <1>5, Zenon DEF MineOK
  <2>4. n \in Leaves => LeafOK(n)'
    <3>1. CASE fut[n].state = PENDING
      BY <1>1, <1>4, <1>6, <1>10, <1>11, <1>19, <1>20, <2>0, <3>1, Zenon DEF NodeOK, LeafOK
    <3>2. CASE fut[n].state = READY
      <4>1. fut'[n].state = READY
        BY <1>10, <2>0, <3>2
      <4> QED
        BY <1>1, <1>4, <1>6, <1>11, <1>19, <1>20, <2>0, <3>2, <4>1, Zenon DEF NodeOK, LeafOK
    <3> QED
      BY <1>4, <3>1, <3>2
  <2> QED
    BY <2>1, <2>2, <2>3, <2>4, Zenon DEF NodeOK
<1>22. Awaits(t, n)' /\ (Works(t)' /\ (fut[n].state = PENDING => Parks(t)') /\ (fut[n].state # PENDING => ~Parks(t)'))
  <2>1. Awaits(t, n)'
    <3>1. Last(t)' = Last(t)
      BY <1>1, SMT DEF Last
    <3> QED
      BY <1>1, <1>4, <1>9, <3>1, Zenon DEF Awaits, Awaited
  <2>2. "extract" \in Control
    BY SMT DEF Control
  <2> QED
    BY <1>4, <1>8, <1>11, <2>1, <2>2, Zenon DEF Parks, Quiet
<1>23. OwnerOK(n)'
  <2>1. fut'[n].state = WAITING => fut[n].state = PENDING
    BY <1>10, SMT DEF WAITING, READY
  <2>2. fut'[n].state \in {PENDING, READY} => fut[n].state # PENDING
    BY <1>10, SMT DEF WAITING, READY, PENDING
  <2> QED
    BY <1>2, <1>8, <1>19, <1>20, <1>22, <2>1, <2>2, Zenon DEF OwnerOK
<1>24. /\ \A x \in Nodes : Awaits(t, x) => x = n
       /\ \A u \in Tasks : Awaits(u, n) => u = t
       /\ \A x \in Nodes : Awaits(t, x)' => x = n
  BY <1>2, <1>4, <1>22, OneCaller, Zenon DEF Awaits
<1>25. ASSUME n \in Tasks PROVE TaskOK(n)' /\ Steady(n) /\ LinkOK(n)' /\ SitesOK(n)' /\ AwaitingOK(n)'
  <2>0. n \in Tasks
    BY <1>25
  <2>1. Steady(n) /\ frame'[n] = frame[n]
    BY <1>5, <1>9, <1>11, <1>19, <2>0, Zenon DEF Steady, Parks, Quiet
  <2>2. frame[n].mode = "running" /\ ~Has("end", n)
    BY <1>4, <1>6, <1>20, <1>2, <2>0, Shapes, SMT DEF TaskOK, NewOK, ModeOK, OpsOK, Modes, PENDING, READY, CANCELLED,
       DETACHED
  <2>3. NewOK(n)' /\ ModeOK(n)'
    BY <1>10, <2>1, <2>2, SMT DEF NewOK, ModeOK, WAITING, READY, CANCELLED
  <2>4. WorksOK(n)' /\ DoneOK(n)'
    <3>1. Last(n)' = Last(n) /\ Awaited(n)' = Awaited(n)
      BY <1>1, <2>0, <2>1, SameSites
    <3>2. ~Has("cleanup", n)
      BY <1>4, <1>6, <2>0, SMT DEF TaskOK, OpsOK, PENDING, READY, CANCELLED
    <3>3. WorksOK(n)'
      BY <1>1, <1>4, <1>6, <1>10, <1>11, <1>19, <1>20, <2>0, <2>1, <2>2, <3>1, <3>2, SMT DEF TaskOK, WorksOK,
         WAITING, READY, CLEANED, PENDING, CANCELLED
    <3>4. DoneOK(n)'
      BY <1>1, <1>4, <1>6, <1>10, <1>11, <1>19, <1>20, <2>0, <2>1, <2>2, <3>1, SMT DEF TaskOK, DoneOK, WAITING,
         READY, PENDING
    <3> QED
      BY <3>3, <3>4
  <2>5. OpsOK(n)'
    <3>1. ~Has("cleanup", n) /\ (Has("publish", n) => fut[n].state <= WAITING)
      BY <1>4, <1>6, <2>0, SMT DEF TaskOK, OpsOK, PENDING, READY, CANCELLED
    <3>2. (Has("publish", n) => fut'[n].state <= WAITING) /\ fut'[n].state # CLEANED
      BY <1>4, <1>10, <3>1, SMT DEF PENDING, WAITING, READY, CLEANED
    <3> QED
      BY <1>6, <1>11, <1>19, <1>20, <2>0, <2>1, <3>1, <3>2, Zenon DEF TaskOK, OpsOK
  <2>6. RanOK(n)'
    BY <1>1, <1>6, <2>0, Zenon DEF TaskOK, RanOK, Last
  <2>7. LinkOK(n)'
    <3>1. \A x \in Nodes : Awaits(n, x) => Visible(x)
      <4> SUFFICES ASSUME NEW x \in Nodes, Awaits(n, x) PROVE Visible(x)
        OBVIOUS
      <4>1. x # n
        BY <2>0, NotItself, Zenon
      <4> QED
        BY <1>12, <1>18, <4>1, StillPlacid, SMT DEF Placid
    <3> QED
      BY <1>1, <1>6, <2>0, <2>1, <3>1, SteadyLink, Zenon
  <2>8. SitesOK(n)' /\ AwaitingOK(n)'
    BY <1>6, <1>13, <1>20, <2>0, <2>1, Kept, SMT
  <2> QED
    BY <2>1, <2>3, <2>4, <2>5, <2>6, <2>7, <2>8, Zenon DEF TaskOK
<1>26. OwnerOK(t)'
  <2>1. ~Awaits(t, t)
    BY <1>2, <1>5, <1>24
  <2> QED
    BY <1>2, <1>13, <1>18, <1>25, <2>1, Kept, SMT
<1>27. LinkOK(t)' /\ SitesOK(t)' /\ AwaitingOK(t)'
  <2>1. LinkOK(t)'
    <3>1. Linked(t, n)'
      <4>1. CASE fut[n].state = PENDING
        BY <1>4, <1>8, <1>9, <1>10, <1>11, <1>16, <4>1, SMT DEF Linked, Quiet, Control
      <4>2. CASE fut[n].state # PENDING
        BY <1>4, <1>8, <1>9, <1>10, <1>11, <1>16, <1>22, <4>2, Zenon DEF Linked
      <4> QED
        BY <4>1, <4>2
    <3> QED
      BY <1>24, <3>1, Zenon DEF LinkOK
  <2>2. SitesOK(t)'
    <3> SUFFICES ASSUME NEW j \in 1 .. Last(t) + 1, NEW x \in Nodes, At(t, j) = x, ToCall(t, j)'
                 PROVE  Idles(x)' /\ ~Has("call", x)'
      BY <1>1, <1>2, SameSites, Zenon DEF SitesOK
    <3>1. ToCall(t, j)
      BY <1>4, <1>7, <1>9, <1>16, SMT DEF ToCall
    <3>2. Idles(x) /\ ~Has("call", x)
      BY <1>6, <3>1, Zenon DEF SitesOK
    <3>3. Placid(x)
      BY <1>12, <1>20, <3>2, StillPlacid, SMT
    <3> QED
      BY <3>2, <3>3, Zenon DEF Placid, Visible, Idles
  <2>3. AwaitingOK(t)'
    <3>1. CASE fut[n].state = PENDING
      <4> SUFFICES ASSUME NEW k, k = frame[t].k PROVE AwaitingOK(t)'
        OBVIOUS
      <4>1. k \in 1 .. Last(t) + 1 /\ n = At(t, k)
        BY <1>2, <1>4, Sites, Zenon
      <4>2. k \in 1 .. Last(t)' + 1 /\ n = At(t, k)' /\ k >= frame'[t].k /\ frame'[t].awaiting = n
        BY <1>1, <1>2, <1>9, <3>1, <4>1, SameSites, SMT
      <4> QED
        BY <4>2, Zenon DEF AwaitingOK
    <3>2. CASE fut[n].state # PENDING
      BY <1>1, <1>2, <1>6, <3>2, SameAwaiting, Zenon
    <3> QED
      BY <3>1, <3>2
  <2> QED
    BY <2>1, <2>2, <2>3
<1> QED
  BY <1>2, <1>4, <1>8, <1>13, <1>14, <1>15, <1>17, <1>18, <1>20, <1>21, <1>23, <1>24, <1>25, <1>26, <1>27, Concluded,
     SMT

(* A future that is completed once its frame is done.                       *)
LEMMA CompletedNode ==
  ASSUME IInv, NEW n \in Nodes, SetState(n, READY), Alive(n), fut[n].state <= WAITING, n \notin reg,
         cleanups' = cleanups, frame' = frame, live' = live, reg' = reg, fresh' = fresh, mine' = mine, ran' = ran,
         n \in Tasks => ~Works(n) /\ frame[n].mode = "running",
         \A nm \in Control : ~Has(nm, n)', ~Has("release", n)', ~Has("complete", n)',
         Has("reap", n)' => fut[n].waker = Reap(n)
  PROVE  NodeOK(n)' /\ (n \in Tasks => TaskOK(n)' /\ LinkOK(n)' /\ SitesOK(n)' /\ AwaitingOK(n)')
<1>1. Typed /\ NodeOK(n) /\ (n \in Tasks => TaskOK(n))
  BY DEF IInv
<1>2. /\ READY \in 0 .. 6 /\ READY # PENDING /\ READY # WAITING /\ READY <= CANCELLED /\ READY # ORPHANED
            /\ ~(READY <= WAITING)
      /\ READY \notin {CANCELLED, DETACHED, CLEANED}
      /\ "call" \in Control /\ "on_drop" \in Control
      /\ \A s \in 0 .. 6 : s <= WAITING => s \in {PENDING, WAITING} /\ s # ORPHANED
  BY SMT DEF PENDING, WAITING, READY, CANCELLED, DETACHED, ORPHANED, CLEANED, Control
<1>3. fut'[n].state = READY /\ fut'[n].waker = fut[n].waker /\ fut[n].state \in {PENDING, WAITING}
            /\ fut[n].state # ORPHANED
  <2>1. fut'[n].state = READY /\ fut'[n].waker = fut[n].waker
    BY <1>1, <1>2, StateSet, Zenon
  <2>2. fut[n].state \in 0 .. 6
    BY <1>1, Shapes, Zenon
  <2> QED
    BY <1>2, <2>1, <2>2, Zenon
<1>4. /\ (Alive(n)' <=> Alive(n)) /\ (Drops(n)' <=> Drops(n)) /\ (Resumes(n)' <=> Resumes(n))
            /\ (Reaps(n)' <=> Reaps(n)) /\ (Works(n)' <=> Works(n))
  BY Zenon DEF Alive, Drops, Resumes, Reaps, Works
<1>5. NodeOK(n)'
  <2>1. BlocksOK(n)'
    BY <1>1, <1>2, <1>3, <1>4, Zenon DEF NodeOK, BlocksOK
  <2>2. FutureOK(n)'
    BY <1>1, <1>2, <1>3, <1>4, Zenon DEF NodeOK, FutureOK, Quiet
  <2>3. MineOK(n)'
    <3>1. n \notin fresh
      <4>1. n \in fresh => n \in Tasks /\ frame[n].mode = "new"
        BY <1>1, Zenon DEF NodeOK, MineOK
      <4> QED
        BY <4>1, SMT
    <3> QED
      BY <1>1, <1>3, <1>4, <3>1, Zenon DEF NodeOK, MineOK
  <2>4. LeafOK(n)'
    BY <1>2, <1>3, Zenon DEF LeafOK
  <2> QED
    BY <2>1, <2>2, <2>3, <2>4, Zenon DEF NodeOK
<1>6. ASSUME n \in Tasks PROVE TaskOK(n)' /\ LinkOK(n)' /\ SitesOK(n)' /\ AwaitingOK(n)'
  <2>0. n \in Tasks /\ frame[n].mode = "running" /\ ~Works(n) /\ ~Works(n)'
    BY <1>4, <1>6
  <2>1. /\ ~Has("call", n)' /\ ~Has("poll", n)' /\ ~Has("extract", n)' /\ ~Has("run", n)' /\ ~Has("publish", n)'
              /\ ~Has("end", n)'
        /\ ~Has("on_drop", n)' /\ ~Has("cleanup", n)'
    BY SMT DEF Control
  <2>2. NewOK(n)' /\ ModeOK(n)'
    BY <1>2, <1>3, <2>0, SMT DEF NewOK, ModeOK
  <2>3. WorksOK(n)'
    BY <2>0, Zenon DEF WorksOK
  <2>4. DoneOK(n)'
    <3>1. Len(ran[n]) = Last(n)
      BY <1>1, <2>0, SMT DEF TaskOK, DoneOK
    <3> QED
      BY <1>3, <3>1, SMT DEF DoneOK, Last
  <2>5. OpsOK(n)'
    BY <1>3, <1>4, <2>1, Zenon DEF OpsOK
  <2>6. RanOK(n)'
    BY <1>1, <2>0, Zenon DEF TaskOK, RanOK, Last
  <2>7. ~Waits(n)' /\ frame[n].mode # "new"
    BY <2>0, <2>1, SMT DEF Waits, Parks
  <2>8. LinkOK(n)' /\ SitesOK(n)' /\ AwaitingOK(n)'
    BY <1>1, <2>0, <2>7, DoneKeeps, Zenon
  <2> QED
    BY <2>2, <2>3, <2>4, <2>5, <2>6, <2>8, Zenon DEF TaskOK
<1> QED
  BY <1>5, <1>6

(* Publish: a future completes, and its waker resumes the one awaiter it    *)
(* has or frees the spawned task.                                           *)
LEMMA PublishKeeps ==
  ASSUME IInv, Publish PROVE IInv'
<1> SUFFICES ASSUME NEW n, n = Arg, NEW o, o = Head(todo)[1] PROVE IInv'
  BY Zenon
<1>1. /\ o \in {"publish", "complete"} /\ Running(o) /\ SetState(n, Completed(n))
            /\ (IF fut[n].state = WAITING THEN Then(Wake(n)) ELSE Then(<<>>))
      /\ cleanups' = cleanups /\ live' = live /\ frame' = frame /\ reg' = reg /\ fresh' = fresh /\ mine' = mine
            /\ ran' = ran
  BY SMT DEF Publish, Running
<1>2. /\ todo # <<>> /\ Typed /\ Ordered /\ Has(o, n) /\ n \in Nodes
      /\ (o = "publish" => n \in Tasks) /\ (o = "complete" => n \in Leaves)
      /\ \A nm, x : nm \notin Beneath /\ Has(nm, x) => nm = o /\ x = n
      /\ \A nm, x : Has(nm, x) <=> (nm = o /\ x = n) \/ Below(nm, x)
      /\ \A nm, x : Below(nm, x) => nm \in Beneath /\ <<nm, x>> \in AllOps
      /\ o = "publish" => \A nm \in Control : ~Below(nm, n)
  <2>1. "publish" \in TaskOps /\ "publish" \in Control
    BY SMT DEF TaskOps, Control
  <2>2. o \in {"call", "poll", "extract", "run", "publish", "end", "on_drop", "cleanup", "drop", "release", "reap", "complete", "user"}
    BY <1>1, SMT
  <2> QED
    BY <1>1, <2>1, <2>2, HeadArg, SMTT(30) DEF Nodes
<1>3. NodeOK(n) /\ OwnerOK(n) /\ (n \in Tasks => TaskOK(n))
  BY <1>2, Zenon DEF IInv
<1>4. /\ Alive(n) /\ fut[n].state <= WAITING /\ n \notin reg
      /\ (n \in Tasks => ~Works(n) /\ frame[n].mode = "running" /\ o = "publish")
  <2>1. CASE o = "publish"
    <3>1. n \in Tasks /\ n \notin Leaves
      BY <1>2, <2>1, CalleeAssumption, SMT
    <3> QED
      BY <1>2, <1>3, <2>1, <3>1, SMT DEF TaskOK, OpsOK, Typed
  <2>2. CASE o = "complete"
    <3>1. n \in Leaves /\ n \notin Tasks
      BY <1>2, <2>2, CalleeAssumption, SMT
    <3> QED
      BY <1>2, <1>3, <2>2, <3>1, SMT DEF NodeOK, LeafOK
  <2> QED
    BY <1>1, <2>1, <2>2
<1>5. SetState(n, READY) /\ fut[n].state \in {PENDING, WAITING}
  <2>1. fut[n].state \in 0 .. 6
    BY <1>2, Shapes, Zenon
  <2> QED
    BY <1>1, <1>4, <2>1, SMT DEF Completed, PENDING, WAITING, READY
<1>6. /\ fut' \in [Nodes -> Futures] /\ fut'[n].state = READY /\ fut'[n].waker = fut[n].waker
      /\ \A x \in Nodes : x # n => fut'[x] = fut[x]
  <2>1. READY \in 0 .. 6
    BY SMT DEF READY
  <2> QED
    BY <1>2, <1>5, <2>1, StateSet, Zenon
<1>7. /\ \A x : (Alive(x)' <=> Alive(x)) /\ (Drops(x)' <=> Drops(x)) /\ (Resumes(x)' <=> Resumes(x))
            /\ (Reaps(x)' <=> Reaps(x)) /\ (Works(x)' <=> Works(x))
      /\ ~Idles(n)
  BY <1>1, <1>4, Zenon DEF Alive, Drops, Resumes, Reaps, Works, Idles
<1>8. /\ \A nm \in Control : ~Below(nm, n)
      /\ ~Has("release", n) /\ ~Below("release", n) /\ ~Below("complete", n) /\ ~Below("reap", n) /\ ~Has("reap", n)
            /\ ~Has("call", n)
      /\ \A x : ~Has("drop", x) /\ ~Has("on_drop", x) /\ ~Has("extract", x) /\ ~Has("call", x) /\ ~Has("reap", x)
      /\ ~Waits(n)
  <2>1. \A nm \in Control : nm # "call" /\ nm # "on_drop" /\ <<nm, n>> \in AllOps => n \in Tasks
    <3>1. \A nm \in Control : nm # "call" /\ nm # "on_drop" => nm \notin NodeOps /\ nm # "complete"
      BY SMT DEF Control, NodeOps
    <3> QED
      BY <3>1, SMT DEF AllOps
  <2>2. "call" \notin Beneath /\ "on_drop" \notin Beneath /\ "complete" \notin Beneath /\ "reap" \notin Beneath
              /\ "drop" \notin Beneath /\ "extract" \notin Beneath
    BY SMT DEF Beneath
  <2>3. \A nm \in Control : ~Below(nm, n)
    BY <1>1, <1>2, <1>4, <2>1, <2>2, Zenon
  <2>4. ~Has("release", n)
    BY <1>3, <1>5, SMT DEF NodeOK, FutureOK, PENDING, WAITING, CANCELLED, DETACHED, CLEANED
  <2>5. \A x : ~Has("drop", x) /\ ~Has("on_drop", x) /\ ~Has("extract", x) /\ ~Has("call", x) /\ ~Has("reap", x)
    BY <1>1, <1>2, <2>2, SMT
  <2>6. ~Waits(n)
    <3>1. "poll" \in Control /\ ~Below("poll", n) /\ ~Has("poll", n)
      BY <1>1, <1>2, <2>3, SMT DEF Control
    <3>2. Parks(n) => FALSE
      <4> SUFFICES ASSUME Parks(n) PROVE FALSE
        OBVIOUS
      <4>1. Works(n) /\ Quiet(n) /\ "publish" \in Control
        BY SMT DEF Parks, Control
      <4>2. n \in Tasks
        <5>1. Closure(n) \in Blocks
          BY <1>2, <4>1, SMT DEF Works, Typed
        <5>2. \A x : Closure(n) # Fut(x) /\ Closure(n) # Drp(x) /\ Closure(n) # Resume(x) /\ Closure(n) # Reap(x)
                    /\ (Closure(n) = Closure(x) => n = x)
          BY BlockNames, SMT
        <5> QED
          BY <5>1, <5>2, Zenon DEF Blocks
      <4> QED
        BY <1>4, <4>1, <4>2
    <3> QED
      BY <2>5, <3>1, <3>2, Zenon DEF Waits
  <2> QED
    BY <1>2, <2>2, <2>3, <2>4, <2>5, <2>6, Zenon
<1>9. frame' = frame /\ (todo' \in Seq(AllOps) => Typed')
  BY <1>1, <1>2, <1>6, SMT DEF Typed, Last
<1>10. CASE fut[n].state = PENDING
  <2>1. /\ todo' \in Seq(AllOps) /\ Ordered' /\ \A nm : Running(nm)' => nm \in Beneath
        /\ \A nm, x : Has(nm, x)' <=> Below(nm, x)
    <3>1. Then(<<>>) /\ Typed /\ Ordered /\ todo # <<>>
      BY <1>1, <1>2, <1>10, SMT DEF PENDING, WAITING
    <3> QED
      BY <3>1, Popped, SMT
  <2>2. ASSUME NEW x \in Nodes \ {n} PROVE Still(x)
    BY <1>1, <1>2, <1>6, <1>7, <2>1, Zenon DEF Still, Alike
  <2>3. Untouched({n})
    BY <1>1, <2>2, Zenon DEF Untouched
  <2>4. \A x \in Nodes : DropOK(x)'
    <3>1. "drop" \notin Beneath /\ "on_drop" \notin Beneath
      BY SMT DEF Beneath
    <3> QED
      BY <2>1, <3>1, NoDrop, Zenon
  <2>5. NodeOK(n)' /\ (n \in Tasks => TaskOK(n)' /\ LinkOK(n)' /\ SitesOK(n)' /\ AwaitingOK(n)')
    <3>1. (\A nm \in Control : ~Has(nm, n)') /\ ~Has("release", n)' /\ ~Has("complete", n)' /\ ~Has("reap", n)'
      BY <1>8, <2>1, Zenon
    <3> QED
      BY <1>1, <1>2, <1>4, <1>5, <3>1, CompletedNode, SMT
  <2>6. /\ \A nm : nm # o => \A x : Has(nm, x)' <=> Has(nm, x)
        /\ o # "poll" /\ o # "drop" /\ o # "extract" /\ o # "reap" /\ o # "call"
    BY <1>1, <1>2, <2>1, SMT
  <2>7. /\ \A t \in Tasks : Awaits(t, n)' <=> Awaits(t, n)
    BY <1>1, SameSites, Zenon
  <2>8. OwnerOK(n)'
    <3>1. fut'[n].state # WAITING
      BY <1>6, SMT DEF READY, WAITING
    <3>2. n \in mine \/ \E t \in Tasks : Has("poll", t) /\ Awaits(t, n)
      BY <1>3, <1>4, <1>8, <1>10, SMT DEF OwnerOK
    <3> QED
      BY <1>1, <1>8, <2>6, <2>7, <3>1, <3>2, SMT DEF OwnerOK
  <2>9. ASSUME NEW u \in Tasks, Awaits(u, n), Waits(u) PROVE Linked(u, n)'
    <3>1. Linked(u, n)
      BY <1>2, <2>9, Zenon DEF IInv, LinkOK
    <3>2. Has("poll", u) /\ Alive(n) /\ fut[n].waker = None
      BY <1>8, <1>10, <2>9, <3>1, SMT DEF Linked, Waits, PENDING, WAITING, READY
    <3>3. Has("poll", u)' /\ ~Has("on_drop", u)' /\ ~Has("extract", u)' /\ ~Parks(u)'
      <4>1. "poll" \in Control
        BY SMT DEF Control
      <4>2. Has("poll", u)' /\ ~Has("on_drop", u)' /\ ~Has("extract", u)'
        BY <1>1, <1>8, <2>6, <3>2, SMT
      <4> QED
        BY <4>1, <4>2, Zenon DEF Parks, Quiet
    <3> QED
      BY <1>6, <1>7, <3>2, <3>3, Zenon DEF Linked
  <2> QED
    BY <1>2, <1>7, <1>8, <1>9, <2>1, <2>3, <2>4, <2>5, <2>8, <2>9, Concluded, SMT
<1>11. CASE fut[n].state = WAITING /\ fut[n].waker = Reap(n)
  <2>0. n \in Roots /\ n \in Tasks /\ o = "publish"
    BY <1>3, <1>4, <1>11, CalleeAssumption, SMT DEF NodeOK, FutureOK
  <2>1. /\ todo' \in Seq(AllOps) /\ Ordered' /\ \A nm : Running(nm)' <=> nm = "reap"
        /\ \A nm, x : Has(nm, x)' <=> (nm = "reap" /\ x = n) \/ Below(nm, x)
    <3>1. Then(<<Op("reap", n)>>) /\ Typed /\ Ordered /\ todo # <<>>
      BY <1>1, <1>2, <1>11 DEF Wake
    <3>2. Op("reap", n) \in AllOps /\ Fits("reap", n)
      BY <2>0, SMT DEF Op, AllOps, TaskOps, Fits, Control
    <3> QED
      BY <3>1, <3>2, Then1, SMT
  <2>2. ASSUME NEW x \in Nodes \ {n} PROVE Still(x)
    BY <1>1, <1>2, <1>6, <1>7, <2>1, Zenon DEF Still, Alike
  <2>3. Untouched({n})
    BY <1>1, <2>2, Zenon DEF Untouched
  <2>4. \A x \in Nodes : DropOK(x)'
    <3>1. "drop" # "reap" /\ "on_drop" # "reap"
      BY SMT
    <3> QED
      BY <2>1, <3>1, NoDrop, Zenon
  <2>5. NodeOK(n)' /\ (n \in Tasks => TaskOK(n)' /\ LinkOK(n)' /\ SitesOK(n)' /\ AwaitingOK(n)')
    <3>0. "reap" \notin Control /\ "release" # "reap" /\ "complete" # "reap"
      BY SMT DEF Control
    <3>1. (\A nm \in Control : ~Has(nm, n)') /\ ~Has("release", n)' /\ ~Has("complete", n)'
      BY <1>8, <2>1, <3>0, Zenon
    <3> QED
      BY <1>1, <1>2, <1>4, <1>5, <1>11, <3>1, CompletedNode, SMT
  <2>6. OwnerOK(n)'
    <3>1. fut'[n].state # WAITING /\ Has("reap", n)' /\ ~Has("call", n)'
      BY <1>2, <1>6, <1>8, <2>1, SMT DEF READY, WAITING
    <3> QED
      BY <3>1, Zenon DEF OwnerOK
  <2>7. \A u \in Tasks : ~Awaits(u, n)
    BY <2>0, AtRoots, Zenon
  <2> QED
    BY <1>2, <1>7, <1>8, <1>9, <2>1, <2>3, <2>4, <2>5, <2>6, <2>7, Concluded, SMT
<1>12. CASE fut[n].state = WAITING /\ fut[n].waker = Resume(n)
  <2>0. PICK u \in Tasks : Parks(u) /\ Awaits(u, n)
    BY <1>3, <1>4, <1>8, <1>12, SMT DEF OwnerOK
  <2>1. /\ Waits(u) /\ Works(u) /\ ~Has("run", u) /\ Alive(u) /\ fut[u].state \notin {READY, CLEANED}
        /\ frame[u].awaiting = n /\ u \in Nodes /\ u # n /\ n \notin Roots
        /\ TaskOK(u) /\ SitesOK(u) /\ AwaitingOK(u) /\ NodeOK(u) /\ OwnerOK(u)
    <3>1. Waits(u)
      BY <2>0, Zenon DEF Waits
    <3>2. Linked(u, n)
      BY <1>2, <2>0, Zenon DEF IInv, LinkOK
    <3>3. frame[u].awaiting = n
      BY <2>0, <3>2, Zenon DEF Linked
    <3>4. u # n /\ n \notin Roots
      BY <1>2, <2>0, NotItself, OneCaller, Zenon
    <3>5. u \in Nodes
      BY <1>2, Shapes, Zenon
    <3>6. Works(u) /\ ~Has("run", u) /\ Alive(u) /\ fut[u].state \notin {READY, CLEANED}
      BY <3>1, Waiting, Zenon
    <3> QED
      BY <3>1, <3>3, <3>4, <3>5, <3>6, Zenon DEF IInv
  <2>2. Awaiter(n) = u
    <3>1. \A v \in Tasks : frame[v].awaiting = n => v = u
      <4> SUFFICES ASSUME NEW v \in Tasks, frame[v].awaiting = n PROVE v = u
        OBVIOUS
      <4>1. AwaitingOK(v) /\ n # None
        BY <1>2, NoneAssumption, SMT DEF IInv
      <4>2. PICK j \in 1 .. Last(v) + 1 : n = At(v, j)
        BY <4>1, Zenon DEF AwaitingOK
      <4>3. frame[u].k \in 1 .. Last(u) + 1 /\ n = At(u, frame[u].k)
        BY <2>0, Sites, Zenon
      <4> QED
        <5>1. At(v, j) = At(u, frame[u].k) /\ At(v, j) \in Nodes
          BY <1>2, <4>2, <4>3
        <5> QED
          BY <4>2, <4>3, <5>1, Sites, SMT
    <3> QED
      BY <2>1, <3>1, SMT DEF Awaiter
  <2>3. /\ todo' \in Seq(AllOps) /\ Ordered' /\ \A nm : Running(nm)' <=> nm = "extract"
        /\ \A nm, x : Has(nm, x)' <=> (nm = "extract" /\ x = u) \/ Below(nm, x)
    <3>1. Then(<<Op("extract", u)>>) /\ Typed /\ Ordered /\ todo # <<>>
      <4>1. Resume(n) # Reap(n)
        BY BlockNames, SMT
      <4> QED
        BY <1>1, <1>2, <1>12, <2>2, <4>1 DEF Wake
    <3>2. Op("extract", u) \in AllOps
      BY SMT DEF Op, AllOps, TaskOps
    <3>3. Fits("extract", u)
      <4>1. \A nm \in Control : ~Below(nm, u)
        BY <1>2, <2>0, Zenon DEF Parks, Quiet
      <4> QED
        BY <4>1, FitsOn, SMT
    <3> QED
      BY <3>1, <3>2, <3>3, Then1, SMT
  <2>4. ASSUME NEW x \in Nodes \ {u, n} PROVE Still(x)
    BY <1>1, <1>2, <1>6, <1>7, <2>3, Zenon DEF Still, Alike
  <2>5. Untouched({u, n})
    BY <1>1, <2>4, Zenon DEF Untouched
  <2>6. \A x \in Nodes : DropOK(x)'
    <3>1. "drop" # "extract" /\ "on_drop" # "extract"
      BY SMT
    <3> QED
      BY <2>3, <3>1, NoDrop, Zenon
  <2>7. NodeOK(n)' /\ (n \in Tasks => TaskOK(n)' /\ LinkOK(n)' /\ SitesOK(n)' /\ AwaitingOK(n)')
    <3>1. (\A nm \in Control : ~Has(nm, n)') /\ ~Has("release", n)' /\ ~Has("complete", n)' /\ ~Has("reap", n)'
      BY <1>8, <2>1, <2>3, Zenon
    <3> QED
      BY <1>1, <1>2, <1>4, <1>5, <3>1, CompletedNode, SMT
  <2>8. /\ \A nm \in Control : ~Has(nm, u)
        /\ \A nm \in Control : Has(nm, u)' => nm = "extract"
        /\ Has("extract", u)'
        /\ \A nm \in {"user", "drop", "reap", "release"} : Has(nm, u)' <=> Has(nm, u)
        /\ Has("complete", u)' <=> Has("complete", u)
    <3>1. \A nm \in Control : ~Has(nm, u)
      BY <2>0, Zenon DEF Parks, Quiet
    <3>2. \A nm : nm # "extract" => (Has(nm, u)' <=> Has(nm, u))
      BY <1>2, <2>1, <2>3, Zenon
    <3> QED
      BY <2>3, <3>1, <3>2, SMT
  <2>9. /\ ~Has("call", u) /\ ~Has("poll", u) /\ ~Has("extract", u) /\ ~Has("publish", u) /\ ~Has("end", u)
              /\ ~Has("on_drop", u) /\ ~Has("cleanup", u)
        /\ ~Has("call", u)' /\ ~Has("poll", u)' /\ ~Has("run", u)' /\ ~Has("publish", u)' /\ ~Has("end", u)'
              /\ ~Has("on_drop", u)' /\ ~Has("cleanup", u)'
        /\ ~Quiet(u)'
    BY <2>8, SMT DEF Control, Quiet
  <2>10. fut'[u] = fut[u]
    BY <1>6, <2>1
  <2>11. TaskOK(u)'
    <3>0. Last(u)' = Last(u) /\ Awaited(u)' = Awaited(u)
      BY <1>1, SameSites
    <3>1. NewOK(u)' /\ ModeOK(u)'
      BY <1>1, <1>7, <2>1, <2>10, <3>0, Zenon DEF TaskOK, NewOK, ModeOK
    <3>2. WorksOK(u)'
      <4>1. frame[u].mode # "cancelled"
        BY <2>1, SMT DEF TaskOK, WorksOK
      <4> QED
        BY <1>1, <1>7, <2>1, <2>9, <2>10, <3>0, <4>1, SMT DEF TaskOK, WorksOK
    <3>3. DoneOK(u)' /\ OpsOK(u)'
      <4>1. Has("reap", u)' <=> Has("reap", u)
        BY <2>8, SMT
      <4> QED
        BY <1>1, <1>7, <2>1, <2>9, <2>10, <4>1, Zenon DEF TaskOK, OpsOK, DoneOK
    <3>4. RanOK(u)'
      BY <1>1, <2>1, <3>0, Zenon DEF TaskOK, RanOK
    <3> QED
      BY <3>1, <3>2, <3>3, <3>4, Zenon DEF TaskOK
  <2>12. Visible(u) /\ NodeOK(u)' /\ ~Idles(u)
    <3>0. (Has("drop", u)' <=> Has("drop", u)) /\ (Has("reap", u)' <=> Has("reap", u))
                /\ (Has("release", u)' <=> Has("release", u))
      BY <2>8, SMT
    <3>1. Visible(u)
      BY <1>1, <1>7, <2>9, <2>10, <3>0, Zenon DEF Visible
    <3>2. Placid(u)
      BY <1>1, <1>7, <2>8, <2>9, <3>0, <3>1, SMT DEF Placid
    <3> QED
      BY <2>1, <3>1, <3>2, PlacidNode, Zenon DEF Idles
  <2>13. /\ \A x \in Nodes : Awaits(u, x) => x = n
         /\ \A v \in Tasks : Awaits(v, n) => v = u
         /\ \A v \in Tasks : \A x : Awaits(v, x)' <=> Awaits(v, x)
    BY <1>1, <1>2, <2>0, OneCaller, SameSites, Zenon DEF Awaits
  <2>14. OwnerOK(u)'
    <3>1. ~Awaits(u, u) /\ ~Waits(n)
      BY <1>8, <2>1, <2>13
    <3>2. \A v \in {u, n} \cap Tasks : Steady(v) \/ ~(Awaits(v, u) /\ Waits(v))
      BY <3>1, SMT
    <3> QED
      BY <2>1, <2>5, <2>12, <3>2, Kept, Zenon
  <2>15. OwnerOK(n)'
    <3>1. fut'[n].state # WAITING /\ ~Has("call", n)'
      BY <1>2, <1>6, <1>8, <2>1, <2>3, SMT DEF READY, WAITING
    <3> QED
      BY <2>0, <2>8, <2>13, <3>1, Zenon DEF OwnerOK
  <2>16. LinkOK(u)'
    <3>1. Linked(u, n)'
      BY <1>4, <1>6, <1>7, <1>12, <2>9, Zenon DEF Linked, Parks
    <3> QED
      BY <2>13, <3>1, Zenon DEF LinkOK
  <2>17. SitesOK(u)'
    <3> SUFFICES ASSUME NEW j \in 1 .. Last(u) + 1, NEW x \in Nodes, At(u, j) = x, ToCall(u, j)'
                 PROVE  Idles(x)' /\ ~Has("call", x)'
      BY <1>1, <1>2, SameSites, Zenon DEF SitesOK
    <3>1. ToCall(u, j)
      BY <1>1, <1>7, <2>9, Zenon DEF ToCall
    <3>2. Idles(x) /\ ~Has("call", x)
      BY <2>1, <3>1, Zenon DEF SitesOK
    <3>3. Placid(x)
      BY <1>7, <2>4, <2>12, <3>2, StillPlacid, SMT
    <3> QED
      BY <3>2, <3>3, Zenon DEF Placid, Visible, Idles
  <2>18. AwaitingOK(u)'
    BY <1>1, <2>1, SameAwaiting, Zenon
  <2> QED
    BY <1>2, <1>7, <1>8, <1>9, <2>1, <2>3, <2>5, <2>6, <2>7, <2>11, <2>12, <2>13, <2>14, <2>15, <2>16, <2>17, <2>18,
       Concluded, SMT
<1>13. fut[n].state = WAITING => fut[n].waker = Reap(n) \/ fut[n].waker = Resume(n)
  BY <1>3, SMT DEF NodeOK, FutureOK
<1> QED
  BY <1>5, <1>10, <1>11, <1>12, <1>13, SMT

(* A task in its cleanups.                                                  *)
LEMMA RunFacts ==
  ASSUME IInv, NEW t, t = Arg, Running("run")
  PROVE  /\ todo # <<>> /\ Typed /\ Ordered /\ Has("run", t) /\ t \in Tasks /\ t \in Nodes
         /\ \A nm, x : Has(nm, x) <=> (nm = "run" /\ x = t) \/ Below(nm, x)
         /\ \A nm, x : Below(nm, x) => nm \in Beneath /\ <<nm, x>> \in AllOps
         /\ \A nm \in Control : ~Below(nm, t) /\ (Has(nm, t) => nm = "run")
         /\ TaskOK(t) /\ NodeOK(t) /\ OwnerOK(t) /\ SitesOK(t) /\ AwaitingOK(t)
         /\ Works(t) /\ Alive(t) /\ frame[t].mode # "new" /\ fut[t].state \notin {READY, CLEANED}
         /\ frame[t].k \in Nat /\ Last(t) \in Nat /\ frame[t].k <= Last(t) /\ Len(ran[t]) = Last(t) - frame[t].k
         /\ (frame[t].mode = "running" => fut[t].state # CANCELLED)
         /\ ~Waits(t) /\ ~Idles(t) /\ ~Has("call", t)
<1>1. /\ todo # <<>> /\ Typed /\ Ordered /\ Has("run", t) /\ t \in Tasks /\ t \in Nodes
      /\ \A nm, x : Has(nm, x) <=> (nm = "run" /\ x = t) \/ Below(nm, x)
      /\ \A nm, x : Below(nm, x) => nm \in Beneath /\ <<nm, x>> \in AllOps
      /\ \A nm \in Control : ~Below(nm, t) /\ (Has(nm, t) => nm = "run")
  <2>1. "run" \in TaskOps /\ "run" \in Control
    BY SMT DEF TaskOps, Control
  <2> QED
    BY <2>1, HeadArg, Zenon DEF Nodes
<1>2. TaskOK(t) /\ NodeOK(t) /\ OwnerOK(t) /\ SitesOK(t) /\ AwaitingOK(t)
  BY <1>1, Zenon DEF IInv
<1>3. ~Has("on_drop", t) /\ ~Has("cleanup", t) /\ ~Has("poll", t) /\ ~Has("extract", t) /\ ~Has("call", t)
            /\ ~Quiet(t)
  BY <1>1, SMT DEF Control, Quiet
<1>4. Works(t) /\ Alive(t) /\ frame[t].mode # "new" /\ fut[t].state \notin {READY, CLEANED}
  BY <1>1, <1>2, Zenon DEF TaskOK, OpsOK, WorksOK
<1>5. frame[t].k \in Nat /\ Last(t) \in Nat
  BY <1>1, Shapes, Sites, Zenon
<1>6. frame[t].k <= Last(t) /\ Len(ran[t]) = Last(t) - frame[t].k
            /\ (frame[t].mode = "running" => fut[t].state # CANCELLED)
  BY <1>1, <1>2, <1>3, <1>4, SMT DEF TaskOK, WorksOK
<1>7. ~Waits(t) /\ ~Idles(t)
  BY <1>3, <1>4, Zenon DEF Waits, Parks, Idles
<1> QED
  BY <1>1, <1>2, <1>3, <1>4, <1>5, <1>6, <1>7

(* The cleanup k is the next after those that ran.                          *)
LEMMA RanOn ==
  ASSUME NEW t \in Tasks, NEW k \in Nat, k > 0, ran \in [Tasks -> Seq(Nat)], Last(t) \in Nat, Last(t)' = Last(t),
         Len(ran[t]) = Last(t) - k, RanOK(t), ran' = [ran EXCEPT ![t] = Append(ran[t], k)]
  PROVE  /\ ran' \in [Tasks -> Seq(Nat)] /\ Len(ran'[t]) = Last(t) - k + 1 /\ RanOK(t)'
         /\ \A u \in Tasks : u # t => ran'[u] = ran[u]
<1> SUFFICES ASSUME NEW s \in Seq(Nat), s = ran[t]
             PROVE  /\ Append(s, k) \in Seq(Nat) /\ Len(Append(s, k)) = Last(t) - k + 1
                    /\ \A i \in 1 .. Len(Append(s, k)) : Append(s, k)[i] = Last(t) + 1 - i
  BY SMT DEF RanOK, Descending
<1>1. \A i \in 1 .. Len(s) : s[i] = Last(t) + 1 - i
  BY DEF RanOK, Descending
<1>2. Append(s, k) \in Seq(Nat) /\ Len(Append(s, k)) = Len(s) + 1
  BY SMT
<1>3. ASSUME NEW i \in 1 .. Len(s) + 1 PROVE Append(s, k)[i] = Last(t) + 1 - i
  <2>1. CASE i = Len(s) + 1
    BY <2>1, SMT
  <2>2. CASE i # Len(s) + 1
    <3>1. i \in 1 .. Len(s) /\ Append(s, k)[i] = s[i]
      BY <2>2, SMT
    <3> QED
      BY <1>1, <3>1
  <2> QED
    BY <2>1, <2>2
<1> QED
  BY <1>2, <1>3, SMT

(* Run, for a cleanup without an await.                                     *)
LEMMA RunPlainKeeps ==
  ASSUME IInv, Run, Awaited(Arg) = Plain PROVE IInv'
<1> SUFFICES ASSUME NEW t, t = Arg, NEW k, k = frame[t].k PROVE IInv'
  BY Zenon
<1>1. /\ Running("run") /\ k > 0 /\ ran' = [ran EXCEPT ![t] = Append(ran[t], k)]
      /\ frame' = [frame EXCEPT ![t].k = k - 1] /\ Then(<<Op("user", t), Op("run", t)>>)
      /\ cleanups' = cleanups /\ fut' = fut /\ live' = live /\ reg' = reg /\ fresh' = fresh /\ mine' = mine
  BY DEF Run, NextCleanup
<1>2. /\ todo # <<>> /\ Typed /\ Ordered /\ Has("run", t) /\ t \in Tasks /\ t \in Nodes
      /\ \A nm, x : Has(nm, x) <=> (nm = "run" /\ x = t) \/ Below(nm, x)
      /\ \A nm \in Control : ~Below(nm, t) /\ (Has(nm, t) => nm = "run")
      /\ TaskOK(t) /\ NodeOK(t) /\ OwnerOK(t) /\ SitesOK(t) /\ AwaitingOK(t)
      /\ Works(t) /\ Alive(t) /\ frame[t].mode # "new" /\ fut[t].state \notin {READY, CLEANED}
      /\ k \in Nat /\ Last(t) \in Nat /\ k <= Last(t) /\ Len(ran[t]) = Last(t) - k
      /\ (frame[t].mode = "running" => fut[t].state # CANCELLED)
      /\ ~Waits(t) /\ ~Idles(t)
  BY <1>1, RunFacts, Zenon
<1>3. Last(t)' = Last(t)
  BY <1>1 DEF Last
<1>4. /\ ran' \in [Tasks -> Seq(Nat)] /\ Len(ran'[t]) = Last(t) - k + 1 /\ RanOK(t)'
      /\ \A u \in Tasks : u # t => ran'[u] = ran[u]
  BY <1>1, <1>2, <1>3, RanOn DEF Typed, TaskOK
<1>5. /\ todo' \in Seq(AllOps) /\ Ordered' /\ ~Running("drop")' /\ ~Running("on_drop")'
      /\ \A nm, x : Has(nm, x)' <=> (nm = "user" /\ x = t) \/ Has(nm, x)
  <2>1. Fits("user", t) /\ Fits("run", t)
    BY <1>2, FitsOn, SMT
  <2>2. Op("user", t) \in AllOps /\ Op("run", t) \in AllOps /\ "user" \notin Control /\ "run" \in Beneath
    BY <1>2, SMT DEF Op, AllOps, TaskOps, Control, Beneath
  <2>3. Typed /\ Ordered /\ todo # <<>> /\ Then(<<Op("user", t), Op("run", t)>>) /\ "user" # "release"
    BY <1>1, <1>2, SMT
  <2>4. /\ todo' \in Seq(AllOps) /\ Ordered' /\ \A nm : Running(nm)' <=> nm = "user"
        /\ \A nm, x : Has(nm, x)' <=> (nm = "user" /\ x = t) \/ (nm = "run" /\ x = t) \/ Below(nm, x)
    BY <2>1, <2>2, <2>3, Then2, SMT
  <2>5. "drop" # "user" /\ "on_drop" # "user"
    BY SMT
  <2> QED
    BY <1>2, <2>4, <2>5, Zenon
<1>6. /\ frame' \in [Tasks -> Frames] /\ frame'[t].k = k - 1 /\ frame'[t].mode = frame[t].mode
            /\ frame'[t].awaiting = frame[t].awaiting
      /\ \A u \in Tasks : u # t => frame'[u] = frame[u]
  <2>1. frame \in [Tasks -> Frames] /\ frame[t] \in Frames /\ k - 1 \in Nat
    BY <1>1, <1>2, SMT DEF Typed
  <2>2. frame' = [frame EXCEPT ![t] = [frame[t] EXCEPT !.k = k - 1]]
    BY <1>1
  <2> SUFFICES ASSUME NEW f \in Frames, f = frame[t], NEW h \in Nat, h = k - 1
               PROVE  /\ [f EXCEPT !.k = h] \in Frames /\ [f EXCEPT !.k = h].k = h
                      /\ [f EXCEPT !.k = h].mode = f.mode /\ [f EXCEPT !.k = h].awaiting = f.awaiting
    BY <1>2, <2>1, <2>2
  <2>3. [f EXCEPT !.k = h] \in Frames
    BY Zenon DEF Frames
  <2> QED
    BY <2>3, SMT DEF Frames
<1>7. \A x : (Alive(x)' <=> Alive(x)) /\ (Drops(x)' <=> Drops(x)) /\ (Resumes(x)' <=> Resumes(x))
            /\ (Reaps(x)' <=> Reaps(x)) /\ (Works(x)' <=> Works(x))
  BY <1>1, Zenon DEF Alive, Drops, Resumes, Reaps, Works
<1>8. \A nm : nm # "user" => \A x : (Has(nm, x)' <=> Has(nm, x))
  BY <1>5
<1>9. ASSUME NEW x \in Nodes \ {t} PROVE Still(x)
  BY <1>1, <1>2, <1>4, <1>5, <1>6, <1>7, Zenon DEF Still, Alike
<1>10. Untouched({t})
  BY <1>1, <1>9, Zenon DEF Untouched
<1>11. Typed'
  <2>1. ASSUME NEW u \in Tasks PROVE frame'[u].k <= Last(u)' + 1
    <3>1. Last(u)' = Last(u) /\ frame[u].k <= Last(u) + 1
      BY <1>1, <1>2, SameSites, Shapes, Zenon
    <3> QED
      BY <1>2, <1>6, <3>1, SMT
  <2> QED
    BY <1>1, <1>2, <1>4, <1>5, <1>6, <2>1, SMTT(30) DEF Typed
<1>12. \A x \in Nodes : DropOK(x)'
  BY <1>5, NoDrop
<1>13. /\ (Has("run", t)' <=> Has("run", t)) /\ (Has("poll", t)' <=> Has("poll", t))
             /\ (Has("extract", t)' <=> Has("extract", t))
       /\ (Has("call", t)' <=> Has("call", t)) /\ (Has("publish", t)' <=> Has("publish", t))
             /\ (Has("end", t)' <=> Has("end", t))
       /\ (Has("on_drop", t)' <=> Has("on_drop", t)) /\ (Has("cleanup", t)' <=> Has("cleanup", t))
             /\ (Has("reap", t)' <=> Has("reap", t))
       /\ (Has("release", t)' <=> Has("release", t)) /\ (Has("drop", t)' <=> Has("drop", t))
             /\ (Has("complete", t)' <=> Has("complete", t))
  BY <1>8, SMT
<1>14. ~Has("poll", t) /\ ~Has("extract", t) /\ ~Has("call", t) /\ ~Has("on_drop", t) /\ ~Has("cleanup", t)
             /\ ~Quiet(t)'
  BY <1>2, <1>13, SMT DEF Control, Quiet
<1>15. TaskOK(t)'
  <2>1. NewOK(t)' /\ ModeOK(t)'
    BY <1>1, <1>2, <1>6, SMT DEF TaskOK, NewOK, ModeOK
  <2>2. WorksOK(t)'
    <3>1. frame[t].mode = "cancelled" => \A j \in 1 .. k - 1 : cleanups[t][j] = Plain
      BY <1>2, SMT DEF TaskOK, WorksOK
    <3> QED
      BY <1>1, <1>2, <1>3, <1>4, <1>6, <1>7, <1>13, <1>14, <3>1, SMT DEF WorksOK
  <2>3. DoneOK(t)'
    BY <1>2, <1>7, Zenon DEF DoneOK
  <2>4. OpsOK(t)'
    BY <1>1, <1>2, <1>6, <1>7, <1>13, Zenon DEF TaskOK, OpsOK
  <2> QED
    BY <1>4, <2>1, <2>2, <2>3, <2>4, Zenon DEF TaskOK
<1>16. Visible(t) /\ NodeOK(t)'
  <2>1. Visible(t)
    BY <1>1, <1>7, <1>13, Zenon DEF Visible
  <2>2. Placid(t)
    BY <1>1, <1>6, <1>7, <1>13, <2>1, SMT DEF Placid
  <2> QED
    BY <1>2, <2>1, <2>2, PlacidNode, SMT
<1>17. OwnerOK(t)'
  BY <1>2, <1>10, <1>16, Kept, SMT
<1>18. SitesOK(t)'
  <2> SUFFICES ASSUME NEW j \in 1 .. Last(t) + 1, NEW x \in Nodes, At(t, j) = x, ToCall(t, j)'
               PROVE  Idles(x)' /\ ~Has("call", x)'
    BY <1>1, <1>2, SameSites, Zenon DEF SitesOK
  <2>1. ToCall(t, j)
    BY <1>2, <1>6, SMT DEF ToCall
  <2>2. Idles(x) /\ ~Has("call", x)
    BY <1>2, <2>1, Zenon DEF SitesOK
  <2>3. Placid(x)
    BY <1>2, <1>9, <2>2, StillPlacid, SMT
  <2> QED
    BY <2>2, <2>3, Zenon DEF Placid, Visible, Idles
<1>19. AwaitingOK(t)'
  <2>1. frame'[t].awaiting # None => \E j \in 1 .. Last(t) + 1 : j >= k /\ frame[t].awaiting = At(t, j)
    BY <1>2, <1>6, Zenon DEF AwaitingOK
  <2> SUFFICES ASSUME frame'[t].awaiting # None PROVE AwaitingOK(t)'
    BY Zenon DEF AwaitingOK
  <2>2. PICK j \in 1 .. Last(t) + 1 : j >= k /\ frame[t].awaiting = At(t, j)
    BY <2>1
  <2>3. j \in 1 .. Last(t)' + 1 /\ j >= frame'[t].k /\ frame'[t].awaiting = At(t, j)'
    BY <1>1, <1>2, <1>6, <2>2, SameSites, SMT
  <2> QED
    BY <2>3, Zenon DEF AwaitingOK
<1>20. LinkOK(t)'
  BY <1>13, <1>14, NoLink, Zenon DEF Waits, Parks
<1> QED
  BY <1>2, <1>5, <1>10, <1>11, <1>12, <1>15, <1>16, <1>17, <1>18, <1>19, <1>20, Concluded, SMT

(* Run, for a cleanup that awaits a leaf.                                   *)
LEMMA RunAwaitKeeps ==
  ASSUME IInv, Run, Awaited(Arg) # Plain PROVE IInv'
<1> SUFFICES ASSUME NEW t, t = Arg, NEW k, k = frame[t].k, NEW n, n = Awaited(t) PROVE IInv'
  BY Zenon
<1>1. /\ Running("run") /\ k > 0 /\ ran' = [ran EXCEPT ![t] = Append(ran[t], k)] /\ n # Plain
      /\ frame' = frame /\ Then(<<Op("call", n), Op("poll", t)>>)
      /\ cleanups' = cleanups /\ fut' = fut /\ live' = live /\ reg' = reg /\ fresh' = fresh /\ mine' = mine
  BY DEF Run, Await
<1>2. /\ todo # <<>> /\ Typed /\ Ordered /\ Has("run", t) /\ t \in Tasks /\ t \in Nodes
      /\ \A nm, x : Has(nm, x) <=> (nm = "run" /\ x = t) \/ Below(nm, x)
      /\ \A nm, x : Below(nm, x) => nm \in Beneath /\ <<nm, x>> \in AllOps
      /\ \A nm \in Control : ~Below(nm, t) /\ (Has(nm, t) => nm = "run")
      /\ TaskOK(t) /\ NodeOK(t) /\ OwnerOK(t) /\ SitesOK(t) /\ AwaitingOK(t)
      /\ Works(t) /\ Alive(t) /\ frame[t].mode # "new" /\ fut[t].state \notin {READY, CLEANED}
      /\ k \in Nat /\ Last(t) \in Nat /\ k <= Last(t) /\ Len(ran[t]) = Last(t) - k
      /\ (frame[t].mode = "running" => fut[t].state # CANCELLED)
      /\ ~Waits(t) /\ ~Idles(t)
  BY <1>1, RunFacts, Zenon
<1>3. Last(t)' = Last(t) /\ Awaited(t)' = n
  BY <1>1, <1>2, SameSites, Zenon
<1>4. /\ ran' \in [Tasks -> Seq(Nat)] /\ Len(ran'[t]) = Last(t) - k + 1 /\ RanOK(t)'
      /\ \A u \in Tasks : u # t => ran'[u] = ran[u]
  BY <1>1, <1>2, <1>3, RanOn DEF Typed, TaskOK
<1>5. k \in 1 .. Last(t) + 1 /\ n = At(t, k) /\ n = cleanups[t][k] /\ n \in Leaves /\ Awaits(t, n)
  <2>1. k \in 1 .. Len(cleanups[t]) /\ n = cleanups[t][k]
    BY <1>1, <1>2, SMT DEF Awaited, Last
  <2>2. cleanups[t] \in Seq(Leaves \cup {Plain})
    BY <1>2, ProgramsAssumption DEF Typed
  <2>3. n \in Leaves
    BY <1>1, <2>1, <2>2, SMT
  <2> QED
    BY <1>1, <1>2, <2>1, <2>3, SMT DEF At, Last, Awaits
<1>6. n \in Nodes /\ n \notin Tasks /\ n # t /\ n \notin mine /\ n \notin fresh
  BY <1>2, <1>5, CalleeAssumption, SMT DEF Nodes, Typed
<1>7. Idles(n) /\ ~Has("call", n) /\ NodeOK(n)
  <2>1. ToCall(t, k)
    BY <1>2, Zenon DEF ToCall
  <2> QED
    BY <1>2, <1>5, <1>6, <2>1, Zenon DEF SitesOK, IInv
<1>8. /\ todo' \in Seq(AllOps) /\ Ordered' /\ ~Running("drop")' /\ ~Running("on_drop")'
      /\ \A nm, x : Has(nm, x)' <=> (nm = "call" /\ x = n) \/ (nm = "poll" /\ x = t) \/ Below(nm, x)
  <2>1. Fits("poll", t)
    BY <1>2, FitsOn, SMT
  <2>2. Op("call", n) \in AllOps /\ Op("poll", t) \in AllOps /\ "poll" \in Beneath
    BY <1>2, <1>6, SMT DEF Op, AllOps, TaskOps, NodeOps, Beneath
  <2>3. Fits("call", n)
    <3>1. \A nm \in Control : ~Below(nm, n)
      <4> SUFFICES ASSUME NEW nm \in Control, Below(nm, n) PROVE FALSE
        OBVIOUS
      <4>1. nm \in Beneath /\ <<nm, n>> \in AllOps
        BY <1>2
      <4> QED
        BY <1>6, <4>1, SMT DEF Control, Beneath, AllOps, NodeOps
    <3> QED
      BY <3>1, FitsOn, SMT
  <2>4. Typed /\ Ordered /\ todo # <<>> /\ Then(<<Op("call", n), Op("poll", t)>>) /\ "call" # "release"
    BY <1>1, <1>2, SMT
  <2>5. /\ todo' \in Seq(AllOps) /\ Ordered' /\ \A nm : Running(nm)' <=> nm = "call"
        /\ \A nm, x : Has(nm, x)' <=> (nm = "call" /\ x = n) \/ (nm = "poll" /\ x = t) \/ Below(nm, x)
    BY <1>6, <2>1, <2>2, <2>3, <2>4, Then2, SMT
  <2>6. "drop" # "call" /\ "on_drop" # "call"
    BY SMT
  <2> QED
    BY <2>5, <2>6, Zenon
<1>9. \A x : (Alive(x)' <=> Alive(x)) /\ (Drops(x)' <=> Drops(x)) /\ (Resumes(x)' <=> Resumes(x))
            /\ (Reaps(x)' <=> Reaps(x)) /\ (Works(x)' <=> Works(x))
  BY <1>1, Zenon DEF Alive, Drops, Resumes, Reaps, Works
<1>10. ASSUME NEW x \in Nodes \ {t, n} PROVE Still(x)
  BY <1>1, <1>2, <1>4, <1>8, <1>9, Zenon DEF Still, Alike
<1>11. Untouched({t, n})
  BY <1>1, <1>10, Zenon DEF Untouched
<1>12. Typed'
  BY <1>1, <1>2, <1>4, <1>8, SMTT(30) DEF Typed, Last
<1>13. \A x \in Nodes : DropOK(x)'
  BY <1>8, NoDrop
<1>14. /\ ~Has("run", t)' /\ Has("poll", t)'
       /\ ~Has("poll", t) /\ ~Has("extract", t) /\ ~Has("call", t) /\ ~Has("on_drop", t) /\ ~Has("cleanup", t)
             /\ ~Has("publish", t) /\ ~Has("end", t)
       /\ ~Has("extract", t)' /\ ~Has("call", t)' /\ ~Has("on_drop", t)' /\ ~Has("cleanup", t)' /\ ~Has("publish", t)'
             /\ ~Has("end", t)'
       /\ (Has("reap", t)' <=> Has("reap", t)) /\ (Has("release", t)' <=> Has("release", t))
             /\ (Has("drop", t)' <=> Has("drop", t))
       /\ (Has("complete", t)' <=> Has("complete", t)) /\ ~Quiet(t)'
  <2>1. \A nm : nm # "run" /\ nm # "poll" => (Has(nm, t)' <=> Has(nm, t))
    BY <1>2, <1>6, <1>8, Zenon
  <2>2. ~Below("run", t) /\ "run" # "poll" /\ "run" # "call"
    BY <1>2, SMT DEF Control
  <2>3. ~Has("run", t)' /\ Has("poll", t)'
    BY <1>6, <1>8, <2>2, Zenon
  <2> QED
    BY <1>2, <2>1, <2>3, SMT DEF Control, Quiet
<1>15. TaskOK(t)'
  <2>0. frame[t].mode # "cancelled"
    <3>1. frame[t].mode = "cancelled" => k \in 1 .. k /\ \A j \in 1 .. k : cleanups[t][j] = Plain
      BY <1>1, <1>2, SMT DEF TaskOK, WorksOK
    <3> QED
      BY <1>1, <1>5, <3>1
  <2>1. NewOK(t)' /\ ModeOK(t)'
    BY <1>1, <1>2, SMT DEF TaskOK, NewOK, ModeOK
  <2>2. WorksOK(t)'
    BY <1>1, <1>2, <1>3, <1>4, <1>6, <1>9, <1>14, <2>0, SMT DEF WorksOK
  <2>3. DoneOK(t)'
    BY <1>2, <1>9, Zenon DEF DoneOK
  <2>4. OpsOK(t)'
    BY <1>1, <1>2, <1>9, <1>14, Zenon DEF TaskOK, OpsOK
  <2> QED
    BY <1>4, <2>1, <2>2, <2>3, <2>4, Zenon DEF TaskOK
<1>16. Visible(t) /\ NodeOK(t)'
  <2>1. Visible(t)
    BY <1>1, <1>9, <1>14, Zenon DEF Visible
  <2>2. Placid(t)
    BY <1>1, <1>9, <1>14, <2>1, SMT DEF Placid
  <2> QED
    BY <1>2, <2>1, <2>2, PlacidNode, SMT
<1>17. Has("call", n)' /\ (\A nm : nm # "call" => (Has(nm, n)' <=> Has(nm, n))) /\ Idles(n)'
  <2>1. n \in Tasks => frame'[n].mode = frame[n].mode
    BY <1>1
  <2>2. \A nm : nm # "call" => (Has(nm, n)' <=> Has(nm, n))
    BY <1>2, <1>6, <1>8, Zenon
  <2>3. Has("call", n)'
    BY <1>8
  <2> QED
    BY <1>1, <1>7, <1>9, <2>1, <2>2, <2>3, Zenon DEF Idles
<1>18. NodeOK(n)'
  <2>1. BlocksOK(n)'
    BY <1>1, <1>7, <1>9, Zenon DEF NodeOK, BlocksOK
  <2>2. FutureOK(n)'
    <3>1. PENDING # READY /\ "release" # "call" /\ fut[n].state = PENDING
      BY <1>7, SMT DEF PENDING, READY, Idles
    <3> QED
      BY <1>1, <1>7, <1>9, <1>17, <3>1, Zenon DEF NodeOK, FutureOK
  <2>3. MineOK(n)'
    BY <1>1, <1>6, Zenon DEF MineOK
  <2>4. LeafOK(n)'
    <3>1. (Has("complete", n)' <=> Has("complete", n)) /\ (Has("on_drop", n)' <=> Has("on_drop", n))
      BY <1>17, SMT
    <3> QED
      BY <1>1, <1>5, <1>7, <1>9, <3>1, Zenon DEF NodeOK, LeafOK
  <2> QED
    BY <2>1, <2>2, <2>3, <2>4, Zenon DEF NodeOK
<1>19. /\ \A u \in Tasks : \A x : Awaits(u, x)' <=> Awaits(u, x)
       /\ \A u \in Tasks : Awaits(u, n) => u = t
       /\ \A x \in Nodes : Awaits(t, x) => x = n
  BY <1>1, <1>2, <1>5, <1>6, OneCaller, SameSites, Zenon DEF Awaits
<1>20. OwnerOK(n)'
  <2>1. ~Alive(n)'
    BY <1>7, <1>9, Zenon DEF Idles
  <2> QED
    BY <1>2, <1>5, <1>14, <1>19, <2>1, Zenon DEF OwnerOK
<1>21. OwnerOK(t)'
  <2>1. \A v \in {t, n} \cap Tasks : Steady(v) \/ ~(Awaits(v, t) /\ Waits(v))
    BY <1>2, <1>6, SMT
  <2> QED
    BY <1>2, <1>11, <1>16, <2>1, Kept, Zenon
<1>22. LinkOK(t)'
  <2>1. Linked(t, n)'
    BY <1>14, <1>17, Zenon DEF Linked, Parks
  <2> QED
    BY <1>2, <1>19, <2>1, Zenon DEF LinkOK
<1>23. SitesOK(t)'
  <2> SUFFICES ASSUME NEW j \in 1 .. Last(t) + 1, NEW x \in Nodes, At(t, j) = x, ToCall(t, j)'
               PROVE  Idles(x)' /\ ~Has("call", x)'
    BY <1>1, <1>2, SameSites, Zenon DEF SitesOK
  <2>1. ToCall(t, j) /\ j # k
    BY <1>1, <1>2, <1>9, <1>14, SMT DEF ToCall
  <2>2. Idles(x) /\ ~Has("call", x)
    BY <1>2, <2>1, Zenon DEF SitesOK
  <2>3. x # n
    <3>1. \A i \in 1 .. Last(t) + 1 : At(t, i) = At(t, k) /\ At(t, i) \in Nodes => i = k
      BY <1>2, <1>5, Sites, Zenon
    <3> QED
      BY <1>5, <2>1, <3>1
  <2>4. Placid(x)
    BY <1>2, <1>10, <2>2, <2>3, StillPlacid, SMT
  <2> QED
    BY <2>2, <2>4, Zenon DEF Placid, Visible, Idles
<1>24. AwaitingOK(t)'
  BY <1>1, <1>2, SameAwaiting, Zenon
<1>25. ASSUME NEW u \in Tasks, u # t PROVE \A j \in 1 .. Last(u) + 1 : At(u, j) # n
  <2>1. \A j \in 1 .. Last(u) + 1 : At(u, j) = At(t, k) /\ At(u, j) \in Nodes => u = t
    BY <1>2, <1>5, Sites, SMTT(30)
  <2> QED
    BY <1>5, <1>6, <1>25, <2>1, SMT
<1>26. \A u \in Tasks, x \in Nodes : u \notin {t, n} /\ x \in {t, n} /\ Idles(x) /\ ~Has("call", x) =>
           \/ Idles(x)' /\ ~Has("call", x)'
           \/ \A j \in 1 .. Last(u) + 1 : ~(At(u, j) = x /\ ToCall(u, j))
  BY <1>2, <1>25, SMT
<1> QED
  BY <1>2, <1>6, <1>8, <1>11, <1>12, <1>13, <1>15, <1>16, <1>18, <1>19, <1>20, <1>21, <1>22, <1>23, <1>24, <1>26,
     Concluded, SMT

(* Run: the next cleanup begins.                                            *)
LEMMA RunKeeps ==
  ASSUME IInv, Run PROVE IInv'
BY RunPlainKeeps, RunAwaitKeeps, Zenon

(* A call of n: nothing of n exists yet.                                    *)
LEMMA CallFacts ==
  ASSUME IInv, NEW n, n = Arg, Running("call")
  PROVE  /\ todo # <<>> /\ Typed /\ Ordered /\ Has("call", n) /\ n \in Nodes /\ Op("call", n) \in AllOps
         /\ \A nm, x : Has(nm, x) <=> (nm = "call" /\ x = n) \/ Below(nm, x)
         /\ \A nm, x : Below(nm, x) => nm \in Beneath /\ <<nm, x>> \in AllOps
         /\ \A nm \in Control : ~Below(nm, n) /\ (Has(nm, n) => nm = "call")
         /\ \A x : ~Has("drop", x) /\ ~Has("on_drop", x) /\ ~Has("extract", x) /\ ~Has("reap", x)
               /\ ~Has("complete", x) /\ ~Has("publish", x) /\ ~Has("end", x)
         /\ NodeOK(n) /\ OwnerOK(n) /\ Idles(n) /\ ~Has("release", n)
<1>1. /\ todo # <<>> /\ Typed /\ Ordered /\ Has("call", n) /\ n \in Nodes
      /\ \A nm, x : Has(nm, x) <=> (nm = "call" /\ x = n) \/ Below(nm, x)
      /\ \A nm, x : Below(nm, x) => nm \in Beneath /\ <<nm, x>> \in AllOps
      /\ \A nm \in Control : ~Below(nm, n) /\ (Has(nm, n) => nm = "call")
      /\ \A nm, x : nm \notin Beneath /\ Has(nm, x) => nm = "call" /\ x = n
  <2>1. "call" \in NodeOps /\ "call" \in Control
    BY SMT DEF NodeOps, Control
  <2> QED
    BY <2>1, HeadArg, Zenon
<1>2. \A x : ~Has("drop", x) /\ ~Has("on_drop", x) /\ ~Has("extract", x) /\ ~Has("reap", x) /\ ~Has("complete", x)
            /\ ~Has("publish", x) /\ ~Has("end", x)
  BY <1>1, SMT DEF Beneath
<1>3. NodeOK(n) /\ OwnerOK(n)
  BY <1>1, Zenon DEF IInv
<1>4. Idles(n) /\ ~Has("release", n)
  BY <1>1, <1>3, Zenon DEF NodeOK, FutureOK, Idles
<1>5. Op("call", n) \in AllOps
  BY <1>1, SMT DEF AllOps, NodeOps, Op
<1> QED
  BY <1>1, <1>2, <1>3, <1>4, <1>5

(* The awaiter that is about to poll finds the future that its call has     *)
(* made.                                                                    *)
LEMMA CallerLinked ==
  ASSUME IInv, NEW n \in Nodes, NEW u \in Tasks, Awaits(u, n), Waits(u), Idles(n), ~Has("on_drop", u), ~Has("extract", u),
         Has("poll", u)' <=> Has("poll", u), ~Has("on_drop", u)', ~Has("extract", u)',
         Alive(n)', fut'[n].waker = None, fut'[n].state \in {PENDING, READY}
  PROVE  Linked(u, n)'
<1>1. Linked(u, n)
  BY Zenon DEF IInv, LinkOK
<1>2. ~Parks(u)
  BY <1>1, Zenon DEF Linked, Idles
<1>3. Has("poll", u)'
  BY <1>2, Zenon DEF Waits
<1>4. ~Parks(u)'
  <2>1. "poll" \in Control
    BY SMT DEF Control
  <2> QED
    BY <1>3, <2>1, Zenon DEF Parks, Quiet
<1> QED
  BY <1>3, <1>4, Zenon DEF Linked

(* CallLeaf: a leaf is made, pending or ready.                              *)
LEMMA CallLeafKeeps ==
  ASSUME IInv, CallLeaf PROVE IInv'
<1> SUFFICES ASSUME NEW l, l = Arg PROVE IInv'
  BY Zenon
<1>1. /\ Running("call") /\ l \in Leaves /\ live' = live \cup {Fut(l), Drp(l)} /\ Then(<<>>)
      /\ (reg' = reg \cup {l} /\ fut' = fut) \/ (SetState(l, READY) /\ reg' = reg)
      /\ cleanups' = cleanups /\ frame' = frame /\ fresh' = fresh /\ mine' = mine /\ ran' = ran
  BY DEF CallLeaf
<1>2. /\ todo # <<>> /\ Typed /\ Ordered /\ Has("call", l) /\ l \in Nodes
      /\ \A nm, x : Has(nm, x) <=> (nm = "call" /\ x = l) \/ Below(nm, x)
      /\ \A nm, x : Below(nm, x) => nm \in Beneath
      /\ \A nm \in Control : ~Below(nm, l) /\ (Has(nm, l) => nm = "call")
      /\ \A x : ~Has("drop", x) /\ ~Has("on_drop", x) /\ ~Has("extract", x) /\ ~Has("reap", x) /\ ~Has("complete", x)
      /\ NodeOK(l) /\ OwnerOK(l) /\ Idles(l) /\ ~Has("release", l)
  BY <1>1, CallFacts, Zenon
<1>3. l \notin Tasks /\ l \notin mine /\ l \notin fresh /\ l # None
  BY <1>1, <1>2, CalleeAssumption, NoneAssumption, SMT DEF Typed
<1>4. /\ todo' \in Seq(AllOps) /\ Ordered' /\ ~Running("drop")' /\ ~Running("on_drop")'
      /\ \A nm, x : Has(nm, x)' <=> Below(nm, x)
  <2>1. Typed /\ Ordered /\ todo # <<>> /\ Then(<<>>)
    BY <1>1, <1>2
  <2>2. /\ todo' \in Seq(AllOps) /\ Ordered' /\ \A nm : Running(nm)' => nm \in Beneath
        /\ \A nm, x : Has(nm, x)' <=> Below(nm, x)
    BY <2>1, Popped, SMT
  <2>3. "drop" \notin Beneath /\ "on_drop" \notin Beneath
    BY SMT DEF Beneath
  <2> QED
    BY <2>2, <2>3, Zenon
<1>5. /\ fut' \in [Nodes -> Futures] /\ fut'[l].waker = None
      /\ \/ fut'[l].state = PENDING /\ reg' = reg \cup {l}
         \/ fut'[l].state = READY /\ reg' = reg
      /\ \A x \in Nodes : x # l => fut'[x] = fut[x]
  <2>1. CASE reg' = reg \cup {l} /\ fut' = fut
    BY <1>2, <2>1, SMT DEF Typed, Idles
  <2>2. CASE SetState(l, READY) /\ reg' = reg
    <3>1. READY \in 0 .. 6
      BY SMT DEF READY
    <3>2. fut[l].waker = None
      BY <1>2 DEF Idles
    <3> QED
      BY <1>2, <2>2, <3>1, <3>2, StateSet, Zenon
  <2> QED
    BY <1>1, <2>1, <2>2
<1>6. /\ \A x : x # l => (Alive(x)' <=> Alive(x)) /\ (Drops(x)' <=> Drops(x)) /\ (x \in reg' <=> x \in reg)
      /\ \A x : (Resumes(x)' <=> Resumes(x)) /\ (Reaps(x)' <=> Reaps(x)) /\ (Works(x)' <=> Works(x))
      /\ Alive(l)' /\ Drops(l)' /\ live' \subseteq Blocks
  <2>1. Fut(l) \in Blocks /\ Drp(l) \in Blocks /\ live \subseteq Blocks
    BY <1>2, SMT DEF Blocks, Typed
  <2>2. \A x : x # l => (x \in reg' <=> x \in reg)
    BY <1>5, SMT
  <2>3. live' \subseteq Blocks
    BY <1>1, <2>1, SMT
  <2>4. \A x : x # l => (Alive(x)' <=> Alive(x)) /\ (Drops(x)' <=> Drops(x))
    BY <1>1, BlockNames, Zenon DEF Alive, Drops
  <2>5. \A x : (Resumes(x)' <=> Resumes(x)) /\ (Reaps(x)' <=> Reaps(x)) /\ (Works(x)' <=> Works(x))
    BY <1>1, BlockNames, Zenon DEF Resumes, Reaps, Works
  <2>6. Alive(l)' /\ Drops(l)'
    BY <1>1, Zenon DEF Alive, Drops
  <2> QED
    BY <2>2, <2>3, <2>4, <2>5, <2>6
<1>7. ASSUME NEW x \in Nodes \ {l} PROVE Still(x)
  BY <1>1, <1>2, <1>4, <1>5, <1>6, Zenon DEF Still, Alike
<1>8. Untouched({l})
  BY <1>1, <1>7, Zenon DEF Untouched
<1>9. Typed'
  <2>1. reg' \subseteq Leaves
    BY <1>1, <1>2, SMT DEF Typed
  <2> QED
    BY <1>1, <1>2, <1>4, <1>5, <1>6, <2>1, SMT DEF Typed, Last
<1>10. \A x \in Nodes : DropOK(x)'
  BY <1>4, NoDrop
<1>11. /\ \A nm \in Control : ~Has(nm, l)'
       /\ ~Has("release", l)' /\ ~Has("complete", l)' /\ ~Has("call", l)' /\ ~Has("on_drop", l)'
  <2>1. "call" \in Control /\ "on_drop" \in Control
    BY SMT DEF Control
  <2> QED
    BY <1>2, <1>4, <2>1, Zenon
<1>12. NodeOK(l)'
  <2>0. /\ PENDING # ORPHANED /\ READY # ORPHANED /\ PENDING # WAITING /\ READY # WAITING /\ READY # PENDING
        /\ PENDING \notin {CANCELLED, DETACHED, CLEANED} /\ READY \notin {CANCELLED, DETACHED, CLEANED}
        /\ PENDING <= CANCELLED /\ READY <= CANCELLED /\ PENDING <= WAITING /\ ~(READY <= WAITING)
        /\ Resume(l) # None /\ Reap(l) # None
    BY <1>2, NullAssumption, SMT DEF PENDING, WAITING, READY, CANCELLED, DETACHED, ORPHANED, CLEANED
  <2>1. BlocksOK(l)'
    <3>1. ~Resumes(l) /\ ~Reaps(l)
      BY <1>2, <2>0, Zenon DEF NodeOK, BlocksOK, Idles
    <3>2. fut'[l].state # ORPHANED
      BY <1>5, <2>0, Zenon
    <3> QED
      BY <1>5, <1>6, <2>0, <3>1, <3>2, Zenon DEF BlocksOK
  <2>2. FutureOK(l)'
    <3>1. fut'[l].state # WAITING /\ fut'[l].state \notin {CANCELLED, DETACHED, CLEANED}
      BY <1>5, <2>0, Zenon
    <3>2. Quiet(l)'
      BY <1>11, Zenon DEF Quiet
    <3> QED
      BY <1>5, <1>11, <2>0, <3>1, <3>2, Zenon DEF FutureOK
  <2>3. MineOK(l)'
    BY <1>1, <1>3, Zenon DEF MineOK
  <2>4. LeafOK(l)'
    <3>1. l \notin reg
      BY <1>2 DEF Idles
    <3>2. CASE fut'[l].state = PENDING /\ reg' = reg \cup {l}
      <4>1. l \in reg'
        BY <3>2
      <4> QED
        BY <1>6, <1>11, <2>0, <3>2, <4>1, Zenon DEF LeafOK
    <3>3. CASE fut'[l].state = READY /\ reg' = reg
      BY <1>6, <1>11, <2>0, <3>1, <3>3, Zenon DEF LeafOK
    <3> QED
      BY <1>5, <3>2, <3>3, Zenon
  <2> QED
    BY <2>1, <2>2, <2>3, <2>4, Zenon DEF NodeOK
<1>13. \A nm : nm # "call" => \A x : (Has(nm, x)' <=> Has(nm, x))
  BY <1>2, <1>4, Zenon
<1>14. OwnerOK(l)'
  <2>1. fut'[l].state # WAITING
    BY <1>5, SMT DEF PENDING, READY, WAITING
  <2>2. PICK u \in Tasks : Has("poll", u) /\ Awaits(u, l)
    BY <1>2, <1>3, Zenon DEF OwnerOK
  <2>3. Has("poll", u)' /\ Awaits(u, l)'
    <3>1. Has("poll", u)'
      BY <1>13, <2>2, SMT
    <3>2. Awaits(u, l)'
      BY <1>1, <2>2, SameSites, Zenon
    <3> QED
      BY <3>1, <3>2
  <2> QED
    BY <1>11, <2>1, <2>3, Zenon DEF OwnerOK
<1>15. ASSUME NEW u \in Tasks, Awaits(u, l), Waits(u) PROVE Linked(u, l)'
  <2>1. (Has("poll", u)' <=> Has("poll", u)) /\ ~Has("on_drop", u)' /\ ~Has("extract", u)'
    BY <1>2, <1>13, SMT
  <2>2. fut'[l].state \in {PENDING, READY}
    BY <1>5
  <2> QED
    BY <1>2, <1>5, <1>6, <1>15, <2>1, <2>2, CallerLinked, SMT
<1> QED
  BY <1>2, <1>3, <1>4, <1>8, <1>9, <1>10, <1>12, <1>14, <1>15, Concluded, SMT

(* CallTask: the constructor of an async function runs its body up to the   *)
(* await.                                                                   *)
LEMMA CallTaskKeeps ==
  ASSUME IInv, CallTask PROVE IInv'
<1> SUFFICES ASSUME NEW t, t = Arg, NEW n, n = Callee[t], NEW k, k = Last(t) + 1 PROVE IInv'
  BY Zenon
<1>1. /\ Running("call") /\ t \in Tasks /\ live' = live \cup {Fut(t), Drp(t), Closure(t)}
      /\ frame' = [frame EXCEPT ![t].mode = "running"] /\ Then(<<Op("call", n), Op("poll", t)>>)
      /\ cleanups' = cleanups /\ fut' = fut /\ reg' = reg /\ fresh' = fresh /\ mine' = mine /\ ran' = ran
  BY DEF CallTask, Await
<1>2. /\ todo # <<>> /\ Typed /\ Ordered /\ Has("call", t) /\ t \in Nodes
      /\ \A nm, x : Has(nm, x) <=> (nm = "call" /\ x = t) \/ Below(nm, x)
      /\ \A nm, x : Below(nm, x) => nm \in Beneath /\ <<nm, x>> \in AllOps
      /\ \A nm \in Control : ~Below(nm, t) /\ (Has(nm, t) => nm = "call")
      /\ \A x : ~Has("drop", x) /\ ~Has("on_drop", x) /\ ~Has("extract", x) /\ ~Has("reap", x) /\ ~Has("complete", x)
            /\ ~Has("publish", x) /\ ~Has("end", x)
      /\ NodeOK(t) /\ OwnerOK(t) /\ Idles(t) /\ ~Has("release", t)
      /\ TaskOK(t) /\ SitesOK(t)
  BY <1>1, CallFacts, Zenon DEF IInv
<1>3. /\ fut[t].state = PENDING /\ fut[t].waker = None /\ ~Alive(t) /\ ~Works(t) /\ frame[t].mode = "new"
      /\ frame[t].k = k /\ frame[t].awaiting = None /\ ran[t] = <<>> /\ t \notin reg /\ t \notin Leaves
            /\ t \notin fresh
      /\ k \in Nat /\ k > 0 /\ Last(t) \in Nat /\ k \in 1 .. Last(t) + 1
  <2>1. Last(t) \in Nat
    BY <1>1, Sites, Zenon
  <2>2. t \notin fresh
    BY <1>2, Zenon DEF NodeOK, MineOK
  <2> QED
    BY <1>1, <1>2, <2>1, <2>2, CalleeAssumption, SMT DEF Idles, TaskOK, NewOK
<1>4. n = At(t, k) /\ n \in Nodes /\ n # t /\ Idles(n) /\ ~Has("call", n) /\ n \notin Roots /\ n \notin mine
            /\ n \notin fresh /\ NodeOK(n)
  <2>1. n \in Nodes
    BY <1>1, CalleeAssumption, Zenon
  <2>2. n = At(t, k) /\ ToCall(t, k)
    BY <1>3, SMT DEF At, ToCall
  <2>3. Idles(n) /\ ~Has("call", n)
    BY <1>2, <1>3, <2>1, <2>2, Zenon DEF SitesOK
  <2>4. n \notin Roots
    BY <1>1, <1>3, <2>2, Sites, SMTT(30)
  <2> QED
    BY <1>2, <2>1, <2>2, <2>3, <2>4, SMT DEF Typed, IInv
<1>5. /\ ~Works(n) /\ \A nm \in Control : ~Has(nm, n)
  <2>1. ~Alive(n)
    BY <1>4, Zenon DEF Idles
  <2>2. CASE n \in Tasks
    <3>1. TaskOK(n)
      BY <2>2, Zenon DEF IInv
    <3>2. ~Works(n)
      BY <2>1, <3>1, Zenon DEF TaskOK, WorksOK
    <3> QED
      BY <1>2, <1>4, <3>1, <3>2, SMT DEF TaskOK, OpsOK, Control
  <2>3. CASE n \notin Tasks
    <3>1. ~Works(n)
      <4> SUFFICES ASSUME Works(n) PROVE FALSE
        OBVIOUS
      <4>1. Closure(n) \in Blocks
        BY <1>2, SMT DEF Works, Typed
      <4>2. \A x : Closure(n) # Fut(x) /\ Closure(n) # Drp(x) /\ Closure(n) # Resume(x) /\ Closure(n) # Reap(x)
                  /\ (Closure(n) = Closure(x) => n = x)
        BY BlockNames, SMT
      <4> QED
        BY <2>3, <4>1, <4>2, Zenon DEF Blocks
    <3>2. \A nm \in Control : ~Has(nm, n)
      <4> SUFFICES ASSUME NEW nm \in Control, Has(nm, n) PROVE FALSE
        OBVIOUS
      <4>1. nm \in Beneath /\ <<nm, n>> \in AllOps
        BY <1>2, <1>4
      <4> QED
        BY <2>3, <4>1, SMT DEF Control, Beneath, AllOps, NodeOps
    <3> QED
      BY <3>1, <3>2
  <2> QED
    BY <2>2, <2>3
<1>6. /\ todo' \in Seq(AllOps) /\ Ordered' /\ ~Running("drop")' /\ ~Running("on_drop")'
      /\ \A nm, x : Has(nm, x)' <=> (nm = "call" /\ x = n) \/ (nm = "poll" /\ x = t) \/ Below(nm, x)
  <2>1. Fits("poll", t)
    BY <1>2, FitsOn, SMT
  <2>2. Op("call", n) \in AllOps /\ Op("poll", t) \in AllOps /\ "poll" \in Beneath
    BY <1>1, <1>4, SMT DEF Op, AllOps, TaskOps, NodeOps, Beneath
  <2>3. Fits("call", n)
    <3>1. \A nm \in Control : ~Below(nm, n)
      BY <1>2, <1>5, Zenon
    <3> QED
      BY <3>1, FitsOn, SMT
  <2>4. Typed /\ Ordered /\ todo # <<>> /\ Then(<<Op("call", n), Op("poll", t)>>) /\ "call" # "release"
    BY <1>1, <1>2, SMT
  <2>5. /\ todo' \in Seq(AllOps) /\ Ordered' /\ \A nm : Running(nm)' <=> nm = "call"
        /\ \A nm, x : Has(nm, x)' <=> (nm = "call" /\ x = n) \/ (nm = "poll" /\ x = t) \/ Below(nm, x)
    BY <1>4, <2>1, <2>2, <2>3, <2>4, Then2, SMT
  <2>6. "drop" # "call" /\ "on_drop" # "call"
    BY SMT
  <2> QED
    BY <2>5, <2>6, Zenon
<1>7. /\ frame' \in [Tasks -> Frames] /\ frame'[t].k = k /\ frame'[t].mode = "running" /\ frame'[t].awaiting = None
      /\ \A u \in Tasks : u # t => frame'[u] = frame[u]
  <2>1. frame \in [Tasks -> Frames] /\ frame[t] \in Frames
    BY <1>1, <1>2, SMT DEF Typed
  <2>2. frame' = [frame EXCEPT ![t] = [frame[t] EXCEPT !.mode = "running"]]
    BY <1>1
  <2> SUFFICES ASSUME NEW f \in Frames, f = frame[t]
               PROVE  /\ [f EXCEPT !.mode = "running"] \in Frames /\ [f EXCEPT !.mode = "running"].k = f.k
                      /\ [f EXCEPT !.mode = "running"].mode = "running"
                      /\ [f EXCEPT !.mode = "running"].awaiting = f.awaiting
    BY <1>1, <1>3, <2>1, <2>2
  <2>3. "running" \in Modes
    BY SMT DEF Modes
  <2>4. [f EXCEPT !.mode = "running"] \in Frames
    BY <2>3, Zenon DEF Frames
  <2> QED
    BY <2>4, SMT DEF Frames
<1>8. /\ \A x : x # t => (Alive(x)' <=> Alive(x)) /\ (Drops(x)' <=> Drops(x)) /\ (Works(x)' <=> Works(x))
      /\ \A x : (Resumes(x)' <=> Resumes(x)) /\ (Reaps(x)' <=> Reaps(x))
      /\ Alive(t)' /\ Drops(t)' /\ Works(t)' /\ live' \subseteq Blocks
  <2>1. Fut(t) \in Blocks /\ Drp(t) \in Blocks /\ Closure(t) \in Blocks /\ live \subseteq Blocks
    BY <1>1, <1>2, Zenon DEF Blocks, Typed
  <2>3. live' \subseteq Blocks
    BY <1>1, <2>1, SMT
  <2>4. \A x : x # t => (Alive(x)' <=> Alive(x)) /\ (Drops(x)' <=> Drops(x)) /\ (Works(x)' <=> Works(x))
    BY <1>1, BlockNames, SMTT(30) DEF Alive, Drops, Works
  <2>5. \A x : (Resumes(x)' <=> Resumes(x)) /\ (Reaps(x)' <=> Reaps(x))
    BY <1>1, BlockNames, Zenon DEF Resumes, Reaps
  <2>6. Alive(t)' /\ Drops(t)' /\ Works(t)'
    BY <1>1, Zenon DEF Alive, Drops, Works
  <2> QED
    BY <2>3, <2>4, <2>5, <2>6
<1>9. ASSUME NEW x \in Nodes \ {t, n} PROVE Still(x)
  BY <1>1, <1>2, <1>6, <1>7, <1>8, Zenon DEF Still, Alike
<1>10. Untouched({t, n})
  BY <1>1, <1>9, Zenon DEF Untouched
<1>11. Typed'
  <2>1. ASSUME NEW u \in Tasks PROVE frame'[u].k <= Last(u)' + 1
    <3>1. Last(u)' = Last(u) /\ frame[u].k <= Last(u) + 1
      BY <1>1, <1>2, SameSites, Shapes, Zenon
    <3> QED
      BY <1>3, <1>7, <3>1, SMT
  <2> QED
    BY <1>1, <1>2, <1>6, <1>7, <1>8, <2>1, SMT DEF Typed
<1>12. \A x \in Nodes : DropOK(x)'
  BY <1>6, NoDrop
<1>13. /\ Has("poll", t)' /\ ~Has("poll", t)
       /\ ~Has("extract", t)' /\ ~Has("call", t)' /\ ~Has("on_drop", t)' /\ ~Has("cleanup", t)' /\ ~Has("publish", t)'
             /\ ~Has("end", t)'
       /\ ~Has("run", t)' /\ ~Has("reap", t)' /\ ~Has("release", t)' /\ ~Quiet(t)'
       /\ ~Waits(t)
  <2>1. \A nm : nm # "poll" => (Has(nm, t)' <=> Below(nm, t))
    BY <1>4, <1>6, Zenon
  <2>2. "reap" \notin Beneath
    BY SMT DEF Beneath
  <2>3. Has("poll", t)' /\ ~Has("reap", t)' /\ ~Has("release", t)'
    <3>1. "reap" # "poll" /\ "release" # "poll"
      BY SMT
    <3> QED
      BY <1>2, <1>6, <2>1, <2>2, <3>1, Zenon
  <2>4. ~Has("poll", t)
    BY <1>2, SMT DEF Control
  <2>5. ~Waits(t)
    BY <1>2, <1>3, <2>4, Zenon DEF Waits, Parks
  <2> QED
    BY <1>2, <2>1, <2>3, <2>4, <2>5, SMT DEF Control, Quiet
<1>14. TaskOK(t)'
  <2>0. Last(t)' = Last(t) /\ Awaited(t)' = n
    <3>1. Last(t)' = Last(t)
      BY <1>1, SMT DEF Last
    <3>2. k > Last(t)
      BY <1>3, SMT
    <3> QED
      BY <1>1, <1>7, <3>1, <3>2, Zenon DEF Awaited
  <2>1. NewOK(t)' /\ ModeOK(t)'
    BY <1>1, <1>3, <1>7, SMT DEF NewOK, ModeOK, PENDING, CANCELLED
  <2>2. WorksOK(t)'
    <3>1. Len(ran[t]) = Last(t) - k + 1 /\ PENDING # CANCELLED /\ PENDING \notin {READY, CLEANED}
      BY <1>3, SMT DEF PENDING, CANCELLED, READY, CLEANED
    <3> QED
      BY <1>1, <1>3, <1>4, <1>7, <1>8, <1>13, <2>0, <3>1, SMT DEF WorksOK
  <2>3. DoneOK(t)'
    BY <1>8, Zenon DEF DoneOK
  <2>4. OpsOK(t)'
    BY <1>8, <1>13, Zenon DEF OpsOK
  <2>5. RanOK(t)'
    BY <1>1, <1>2, <2>0, Zenon DEF TaskOK, RanOK
  <2> QED
    BY <2>1, <2>2, <2>3, <2>4, <2>5, Zenon DEF TaskOK
<1>15. NodeOK(t)'
  <2>0. /\ PENDING # ORPHANED /\ PENDING # WAITING /\ READY # PENDING /\ PENDING \notin {CANCELLED, DETACHED, CLEANED}
        /\ Resume(t) # None /\ Reap(t) # None
    BY <1>2, NullAssumption, SMT DEF PENDING, WAITING, READY, CANCELLED, DETACHED, ORPHANED, CLEANED
  <2>1. BlocksOK(t)'
    <3>1. ~Resumes(t) /\ ~Reaps(t)
      BY <1>2, <1>3, <2>0, Zenon DEF NodeOK, BlocksOK
    <3> QED
      BY <1>1, <1>3, <1>8, <2>0, <3>1, Zenon DEF BlocksOK
  <2>2. FutureOK(t)'
    BY <1>1, <1>3, <1>13, <2>0, Zenon DEF FutureOK
  <2>3. MineOK(t)'
    BY <1>1, <1>3, <1>8, Zenon DEF MineOK
  <2> QED
    BY <1>3, <2>1, <2>2, <2>3, Zenon DEF NodeOK
<1>16. /\ Has("call", n)' /\ (\A nm : nm # "call" => (Has(nm, n)' <=> Has(nm, n))) /\ Idles(n)'
       /\ n \in Tasks => frame'[n] = frame[n] /\ frame[n].mode = "new"
  <2>1. n \in Tasks => frame'[n] = frame[n]
    BY <1>4, <1>7
  <2>2. \A nm : nm # "call" => (Has(nm, n)' <=> Has(nm, n))
    BY <1>2, <1>4, <1>6, Zenon
  <2>3. Has("call", n)'
    BY <1>6
  <2> QED
    BY <1>1, <1>4, <1>8, <2>1, <2>2, <2>3, Zenon DEF Idles
<1>17. NodeOK(n)'
  <2>1. BlocksOK(n)'
    BY <1>1, <1>4, <1>8, Zenon DEF NodeOK, BlocksOK
  <2>2. FutureOK(n)'
    <3>1. PENDING # READY /\ "release" # "call" /\ fut[n].state = PENDING
      BY <1>4, SMT DEF PENDING, READY, Idles
    <3> QED
      BY <1>1, <1>4, <1>8, <1>16, <3>1, Zenon DEF NodeOK, FutureOK
  <2>3. MineOK(n)'
    BY <1>1, <1>4, Zenon DEF MineOK
  <2>4. n \in Leaves => LeafOK(n)'
    <3>1. (Has("complete", n)' <=> Has("complete", n)) /\ (Has("on_drop", n)' <=> Has("on_drop", n))
      BY <1>16, SMT
    <3> QED
      BY <1>1, <1>4, <1>8, <3>1, Zenon DEF NodeOK, LeafOK
  <2> QED
    BY <2>1, <2>2, <2>3, <2>4, Zenon DEF NodeOK
<1>18. /\ \A u \in Tasks : \A x : u # t => (Awaits(u, x)' <=> Awaits(u, x))
       /\ Awaits(t, n)' /\ \A x : Awaits(t, x)' => x = n
  <2>1. \A u \in Tasks : \A x : u # t => (Awaits(u, x)' <=> Awaits(u, x))
    BY <1>1, <1>7, SameSites, Zenon
  <2>2. Awaited(t)' = n
    <3>1. Last(t)' = Last(t)
      BY <1>1, SMT DEF Last
    <3>2. k > Last(t)
      BY <1>3, SMT
    <3> QED
      BY <1>1, <1>7, <3>1, <3>2, Zenon DEF Awaited
  <2> QED
    BY <1>3, <1>7, <2>1, <2>2, Zenon DEF Awaits
<1>19. \A u \in Tasks : \A j \in 1 .. Last(u) + 1 : At(u, j) = n => u = t /\ j = k
  <2>1. \A u \in Tasks : \A j \in 1 .. Last(u) + 1 : At(u, j) = At(t, k) /\ At(u, j) \in Nodes => u = t /\ j = k
    <3> SUFFICES ASSUME NEW u \in Tasks, NEW j \in 1 .. Last(u) + 1, At(u, j) = At(t, k), At(u, j) \in Nodes
                 PROVE  u = t /\ j = k
      OBVIOUS
    <3>1. k \in 1 .. Last(t) + 1 /\ t \in Tasks
      BY <1>1, <1>3
    <3> QED
      BY <3>1, Sites, SMT
  <2> QED
    BY <1>4, <2>1, Zenon
<1>20. ASSUME NEW u \in Tasks, Awaits(u, n) PROVE u = t
  <2>1. frame[u].k \in 1 .. Last(u) + 1 /\ n = At(u, frame[u].k)
    BY <1>4, <1>20, Sites, Zenon
  <2> QED
    BY <1>19, <2>1, Zenon
<1>21. OwnerOK(n)'
  <2>1. ~Alive(n)'
    BY <1>16, Zenon DEF Idles
  <2> QED
    BY <1>1, <1>13, <1>18, <2>1, Zenon DEF OwnerOK
<1>22. \A nm : nm # "call" /\ nm # "poll" => \A x : (Has(nm, x)' <=> Has(nm, x))
  BY <1>2, <1>6, Zenon
<1>23. \A u \in Tasks : u # t => (Has("poll", u)' <=> Has("poll", u))
  <2>1. "poll" # "call"
    BY SMT
  <2> QED
    BY <1>2, <1>6, <2>1, Zenon
<1>24. OwnerOK(t)'
  <2>1. fut'[t].state # WAITING
    BY <1>1, <1>3, SMT DEF PENDING, WAITING
  <2>2. t \in mine \/ \E u \in Tasks : Has("poll", u) /\ Awaits(u, t)
    BY <1>2, Zenon DEF OwnerOK
  <2>3. CASE t \in mine
    BY <1>1, <1>13, <2>1, <2>3, Zenon DEF OwnerOK
  <2>4. ASSUME NEW u \in Tasks, Has("poll", u), Awaits(u, t) PROVE OwnerOK(t)'
    <3>1. u # t
      BY <1>13, <2>4
    <3>2. Has("poll", u)' /\ Awaits(u, t)'
      BY <1>18, <1>23, <2>4, <3>1
    <3> QED
      BY <1>13, <2>1, <3>2, Zenon DEF OwnerOK
  <2> QED
    BY <2>2, <2>3, <2>4
<1>25. ASSUME NEW u \in Tasks, u # t, Awaits(u, t), Waits(u) PROVE Linked(u, t)'
  <2>1. (Has("poll", u)' <=> Has("poll", u)) /\ ~Has("on_drop", u)' /\ ~Has("extract", u)'
    <3>1. ~Has("on_drop", u)' /\ ~Has("extract", u)'
      BY <1>2, <1>22, SMT
    <3> QED
      BY <1>23, <1>25, <3>1
  <2> QED
    BY <1>1, <1>2, <1>3, <1>8, <1>25, <2>1, CallerLinked, SMT
<1>26. LinkOK(t)'
  <2>1. Linked(t, n)'
    BY <1>13, <1>16, Zenon DEF Linked, Parks
  <2> QED
    BY <1>18, <2>1, Zenon DEF LinkOK
<1>27. SitesOK(t)'
  <2> SUFFICES ASSUME NEW j \in 1 .. Last(t) + 1, NEW x \in Nodes, At(t, j) = x, ToCall(t, j)'
               PROVE  Idles(x)' /\ ~Has("call", x)'
    BY <1>1, SameSites, Zenon DEF SitesOK
  <2>1. ToCall(t, j) /\ j # k
    BY <1>3, <1>7, <1>13, SMT DEF ToCall
  <2>2. Idles(x) /\ ~Has("call", x)
    BY <1>2, <2>1, Zenon DEF SitesOK
  <2>3. x # n
    BY <1>1, <1>19, <2>1, Zenon
  <2>4. Placid(x)
    BY <1>2, <1>9, <2>2, <2>3, StillPlacid, SMT
  <2> QED
    BY <2>2, <2>4, Zenon DEF Placid, Visible, Idles
<1>28. AwaitingOK(t)'
  BY <1>7, Zenon DEF AwaitingOK
<1>29. ASSUME n \in Tasks PROVE TaskOK(n)' /\ LinkOK(n)' /\ SitesOK(n)' /\ AwaitingOK(n)' /\ ~Waits(n)
  <2>0. n \in Tasks /\ TaskOK(n) /\ SitesOK(n) /\ AwaitingOK(n) /\ frame'[n] = frame[n] /\ frame[n].mode = "new"
              /\ ~Works(n)'
    BY <1>4, <1>5, <1>8, <1>16, <1>29, Zenon DEF IInv
  <2>1. NewOK(n)' /\ ModeOK(n)'
    BY <1>1, <1>4, <1>5, <1>8, <2>0, SMT DEF TaskOK, NewOK, ModeOK, Last
  <2>2. WorksOK(n)' /\ DoneOK(n)'
    BY <2>0, Zenon DEF WorksOK, DoneOK
  <2>3. /\ ~Has("poll", n)' /\ ~Has("extract", n)' /\ ~Has("run", n)' /\ ~Has("publish", n)' /\ ~Has("end", n)'
        /\ ~Has("on_drop", n)' /\ ~Has("cleanup", n)' /\ ~Has("reap", n)' /\ ~Has("poll", n) /\ ~Has("extract", n)
              /\ ~Has("on_drop", n)
    BY <1>2, <1>5, <1>16, SMT DEF Control
  <2>4. OpsOK(n)'
    BY <2>0, <2>3, Zenon DEF OpsOK
  <2>5. RanOK(n)'
    BY <1>1, <2>0, Zenon DEF TaskOK, RanOK, Last
  <2>6. LinkOK(n)'
    BY <2>0, <2>3, NoLink, Zenon DEF Waits, Parks
  <2>7. SitesOK(n)'
    <3> SUFFICES ASSUME NEW j \in 1 .. Last(n) + 1, NEW x \in Nodes, At(n, j) = x, ToCall(n, j)'
                 PROVE  Idles(x)' /\ ~Has("call", x)'
      BY <1>1, <2>0, SameSites, Zenon DEF SitesOK
    <3>1. ToCall(n, j)
      BY <2>0, Zenon DEF ToCall
    <3>2. Idles(x) /\ ~Has("call", x)
      BY <2>0, <3>1, Zenon DEF SitesOK
    <3>3. x # n
      BY <1>4, <1>19, <2>0, Zenon
    <3>4. Placid(x)
      BY <1>2, <1>9, <3>2, <3>3, StillPlacid, SMT
    <3> QED
      BY <3>2, <3>4, Zenon DEF Placid, Visible, Idles
  <2>8. AwaitingOK(n)'
    BY <1>1, <2>0, SameAwaiting, Zenon
  <2>9. ~Waits(n)
    BY <1>5, <2>3, Zenon DEF Waits, Parks
  <2> QED
    BY <2>1, <2>2, <2>4, <2>5, <2>6, <2>7, <2>8, <2>9, Zenon DEF TaskOK
<1>30. /\ \A u \in Tasks, x \in Nodes : u \notin {t, n}
             /\ x \in {t, n} => Visible(x) \/ Linked(u, x)' \/ ~(Awaits(u, x) /\ Waits(u))
       /\ \A u \in Tasks, x \in Nodes : u \in {t, n} /\ x \notin {t, n} => Steady(u) \/ ~(Awaits(u, x) /\ Waits(u))
       /\ \A u \in Tasks, x \in Nodes : u \notin {t, n} /\ x \in {t, n} /\ Idles(x) /\ ~Has("call", x) =>
           \/ Idles(x)' /\ ~Has("call", x)'
           \/ \A j \in 1 .. Last(u) + 1 : ~(At(u, j) = x /\ ToCall(u, j))
  BY <1>2, <1>13, <1>19, <1>20, <1>25, <1>29, SMT
<1> QED
  BY <1>6, <1>10, <1>11, <1>12, <1>14, <1>15, <1>17, <1>21, <1>24, <1>26, <1>27, <1>28, <1>29, <1>30, Concluded, SMT

-----------------------------------------------------------------------------
(* The invariant.                                                           *)

(* The invariant holds before the first call.                               *)
LEMMA InitIInv ==
  ASSUME Init PROVE IInv
<1>1. /\ cleanups \in Programs
      /\ fut = [n \in Nodes |-> [state |-> PENDING, waker |-> None]]
      /\ frame = [t \in Tasks |-> [k |-> Len(cleanups[t]) + 1, mode |-> "new", awaiting |-> None]]
      /\ live = {} /\ reg = {} /\ fresh = Roots /\ mine = {}
      /\ ran = [t \in Tasks |-> <<>>] /\ todo = <<>>
  BY DEF Init
<1>2. ASSUME NEW t \in Tasks PROVE Len(cleanups[t]) \in Nat
  <2>1. cleanups[t] \in Seq(Leaves \cup {Plain})
    BY <1>1, ProgramsAssumption
  <2> QED
    BY <2>1, SMT
<1>3. \A nm, x : ~Has(nm, x)
  BY <1>1, SMT DEF Has
<1>4. \A n \in Nodes : fut[n].state = PENDING /\ fut[n].waker = None
  BY <1>1, SMT
<1>5. \A t \in Tasks : frame[t].k = Last(t) + 1 /\ frame[t].mode = "new" /\ frame[t].awaiting = None /\ ran[t] = <<>>
            /\ t \in Nodes
  <2> SUFFICES ASSUME NEW t \in Tasks
               PROVE  frame[t].k = Last(t) + 1 /\ frame[t].mode = "new" /\ frame[t].awaiting = None /\ ran[t] = <<>> /\ t \in Nodes
    OBVIOUS
  <2>1. frame[t] = [k |-> Len(cleanups[t]) + 1, mode |-> "new", awaiting |-> None] /\ ran[t] = <<>>
    BY <1>1
  <2>2. t \in Nodes
    BY DEF Nodes
  <2> QED
    BY <2>1, <2>2 DEF Last
<1>6. \A n : ~Alive(n) /\ ~Works(n) /\ ~Drops(n) /\ ~Resumes(n) /\ ~Reaps(n)
  BY <1>1, SMT DEF Alive, Works, Drops, Resumes, Reaps
<1>7. Typed
  <2>1. fut \in [Nodes -> Futures]
    <3>1. [state |-> PENDING, waker |-> None] \in Futures
      BY SMT DEF Futures, Wakers, PENDING, CLEANED
    <3> QED
      BY <1>1, <3>1, SMT
  <2>2. frame \in [Tasks -> Frames]
    <3>1. \A t \in Tasks : [k |-> Len(cleanups[t]) + 1, mode |-> "new", awaiting |-> None] \in Frames
      <4> SUFFICES ASSUME NEW t \in Tasks PROVE [k |-> Len(cleanups[t]) + 1, mode |-> "new", awaiting |-> None] \in Frames
        OBVIOUS
      <4>1. Len(cleanups[t]) + 1 \in Nat
        BY <1>2, SMT
      <4> QED
        BY <4>1, SMT DEF Frames, Modes
    <3> QED
      BY <1>1, <3>1, SMT
  <2>3. \A t \in Tasks : frame[t].k <= Last(t) + 1
    <3> SUFFICES ASSUME NEW t \in Tasks PROVE frame[t].k <= Last(t) + 1
      OBVIOUS
    <3>1. Len(cleanups[t]) \in Nat /\ frame[t].k = Len(cleanups[t]) + 1
      BY <1>2, <1>5 DEF Last
    <3> QED
      BY <3>1, SMT DEF Last
  <2>4. live \subseteq Blocks /\ reg \subseteq Leaves /\ mine \subseteq Roots /\ fresh \subseteq Roots
    BY <1>1, SMT
  <2>5. ran \in [Tasks -> Seq(Nat)] /\ todo \in Seq(AllOps)
    BY <1>1, SMT
  <2> QED
    BY <1>1, <2>1, <2>2, <2>3, <2>4, <2>5 DEF Typed
<1>8. Ordered
  BY <1>1, SMT DEF Ordered
<1>9. ASSUME NEW n \in Nodes PROVE Idles(n)
  BY <1>1, <1>4, <1>5, <1>6, SMT DEF Idles
<1>10. ASSUME NEW t \in Tasks PROVE TaskOK(t) /\ LinkOK(t) /\ SitesOK(t) /\ AwaitingOK(t)
  <2>1. NewOK(t)
    BY <1>4, <1>5, <1>6, Zenon DEF NewOK
  <2>2. ModeOK(t) /\ WorksOK(t) /\ DoneOK(t)
    BY <1>5, <1>6, SMT DEF ModeOK, WorksOK, DoneOK
  <2>3. OpsOK(t)
    BY <1>3, Zenon DEF OpsOK
  <2>4. RanOK(t)
    BY <1>5, SMT DEF RanOK, Descending
  <2>5. LinkOK(t)
    BY <1>3, <1>6, Zenon DEF LinkOK, Linked, Parks
  <2>6. SitesOK(t)
    BY <1>3, <1>9, Zenon DEF SitesOK
  <2>7. AwaitingOK(t)
    BY <1>5, Zenon DEF AwaitingOK
  <2> QED
    BY <2>1, <2>2, <2>3, <2>4, <2>5, <2>6, <2>7, Zenon DEF TaskOK
<1>11. ASSUME NEW n \in Nodes PROVE NodeOK(n) /\ OwnerOK(n) /\ DropOK(n)
  <2>0. Resume(n) # None /\ Reap(n) # None
    BY NullAssumption, SMT
  <2>1. BlocksOK(n)
    BY <1>6, Zenon DEF BlocksOK
  <2>2. FutureOK(n)
    <3>1. PENDING # WAITING /\ PENDING # READY
      BY SMT DEF PENDING, WAITING, READY
    <3> QED
      BY <1>3, <1>4, <1>6, <2>0, <3>1, Zenon DEF FutureOK, Quiet
  <2>3. MineOK(n)
    BY <1>1, <1>3, <1>5, CalleeAssumption, SMT DEF MineOK
  <2>4. LeafOK(n)
    BY <1>1, <1>3, <1>4, <1>6, SMT DEF LeafOK, PENDING, CANCELLED
  <2>5. OwnerOK(n)
    BY <1>3, <1>6, Zenon DEF OwnerOK
  <2>6. DropOK(n)
    BY <1>1, Zenon DEF DropOK, Running
  <2> QED
    BY <2>1, <2>2, <2>3, <2>4, <2>5, <2>6, Zenon DEF NodeOK
<1> QED
  BY <1>7, <1>8, <1>10, <1>11, Zenon DEF IInv

(* The invariant does not depend on anything but the state.                 *)
LEMMA StutterKeeps ==
  ASSUME IInv, UNCHANGED vars PROVE IInv'
<1>1. /\ cleanups' = cleanups /\ fut' = fut /\ frame' = frame /\ live' = live /\ reg' = reg /\ fresh' = fresh
            /\ mine' = mine
      /\ ran' = ran /\ todo' = todo
  BY DEF vars
<1>2. \A nm, x : Has(nm, x)' <=> Has(nm, x)
  BY <1>1, Zenon DEF Has
<1>3. \A x : /\ (Alive(x)' <=> Alive(x)) /\ (Drops(x)' <=> Drops(x)) /\ (Resumes(x)' <=> Resumes(x))
            /\ (Reaps(x)' <=> Reaps(x))
             /\ (Works(x)' <=> Works(x))
  BY <1>1, Zenon DEF Alive, Drops, Resumes, Reaps, Works
<1>4. Untouched({})
  BY <1>1, <1>2, <1>3, Zenon DEF Untouched, Still, Alike
<1>5. Typed' /\ Ordered'
  <2>1. Typed /\ Ordered
    BY DEF IInv
  <2>2. Typed'
    BY <1>1, <2>1, Zenon DEF Typed, Last
  <2>3. Ordered'
    BY <1>1, <2>1, Zenon DEF Ordered
  <2> QED
    BY <2>2, <2>3
<1>6. ASSUME NEW n \in Nodes PROVE DropOK(n)'
  <2>1. DropOK(n)
    BY DEF IInv
  <2>2. Quits(n) => Quits(n)'
    BY <1>1, Zenon DEF Quits, Calm, Below
  <2>3. \A t \in Tasks : Works(t)' /\ Awaits(t, n)' => Works(t) /\ Awaits(t, n)
    BY <1>1, <1>3, SameSites, Zenon
  <2>4. \A nm : Running(nm)' => Running(nm)
    BY <1>1, Zenon DEF Running
  <2>5. Arg' = Arg
    BY <1>1 DEF Arg
  <2> QED
    BY <1>1, <1>2, <1>3, <2>1, <2>2, <2>3, <2>4, <2>5, Zenon DEF DropOK
<1> QED
  BY <1>4, <1>5, <1>6, Concluded, SMT

(* The invariant holds in every behaviour: every operation, in any order    *)
(* the stack allows, keeps it.                                              *)
THEOREM Inductive == Spec => []IInv
<1>1. Init => IInv
  BY InitIInv
<1>2. IInv /\ [Next]_vars => IInv'
  <2> SUFFICES ASSUME IInv, [Next]_vars PROVE IInv'
    OBVIOUS
  <2>1. CASE Execute
    BY <2>1, CallTaskKeeps, CallLeafKeeps, PollKeeps, ExtractKeeps, RunKeeps, FinishKeeps, PublishKeeps, RunReapKeeps,
       Future_dropKeeps, DeregisterKeeps, CascadeKeeps, CleanupKeeps, ReleaseKeeps, EndKeeps, UserReturnKeeps, Zenon DEF Execute
  <2>2. ASSUME NEW t \in Tasks, Call(t) \/ Spawn(t) \/ Drop(t) \/ DropAgain(t) PROVE IInv'
    BY <2>2, CallKeeps, SpawnKeeps, DropKeeps, DropAgainKeeps, Zenon
  <2>3. ASSUME NEW l \in Leaves, Fire(l) PROVE IInv'
    BY <2>3, FireKeeps, Zenon
  <2>4. CASE UNCHANGED vars
    BY <2>4, StutterKeeps, Zenon
  <2> QED
    BY <2>1, <2>2, <2>3, <2>4, Zenon DEF Next
<1> QED
  BY <1>1, <1>2, PTL DEF Spec

-----------------------------------------------------------------------------
(* What follows from it.                                                    *)

(* Every block the running operation uses is live.                          *)
LEMMA InUse ==
  ASSUME IInv PROVE NoUseAfterFree
<1> SUFFICES ASSUME todo # <<>>, NEW n, n = Arg, NEW o, o = Head(todo)[1] PROVE Uses(Head(todo)) \subseteq live
  BY Zenon DEF NoUseAfterFree
<1>1. Typed /\ Ordered /\ Running(o) /\ Head(todo) = <<o, n>> /\ <<o, n>> \in AllOps /\ Has(o, n)
  <2>1. Typed /\ Ordered /\ Running(o)
    BY DEF IInv, Running
  <2> QED
    BY <2>1, HeadFacts, Zenon
<1>2. /\ o \in {"call", "poll", "extract", "run", "publish", "end", "on_drop", "cleanup", "drop", "release", "reap", "complete", "user"}
      /\ n \in Nodes
      /\ o \in {"poll", "extract", "run", "publish", "end", "cleanup", "reap"} => n \in Tasks
      /\ o = "complete" => n \in Leaves
  BY <1>1, SMT DEF AllOps, TaskOps, NodeOps, Nodes
<1>3. NodeOK(n) /\ DropOK(n) /\ (n \in Tasks => TaskOK(n))
  BY <1>2, Zenon DEF IInv
<1>4. /\ n \in Leaves => LeafOK(n)
      /\ CANCELLED # ORPHANED /\ DETACHED # ORPHANED /\ CLEANED # ORPHANED /\ READY # ORPHANED
      /\ fut[n].waker \in {None, Resume(n), Reap(n)}
  BY <1>3, SMT DEF NodeOK, FutureOK, CANCELLED, DETACHED, CLEANED, ORPHANED, READY
<1>5. /\ Fut(n) \in live <=> Alive(n)
      /\ Drp(n) \in live <=> Drops(n)
      /\ Resume(n) \in live <=> Resumes(n)
      /\ Reap(n) \in live <=> Reaps(n)
      /\ Closure(n) \in live <=> Works(n)
      /\ Drops(n) <=> Alive(n) /\ fut[n].state # ORPHANED
      /\ Drops(n) => Env(fut[n].waker) \subseteq live
  <2>1. Drops(n) => fut[n].waker \in live \cup {None}
    BY <1>3, <1>4, Zenon DEF NodeOK, BlocksOK, Resumes, Reaps
  <2> QED
    BY <1>3, <2>1, SMT DEF NodeOK, BlocksOK, Alive, Drops, Resumes, Reaps, Works, Env
<1>6. CASE o = "poll" \/ o = "extract"
  <2>0. n \in Tasks
    BY <1>2, <1>6, Zenon
  <2>1. Waits(n)
    BY <1>1, <1>6, Zenon DEF Waits
  <2>2. Alive(n) /\ Awaited(n) \in Nodes /\ Linked(n, Awaited(n))
    BY <2>0, <2>1, Waiting, Zenon
  <2> SUFFICES ASSUME NEW m, m = Awaited(n) PROVE Uses(Head(todo)) \subseteq live
    OBVIOUS
  <2>3. CASE o = "poll"
    <3>1. \A x : ~Has("call", x)
      <4>1. o # "call" /\ "call" \notin Beneath
        BY <2>3, SMT DEF Beneath
      <4> QED
        BY <1>1, <4>1, HeadFacts, Zenon DEF Running
    <3>2. Alive(m)
      BY <1>1, <2>2, <2>3, <3>1, Zenon DEF Linked
    <3>3. Uses(Head(todo)) = {Fut(n), Fut(m)}
      BY <1>1, <2>3, SMT DEF Uses
    <3> QED
      BY <1>5, <2>2, <3>2, <3>3, SMT DEF Alive
  <2>4. CASE o = "extract"
    <3>1. Alive(m) /\ fut[m].state = READY /\ fut[m].waker = Resume(m) /\ NodeOK(m)
      BY <1>1, <2>2, <2>4, Zenon DEF Linked, IInv
    <3>2. Drops(m) /\ Resumes(m)
      BY <1>4, <3>1, Zenon DEF NodeOK, BlocksOK
    <3>3. Uses(Head(todo)) = {Fut(n), Fut(m), Drp(m)} \cup Env(Resume(m))
      BY <1>1, <2>4, <3>1, SMT DEF Uses
    <3> QED
      BY <1>5, <2>2, <3>1, <3>2, <3>3, SMT DEF Alive, Drops, Resumes, Env
  <2> QED
    BY <1>6, <2>3, <2>4
<1>7. CASE o = "run"
  <2>1. n \in Tasks /\ Works(n) /\ Alive(n)
    BY <1>1, <1>2, <1>3, <1>7, Zenon DEF TaskOK, OpsOK, WorksOK
  <2>2. Uses(Head(todo)) \subseteq {Fut(n), Closure(n)}
    BY <1>1, <1>7, SMT DEF Uses
  <2> QED
    BY <1>5, <2>1, <2>2, SMT
<1>8. CASE o \in {"publish", "complete", "end", "drop"}
  <2>1. Alive(n)
    <3>1. o = "publish" \/ o = "end" => Alive(n)
      BY <1>1, <1>2, <1>3, Zenon DEF TaskOK, OpsOK
    <3>2. o = "complete" => Alive(n)
      BY <1>1, <1>2, <1>4, Zenon DEF LeafOK
    <3>3. o = "drop" => Alive(n)
      BY <1>1, <1>3, Zenon DEF DropOK
    <3> QED
      BY <1>8, <3>1, <3>2, <3>3
  <2>2. Uses(Head(todo)) = {Fut(n)}
    BY <1>1, <1>8, SMT DEF Uses
  <2> QED
    BY <1>5, <2>1, <2>2, SMT
<1>9. CASE o \in {"on_drop", "cleanup"}
  <2>1. Alive(n) /\ fut[n].state = CANCELLED
    <3>1. CASE n \in Tasks
      BY <1>1, <1>3, <1>9, <3>1, SMT DEF TaskOK, OpsOK, WorksOK
    <3>2. CASE n \in Leaves
      <4>1. o = "on_drop" \/ n \in Tasks
        BY <1>2, <1>9, SMT
      <4> QED
        BY <1>1, <1>4, <3>1, <3>2, <4>1, Zenon DEF LeafOK
    <3> QED
      BY <1>2, <3>1, <3>2 DEF Nodes
  <2>2. Uses(Head(todo)) = {Fut(n), Drp(n)}
    BY <1>1, <1>9, SMT DEF Uses
  <2> QED
    BY <1>4, <1>5, <2>1, <2>2, SMT
<1>10. CASE o = "release"
  <2>1. Alive(n) /\ fut[n].state # ORPHANED
    BY <1>1, <1>3, <1>4, <1>10, SMT DEF NodeOK, FutureOK
  <2>2. Uses(Head(todo)) = {Fut(n), Drp(n)} \cup Env(fut[n].waker)
    BY <1>1, <1>10, SMT DEF Uses
  <2> QED
    BY <1>5, <2>1, <2>2, SMT
<1>11. CASE o = "reap"
  <2>1. Alive(n) /\ fut[n].state = READY /\ fut[n].waker = Reap(n)
    BY <1>1, <1>2, <1>3, <1>11, Zenon DEF TaskOK, OpsOK
  <2>2. Reaps(n) /\ Drops(n)
    BY <1>3, <1>4, <2>1, Zenon DEF NodeOK, BlocksOK
  <2>3. Uses(Head(todo)) = {Fut(n), Drp(n), Reap(n)}
    BY <1>1, <1>11, SMT DEF Uses
  <2> QED
    BY <1>5, <2>1, <2>2, <2>3, SMT
<1>12. CASE o \in {"call", "user"}
  <2>1. Uses(Head(todo)) = {}
    BY <1>1, <1>12, SMT DEF Uses
  <2> QED
    BY <2>1, SMT
<1> QED
  BY <1>2, <1>6, <1>7, <1>8, <1>9, <1>10, <1>11, <1>12, SMT

(* No block of a frame, of a future or of a closure is used after its free, *)
(* however completions, drops, cascades and cleanups nest.                  *)
THEOREM UseAfterFree == Spec => []NoUseAfterFree
BY Inductive, InUse, PTL

(* The types.                                                               *)
LEMMA TypeCorrect ==
  ASSUME IInv PROVE TypeOK
<1>1. Typed
  BY DEF IInv
<1>2. fut \in [Nodes -> [state : PENDING .. CLEANED,
                         waker : {None} \cup {Resume(n) : n \in Nodes} \cup {Reap(n) : n \in Nodes}]]
  BY <1>1, Zenon DEF Typed, Futures, Wakers
<1>3. ASSUME NEW t \in Tasks
      PROVE  frame[t] \in [k : 0 .. Last(t) + 1, awaiting : Nodes \cup {None}, mode : {"new", "running", "cancelled", "detached"}]
  <2>1. frame[t] \in Frames /\ frame[t].k \in Nat /\ frame[t].k <= Last(t) + 1 /\ Last(t) \in Nat
    BY <1>1, Shapes, Sites, Zenon
  <2>2. frame[t].k \in 0 .. Last(t) + 1
    BY <2>1, SMT
  <2> SUFFICES ASSUME NEW f \in Frames, NEW K, f.k \in K
               PROVE  f \in [k : K, awaiting : Nodes \cup {None}, mode : Modes]
    BY <2>1, <2>2, Zenon DEF Modes
  <2> QED
    BY SMT DEF Frames
<1>4. ASSUME NEW l \in Leaves PROVE fut[l].state < DETACHED
  <2>1. l \in Nodes /\ LeafOK(l)
    BY SMT DEF IInv, NodeOK, Nodes
  <2>2. fut[l].state \in 0 .. 6
    BY <1>1, <2>1, Shapes, Zenon
  <2> QED
    BY <2>1, <2>2, SMT DEF LeafOK, CANCELLED, DETACHED
<1> QED
  BY <1>1, <1>2, <1>3, <1>4, Zenon DEF TypeOK, Typed

(* A frame that is gone has begun each cleanup once, the innermost first.   *)
LEMMA CleanedOnce ==
  ASSUME IInv PROVE CleanupsOnce
<1> SUFFICES ASSUME NEW t \in Tasks
             PROVE  /\ Descending(ran[t], Last(t))
                    /\ frame[t].mode # "new" /\ Fut(t) \notin live /\ todo = <<>> => Len(ran[t]) = Last(t)
  BY Zenon DEF CleanupsOnce
<1>1. TaskOK(t)
  BY DEF IInv
<1> QED
  BY <1>1, SMT DEF TaskOK, RanOK, WorksOK, DoneOK, Alive

(* With nothing held, nothing pending and nothing running, a live frame     *)
(* would be parked on another live frame, and that one on another, without  *)
(* end.                                                                     *)
LEMMA AllFreed ==
  ASSUME IInv PROVE NoLeak
<1> SUFFICES ASSUME todo = <<>>, mine \cup reg = {} PROVE live = {}
  BY Zenon DEF NoLeak
<1>1. \A nm, x : ~Has(nm, x)
  BY SMT DEF Has
<1>2. Typed /\ mine = {} /\ reg = {}
  BY SMT DEF IInv
<1>3. ASSUME NEW n \in Nodes, Alive(n) PROVE fut[n].state \in {WAITING, ORPHANED}
  <2>1. fut[n].state \in 0 .. 6 /\ NodeOK(n) /\ OwnerOK(n)
    BY <1>2, Shapes, Zenon DEF IInv
  <2>2. fut[n].state \notin {CANCELLED, DETACHED, CLEANED}
    BY <1>1, <1>3, <2>1, Zenon DEF NodeOK, FutureOK
  <2>3. fut[n].state \notin {PENDING, READY}
    BY <1>1, <1>2, <1>3, <2>1, SMT DEF OwnerOK
  <2> QED
    BY <2>1, <2>2, <2>3, SMT DEF PENDING, WAITING, READY, CANCELLED, DETACHED, ORPHANED, CLEANED
<1>4. ASSUME NEW n \in Nodes, Alive(n) PROVE n \in Tasks
  <2> SUFFICES ASSUME n \in Leaves PROVE FALSE
    BY DEF Nodes
  <2>1. LeafOK(n) /\ fut[n].state \in {WAITING, ORPHANED}
    BY <1>3, <1>4, Zenon DEF IInv, NodeOK
  <2>2. fut[n].state <= WAITING
    BY <2>1, SMT DEF LeafOK, WAITING, CANCELLED, ORPHANED
  <2> QED
    BY <1>1, <1>2, <1>4, <2>1, <2>2, SMT DEF LeafOK
<1>5. ASSUME NEW t \in Tasks, Alive(t) PROVE Callee[t] \in Tasks /\ Alive(Callee[t])
  <2>1. TaskOK(t) /\ LinkOK(t) /\ t \in Nodes
    BY DEF IInv, Nodes
  <2>2. fut[t].state # READY
    BY <1>3, <1>5, <2>1, SMT DEF READY, WAITING, ORPHANED
  <2>3. Works(t)
    BY <1>1, <1>5, <2>1, <2>2, Zenon DEF TaskOK, NewOK, DoneOK
  <2>4. Parks(t)
    BY <1>1, <2>3, Zenon DEF Parks, Quiet
  <2>5. Awaited(t) \in Nodes /\ Awaits(t, Awaited(t)) /\ Linked(t, Awaited(t))
    BY <2>4, Waiting, Zenon DEF Waits
  <2>6. Alive(Awaited(t))
    BY <2>4, <2>5, Zenon DEF Linked
  <2>7. Awaited(t) \in Tasks
    BY <1>4, <2>5, <2>6
  <2> QED
    BY <2>5, <2>6, <2>7, NotItself, Zenon
<1>6. \A t \in Tasks : ~Alive(t)
  <2> DEFINE S == {t \in Tasks : Alive(t)}
  <2>1. \A t \in S : Callee[t] \in S
    BY <1>5
  <2>2. S \in SUBSET Tasks
    OBVIOUS
  <2> HIDE DEF S
  <2>3. S = {}
    BY <2>1, <2>2, ForestAssumption, Zenon
  <2> QED
    BY <2>3, Zenon DEF S
<1>7. \A n \in Nodes : ~Alive(n)
  BY <1>4, <1>6
<1>8. \A n \in Nodes : ~Drops(n) /\ ~Resumes(n) /\ ~Reaps(n)
  BY <1>7, Zenon DEF IInv, NodeOK, BlocksOK
<1>9. \A t \in Tasks : ~Works(t)
  BY <1>6, Zenon DEF IInv, TaskOK, WorksOK
<1>10. live \subseteq Blocks
  BY <1>2 DEF Typed
<1>11. \A b \in Blocks : b \notin live
  BY <1>7, <1>8, <1>9, Zenon DEF Blocks, Alive, Drops, Resumes, Reaps, Works
<1> QED
  BY <1>10, <1>11, SMT

(* A frame is let go only with its cleanups done, each once, and then       *)
(* nothing of it stays allocated.                                           *)
THEOREM ReleasedAlways == Spec => []Released
<1>1. IInv => Released
  BY TypeCorrect, CleanedOnce, AllFreed DEF Released
<1> QED
  BY <1>1, Inductive, PTL

(* n was dropped.                                                           *)
Cancelled(n) == fut[n].state >= CANCELLED
(* What a step may never undo.                                              *)
StaysCancelled == \A n \in Nodes : Cancelled(n) => fut'[n].state >= CANCELLED

(* A store to one future's state, which is past CANCELLED or was not.       *)
LEMMA StateKept ==
  ASSUME Typed, NEW m \in Nodes, NEW s \in 0 .. 6, SetState(m, s), s >= CANCELLED \/ ~Cancelled(m)
  PROVE  StaysCancelled
BY StateSet, SMT DEF StaysCancelled, Cancelled

(* A step that leaves the futures alone.                                    *)
LEMMA SameState ==
  ASSUME fut' = fut PROVE StaysCancelled
BY Zenon DEF StaysCancelled, Cancelled

(* No step takes a dropped future back.                                     *)
LEMMA Dropped ==
  ASSUME IInv, [Next]_vars PROVE StaysCancelled
<1>1. Typed /\ Ordered /\ \A n \in Nodes : fut[n].state \in 0 .. 6
  BY Shapes, Zenon DEF IInv
<1>2. READY \in 0 .. 6 /\ CANCELLED \in 0 .. 6 /\ DETACHED \in 0 .. 6 /\ ORPHANED \in 0 .. 6 /\ CLEANED \in 0 .. 6
      /\ CANCELLED >= CANCELLED /\ DETACHED >= CANCELLED /\ ORPHANED >= CANCELLED /\ CLEANED >= CANCELLED
  BY SMT DEF READY, CANCELLED, DETACHED, ORPHANED, CLEANED
<1>3. ASSUME CallTask \/ Extract \/ Run \/ Finish \/ RunReap \/ Deregister \/ Cascade \/ UserReturn PROVE StaysCancelled
  <2>1. fut' = fut
    BY <1>3, Zenon DEF CallTask, Extract, Run, Finish, RunReap, Deregister, Cascade, UserReturn
  <2> QED
    BY <2>1, SameState
<1>4. ASSUME CallLeaf PROVE StaysCancelled
  <2> SUFFICES ASSUME NEW l, l = Arg PROVE StaysCancelled
    OBVIOUS
  <2>1. l \in Nodes /\ Idles(l)
    BY <1>4, CallFacts, Zenon DEF CallLeaf
  <2>2. SetState(l, READY) \/ fut' = fut
    BY <1>4, Zenon DEF CallLeaf
  <2>3. ~Cancelled(l)
    BY <2>1, SMT DEF Idles, Cancelled, PENDING, CANCELLED
  <2> QED
    BY <1>1, <1>2, <2>1, <2>2, <2>3, StateKept, SameState, Zenon
<1>5. ASSUME Poll PROVE StaysCancelled
  <2> SUFFICES ASSUME NEW n, n = Awaited(Arg) PROVE StaysCancelled
    OBVIOUS
  <2>1. \/ fut[n].state = PENDING /\ fut' = [fut EXCEPT ![n] = [state |-> WAITING, waker |-> Resume(n)]]
        \/ fut' = [fut EXCEPT ![n].waker = Resume(n)]
    BY <1>5 DEF Poll
  <2>2. CASE fut[n].state = PENDING /\ fut' = [fut EXCEPT ![n] = [state |-> WAITING, waker |-> Resume(n)]]
    BY <1>1, <2>2, SMT DEF StaysCancelled, Cancelled, PENDING, CANCELLED, Typed
  <2>3. CASE fut' = [fut EXCEPT ![n].waker = Resume(n)]
    BY <1>1, <2>3, SMT DEF StaysCancelled, Cancelled, Typed, Futures
  <2> QED
    BY <2>1, <2>2, <2>3
<1>6. ASSUME Publish PROVE StaysCancelled
  <2> SUFFICES ASSUME NEW n, n = Arg, NEW o, o = Head(todo)[1] PROVE StaysCancelled
    OBVIOUS
  <2>1. o \in {"publish", "complete"} /\ Running(o) /\ SetState(n, Completed(n))
    BY <1>6, SMT DEF Publish, Running
  <2>2. n \in Nodes /\ fut[n].state <= WAITING
    <3>1. Has(o, n) /\ (o = "publish" => n \in Tasks) /\ (o = "complete" => n \in Leaves)
      <4>1. o \in {"call", "poll", "extract", "run", "publish", "end", "on_drop", "cleanup", "drop", "release", "reap", "complete", "user"}
            /\ "publish" \in TaskOps
        BY <2>1, SMT DEF TaskOps
      <4> QED
        <5>1. Has(o, n) /\ (o \in TaskOps => n \in Tasks) /\ (o = "complete" => n \in Leaves)
          BY <2>1, <4>1, HeadArg, Zenon
        <5> QED
          BY <4>1, <5>1
    <3>2. CASE o = "publish"
      BY <3>1, <3>2, Zenon DEF IInv, TaskOK, OpsOK, Nodes
    <3>3. CASE o = "complete"
      <4>1. n \in Leaves /\ n \in Nodes /\ LeafOK(n)
        BY <3>1, <3>3, SMT DEF IInv, NodeOK, Nodes
      <4> QED
        BY <3>1, <3>3, <4>1, Zenon DEF LeafOK
    <3> QED
      BY <2>1, <3>2, <3>3
  <2>3. Completed(n) = READY /\ ~Cancelled(n)
    <3>1. fut[n].state \in 0 .. 6
      BY <1>1, <2>2
    <3> QED
      BY <2>2, <3>1, SMT DEF Completed, Cancelled, PENDING, WAITING, CANCELLED
  <2> QED
    BY <1>1, <1>2, <2>1, <2>2, <2>3, StateKept, Zenon
<1>7. ASSUME Future_drop \/ Cleanup \/ Release \/ End PROVE StaysCancelled
  <2> SUFFICES ASSUME NEW n, n = Arg PROVE StaysCancelled
    OBVIOUS
  <2>1. \/ fut' = fut
        \/ SetState(n, CANCELLED) \/ SetState(n, DETACHED) \/ SetState(n, ORPHANED) \/ SetState(n, CLEANED)
    BY <1>7, Zenon DEF Future_drop, Cleanup, Release, End
  <2>2. n \in Nodes
    <3>1. Running("drop") \/ Running("cleanup") \/ Running("release") \/ Running("end")
      BY <1>7, Zenon DEF Future_drop, Cleanup, Release, End
    <3>2. {"drop", "release"} \subseteq NodeOps /\ {"cleanup", "end"} \subseteq TaskOps
      BY SMT DEF NodeOps, TaskOps
    <3> QED
      BY <3>1, <3>2, HeadArg, SMT DEF Nodes
  <2> QED
    BY <1>1, <1>2, <2>1, <2>2, StateKept, SameState, Zenon
<1>8. ASSUME NEW t \in Tasks, Call(t) \/ Spawn(t) \/ Drop(t) \/ DropAgain(t) PROVE StaysCancelled
  <2>1. fut' = fut \/ (fut[t].state = PENDING /\ fut' = [fut EXCEPT ![t] = [state |-> WAITING, waker |-> Reap(t)]])
    BY <1>8, Zenon DEF Call, Spawn, Drop, DropAgain
  <2> QED
    BY <1>1, <2>1, SMTT(30) DEF StaysCancelled, Cancelled, PENDING, CANCELLED, Typed, Nodes
<1>9. ASSUME (\E l \in Leaves : Fire(l)) \/ UNCHANGED vars PROVE StaysCancelled
  <2>1. fut' = fut
    BY <1>9, Zenon DEF Fire, vars
  <2> QED
    BY <2>1, SameState
<1> QED
  BY <1>3, <1>4, <1>5, <1>6, <1>7, <1>8, <1>9, Zenon DEF Next, Execute

(* A dropped future never becomes READY, WAITING or PENDING again: no       *)
(* completion follows a drop.                                               *)
THEOREM NoneCompletedAfterDrop == Spec => NoCompletionAfterDrop
<1>1. IInv /\ [Next]_vars => [StaysCancelled]_vars
  BY Dropped
<1> QED
  BY <1>1, Inductive, PTL DEF Spec, NoCompletionAfterDrop, StaysCancelled, Cancelled
=============================================================================
