--------------------------- MODULE EventLoopProofs ---------------------------
(***************************************************************************)
(* Proofs about EventLoop.tla for any descriptors, callbacks and clock: no *)
(* callback env is lost or freed twice and the loop's table agrees with    *)
(* the kernel, if timers are cancelled only while they are armed and a     *)
(* callback registers its own descriptor at most once.                     *)
(***************************************************************************)
EXTENDS EventLoop, FiniteSetTheorems, TLAPS

Discipline == Replace = FALSE /\ StaleCancel = FALSE

Slot     == [on_read : Closures \cup {None}, active : BOOLEAN, gen : Nat, mode : Modes]
Timer    == [deadline : Nat, on_fire : Closures \cup {None}, active : BOOLEAN]
Table(T) == \E n \in Nat \ {0} : T \in [0 .. n - 1 -> Timer]

Shape ==
  /\ slots \in [Fds -> Slot]
  /\ interest \in [Fds -> Modes \cup {None}]
  /\ Table(timers)
  /\ DOMAIN ids = Closures /\ \A c \in Closures : ids[c] \in DOMAIN timers \cup {None}
  /\ batch \subseteq Fds
  /\ freed \in [Closures -> {0, 1}]
  /\ fresh \in SUBSET Closures /\ \A c \in fresh : freed[c] = 0
  /\ cur \in [fd : Fds \cup {None}, cb : Closures \cup {None}, g : Nat]
  /\ lpc \in {"user", "test", "wait", "batch", "cb", "timers", "fire", "freed"}

(* A closure that is registered and not freed.                              *)
Owned(c) == c \in Closures /\ c \notin fresh /\ freed[c] = 0

(* Every env has one owner: a slot, a timer, or the call in progress, which *)
(* may be of the callback still installed on its descriptor.                *)
Owners ==
  /\ \A fd \in Fds : slots[fd].active =>
       /\ Owned(slots[fd].on_read)
       /\ \A gd \in Fds : slots[gd].active /\ slots[gd].on_read = slots[fd].on_read => gd = fd
       /\ \A t \in DOMAIN timers : timers[t].active => timers[t].on_fire # slots[fd].on_read
  /\ \A t \in DOMAIN timers : timers[t].active =>
       /\ Owned(timers[t].on_fire)
       /\ \A u \in DOMAIN timers : timers[u].active /\ timers[u].on_fire = timers[t].on_fire => u = t
  /\ cur.cb # None => Owned(cur.cb) /\ \A t \in DOMAIN timers : timers[t].active => timers[t].on_fire # cur.cb

Call ==
  /\ lpc = "cb" =>
       /\ cur.fd \in Fds /\ cur.cb # None
       /\ cur.g <= slots[cur.fd].gen
       /\ slots[cur.fd].gen = cur.g => slots[cur.fd].on_read = cur.cb
       /\ \A fd \in Fds : slots[fd].active /\ slots[fd].on_read = cur.cb
                            => fd = cur.fd /\ slots[fd].gen = cur.g
  /\ lpc = "fire" => /\ cur.fd = None /\ cur.cb # None
                     /\ \A fd \in Fds : slots[fd].active => slots[fd].on_read # cur.cb
  /\ lpc \notin {"cb", "fire"} => cur = NoCall

(* A registered env that is not freed has an owner; EventLoop_free leaves   *)
(* none.                                                                    *)
Kept ==
  \A c \in Closures \ fresh :
    \/ freed[c] = 1
    \/ \E fd \in Fds : slots[fd].active /\ slots[fd].on_read = c
    \/ \E t \in DOMAIN timers : timers[t].active /\ timers[t].on_fire = c
    \/ cur.cb = c

Ownership ==
  /\ lpc # "freed" => Owners /\ Kept
  /\ lpc = "freed" => \A c \in Closures \ fresh : freed[c] = 1

IInv == Shape /\ Call /\ KernelAgrees /\ Ownership

-----------------------------------------------------------------------------
(* The timer table grows by whole slots and keeps every timer.              *)
LEMMA RoomFacts ==
  ASSUME Shape
  PROVE  /\ Table(Room)
         /\ DOMAIN timers \subseteq DOMAIN Room
         /\ \A t \in DOMAIN timers : Room[t] = timers[t]
         /\ \A t \in DOMAIN Room : Room[t].active => t \in DOMAIN timers
<1>1. PICK n \in Nat \ {0} :
        timers \in [0 .. n - 1 -> Timer]
  BY DEF Shape, Table
<1>2. DOMAIN timers = 0 .. n - 1
  BY <1>1
<1>3. Cardinality(DOMAIN timers) = n
  BY <1>1, <1>2, FS_Interval
<1>4. CASE Room = timers
  BY <1>1, <1>4 DEF Table
<1>5. CASE Room = Grown
  <2>1. PICK m \in Nat \ {0} : /\ n <= m
                              /\ Grown = [t \in 0 .. m - 1 |-> IF t < n THEN timers[t] ELSE NoTimer]
    <3>1. CASE n * 2 < 8
      BY <1>3, <3>1 DEF Grown
    <3>2. CASE ~(n * 2 < 8)
      BY <1>3, <3>2 DEF Grown
    <3> QED
      BY <3>1, <3>2
  <2>2. DOMAIN Grown = 0 .. m - 1 /\ \A t \in 0 .. m - 1 : Grown[t] = IF t < n THEN timers[t] ELSE NoTimer
    BY <2>1
  <2>3. \A t \in 0 .. m - 1 : t < n <=> t \in DOMAIN timers
    BY <1>2
  <2>4. \A t \in 0 .. n - 1 : t \in 0 .. m - 1
    BY <2>1
  <2>5. NoTimer \in Timer /\ ~NoTimer.active
    BY DEF NoTimer, Timer
  <2>6. Grown \in [0 .. m - 1 -> Timer]
    BY <1>1, <2>1, <2>3, <1>2, <2>5
  <2> QED
    BY <1>2, <1>5, <2>2, <2>3, <2>4, <2>5, <2>6 DEF Table
<1> QED
  BY <1>4, <1>5 DEF Room

LEMMA InitInv == Init => IInv
<1> SUFFICES ASSUME Init PROVE IInv
  OBVIOUS
<1>1. Shape
  BY TimeAssumption, NoneAssumption DEF Init, Shape, Table, Slot, Timer, NoTimer, NoCall, Modes
<1>2. Call /\ KernelAgrees /\ Ownership
  BY NoneAssumption, TimeAssumption
  DEF Init, Call, KernelAgrees, Ownership, Owners, Kept, Owned, NoTimer, NoCall
<1> QED
  BY <1>1, <1>2 DEF IInv

(* Clearing the active flag of a slot or a timer changes nothing else.      *)
LEMMA Cleared ==
  /\ \A s \in Slot : LET u == [s EXCEPT !.active = FALSE] IN
       u \in Slot /\ ~u.active /\ u.on_read = s.on_read /\ u.gen = s.gen /\ u.mode = s.mode
  /\ \A s \in Timer : LET u == [s EXCEPT !.active = FALSE] IN
       u \in Timer /\ ~u.active /\ u.on_fire = s.on_fire
  BY DEF Slot, Timer

(* Changing one timer of a table leaves a table.                            *)
LEMMA TableUpdate ==
  ASSUME NEW T, Table(T), NEW t \in DOMAIN T, NEW timer \in Timer
  PROVE  /\ Table([T EXCEPT ![t] = timer]) /\ DOMAIN [T EXCEPT ![t] = timer] = DOMAIN T
         /\ \A u \in DOMAIN T : [T EXCEPT ![t] = timer][u] = IF u = t THEN timer ELSE T[u]
  BY DEF Table

LEMMA SlotFields ==
  ASSUME Shape
  PROVE  \A fd \in Fds : /\ slots[fd].on_read \in Closures \cup {None} /\ slots[fd].mode \in Modes
                          /\ slots[fd].active \in BOOLEAN /\ slots[fd].gen \in Nat
  BY DEF Shape, Slot

LEMMA NextInv == ASSUME Discipline PROVE IInv /\ [Next]_vars => IInv'
<1> SUFFICES ASSUME IInv, [Next]_vars PROVE IInv'
  OBVIOUS
<1> USE Discipline, NoneAssumption, TimeAssumption
    DEF Discipline, IInv, Shape, Call, KernelAgrees, Ownership, Owners, Kept, Owned,
        NoCall, InUser, Goto, Free, OwnInstalled, loop, table, clocks, heap
<1>1. ASSUME NEW fd \in Fds, NEW mode \in Modes, NEW c \in Closures, EventLoop_add(fd, mode, c) PROVE IInv'
  <2> DEFINE new == [on_read |-> c, active |-> TRUE, gen |-> slots[fd].gen + 1, mode |-> mode]
             old == IF slots[fd].active /\ cur.fd # fd THEN {slots[fd].on_read} ELSE {}
  <2>1. /\ slots' = [slots EXCEPT ![fd] = new] /\ new \in Slot
        /\ new.active /\ new.on_read = c /\ new.gen = slots[fd].gen + 1 /\ new.mode = mode
        /\ \A f \in Fds : slots'[f] = IF f = fd THEN new ELSE slots[f]
    BY <1>1 DEF EventLoop_add, Slot
  <2>2. interest' = [interest EXCEPT ![fd] = mode]
    BY <1>1 DEF EventLoop_add, WasActive, Ctl, Slot
  <2>3. /\ UNCHANGED <<timers, ids, batch, cur, lpc>> /\ InUser
        /\ c \in fresh /\ fresh' = fresh \ {c}
        /\ cur.fd = fd /\ slots[fd].active => slots[fd].gen = cur.g
        /\ freed' = [k \in Closures |-> IF k \in old THEN freed[k] + 1 ELSE freed[k]]
    BY <1>1 DEF EventLoop_add, Releases
  <2> HIDE DEF new
  <2>0. freed' \in [Closures -> {0, 1}] /\ \A k \in fresh' : freed'[k] = 0
    BY <2>3
  <2>4. Shape' /\ KernelAgrees'
    BY <2>0, <2>1, <2>2, <2>3
  <2>5. slots[fd].gen \in Nat /\ \A f \in Fds : slots[f].gen \in Nat
    BY DEF Slot
  <2>6. Call'
    BY <2>1, <2>3, <2>5
  <2>7. Owners'
    BY <2>1, <2>3
  <2>8. Kept'
    BY <2>1, <2>3
  <2> QED
    BY <2>3, <2>4, <2>6, <2>7, <2>8
<1>2. ASSUME NEW fd \in Fds, EventLoop_del(fd) \/ EventLoop_del_free(fd) PROVE IInv'
  <2>1. /\ slots' \in [Fds -> Slot]
        /\ \A f \in Fds : /\ slots'[f].active <=> slots[f].active /\ f # fd
                          /\ slots'[f].on_read = slots[f].on_read
                          /\ slots'[f].gen = slots[f].gen
                          /\ slots'[f].mode = slots[f].mode
    <3>1. slots' = [slots EXCEPT ![fd] = [slots[fd] EXCEPT !.active = FALSE]]
      BY <1>2 DEF EventLoop_del, EventLoop_del_free, Deactivate
    <3> QED
      BY <3>1, Cleared
  <2>2. interest' = [interest EXCEPT ![fd] = None]
    BY <1>2 DEF EventLoop_del, EventLoop_del_free, Deactivate
  <2>3. UNCHANGED <<timers, cur, lpc, fresh>> /\ InUser
    BY <1>2 DEF EventLoop_del, EventLoop_del_free
  <2>4. KernelAgrees'
    BY <2>1, <2>2
  <2>5. UNCHANGED <<ids, batch>>
    BY <1>2 DEF EventLoop_del, EventLoop_del_free
  <2>6. \A f \in Fds : slots[f].gen \in Nat
    BY SlotFields
  <2>7. CASE EventLoop_del(fd)
    <3>1. lpc = "cb" /\ cur.fd = fd /\ slots[fd].active /\ slots[fd].gen = cur.g /\ freed' = freed
      BY <2>7 DEF EventLoop_del
    <3>2. Shape'
      BY <2>1, <2>2, <2>3, <2>5, <3>1 DEF Table
    <3>3. Call'
      BY <2>1, <2>3, <2>6, <3>1
    <3>4. Ownership'
      BY <2>1, <2>3, <3>1
    <3> QED
      BY <2>4, <3>2, <3>3, <3>4
  <2>8. CASE EventLoop_del_free(fd)
    <3> DEFINE old == IF slots[fd].active THEN {slots[fd].on_read} ELSE {}
    <3>1. /\ ~OwnInstalled(fd)
          /\ freed' = [c \in Closures |-> IF c \in old THEN freed[c] + 1 ELSE freed[c]]
      BY <2>8 DEF EventLoop_del_free
    <3>0. freed' \in [Closures -> {0, 1}] /\ \A k \in fresh' : freed'[k] = 0
      BY <2>3, <3>1
    <3>2. Shape'
      BY <2>1, <2>2, <2>3, <2>5, <3>0
    <3>3. Call'
      BY <2>1, <2>3, <2>6, <3>1
    <3>4. Owners'
      BY <2>1, <2>3, <3>1
    <3>5. Kept'
      BY <2>1, <2>3, <3>1
    <3> QED
      BY <2>3, <2>4, <3>2, <3>3, <3>4, <3>5
  <2> QED
    BY <1>2, <2>7, <2>8
<1>4. ASSUME NEW d \in 0 .. MaxTime, NEW c \in Closures, EventLoop_add_timer(d, c) PROVE IInv'
  <2> DEFINE new == [deadline |-> d, on_fire |-> c, active |-> TRUE]
  <2>1. PICK t \in DOMAIN Room : /\ ~Room[t].active /\ timers' = [Room EXCEPT ![t] = new]
                               /\ ids' = [ids EXCEPT ![c] = t]
    BY <1>4 DEF EventLoop_add_timer
  <2>2. new \in Timer /\ new.active /\ new.on_fire = c
    BY DEF Timer
  <2> HIDE DEF new
  <2>3. Table(timers') /\ DOMAIN timers' = DOMAIN Room
        /\ \A u \in DOMAIN Room : timers'[u] = IF u = t THEN new ELSE Room[u]
    BY <2>1, <2>2, RoomFacts, TableUpdate
  <2>4. /\ t \in DOMAIN timers' /\ timers'[t].active /\ timers'[t].on_fire = c
        /\ \A u \in DOMAIN timers' : u # t /\ timers'[u].active =>
             u \in DOMAIN timers /\ timers[u].active /\ timers'[u].on_fire = timers[u].on_fire
        /\ \A u \in DOMAIN timers : timers[u].active =>
             u \in DOMAIN timers' /\ timers'[u].active /\ timers'[u].on_fire = timers[u].on_fire
    BY <2>1, <2>2, <2>3, RoomFacts
  <2>5. UNCHANGED <<slots, interest, cur, lpc, freed>> /\ c \in fresh /\ fresh' = fresh \ {c} /\ InUser
    BY <1>4 DEF EventLoop_add_timer
  <2>9. UNCHANGED batch
    BY <1>4 DEF EventLoop_add_timer
  <2>6. Shape' /\ Call' /\ KernelAgrees'
    BY <2>1, <2>3, <2>5, <2>9, RoomFacts
  <2>7. Owners'
    BY <2>4, <2>5
  <2>8. Kept'
    BY <2>4, <2>5
  <2> QED
    BY <2>5, <2>6, <2>7, <2>8
<1>5. ASSUME NEW c \in Closures, EventLoop_del_timer(c) PROVE IInv'
  <2> DEFINE t == ids[c]
  <2>1. /\ timers[t].active /\ timers[t].on_fire = c
        /\ freed' = [k \in Closures |-> IF k = c THEN freed[k] + 1 ELSE freed[k]]
        /\ timers' = [timers EXCEPT ![t] = [timers[t] EXCEPT !.active = FALSE]]
        /\ UNCHANGED <<slots, interest, ids, batch, cur, lpc, fresh>> /\ InUser
    BY <1>5 DEF EventLoop_del_timer
  <2>2. t \in DOMAIN timers /\ timers[t] \in Timer /\ [timers[t] EXCEPT !.active = FALSE] \in Timer
    BY <1>5, Cleared DEF EventLoop_del_timer, Table
  <2>3. /\ Table(timers') /\ DOMAIN timers' = DOMAIN timers
        /\ \A u \in DOMAIN timers : /\ timers'[u].active <=> timers[u].active /\ u # t
                                    /\ timers'[u].on_fire = timers[u].on_fire
    <3> DEFINE u0 == [timers[t] EXCEPT !.active = FALSE]
    <3>1. u0 \in Timer /\ ~u0.active /\ u0.on_fire = timers[t].on_fire /\ timers' = [timers EXCEPT ![t] = u0]
      BY <2>1, <2>2, Cleared
    <3> HIDE DEF u0
    <3> QED
      BY <2>2, <3>1, TableUpdate
  <2>0. freed' \in [Closures -> {0, 1}] /\ \A k \in fresh' : freed'[k] = 0
    BY <2>1, <2>2
  <2>4. Shape'
    BY <2>0, <2>1, <2>3
  <2>5. Call' /\ KernelAgrees'
    BY <2>1
  <2>6. Owners'
    BY <2>1, <2>2, <2>3
  <2>7. Kept'
    BY <2>1, <2>2, <2>3
  <2> QED
    BY <2>1, <2>4, <2>5, <2>6, <2>7
<1>6. CASE EventLoop_stop \/ EventLoop_run \/ LoopTest \/ Wait \/ BatchDone \/ TimersDone
  <2>1. /\ lpc' \in {"user", "test", "wait", "batch", "cb", "timers", "fire"}
        /\ lpc \in {"cb", "fire"} => lpc' = lpc
        /\ lpc' \in {"cb", "fire"} => lpc' = lpc
        /\ lpc # "freed" /\ batch' \subseteq Fds
        /\ UNCHANGED <<slots, interest, timers, ids, cur, fresh, freed>>
    BY <1>6 DEF EventLoop_stop, EventLoop_run, LoopTest, Wait, BatchDone, TimersDone
  <2>2. Shape' /\ KernelAgrees' /\ Ownership'
    BY <2>1 DEF Table
  <2>3. Call'
    BY <2>1
  <2> QED
    BY <2>2, <2>3
<1>7. CASE EventLoop_free
  <2> DEFINE dead == {slots[fd].on_read : fd \in {f \in Fds : slots[f].active}}
                     \cup {timers[t].on_fire : t \in Armed}
  <2>1. /\ lpc = "user" /\ lpc' = "freed"
        /\ UNCHANGED <<slots, interest, timers, ids, batch, cur, fresh>>
        /\ freed' = [c \in Closures |-> IF c \in dead THEN freed[c] + 1 ELSE freed[c]]
    BY <1>7 DEF EventLoop_free
  <2>2. \A c \in Closures : c \in dead => Owned(c)
    BY <2>1 DEF Armed
  <2>3. \A c \in Closures \ fresh : freed[c] = 1 \/ c \in dead
    BY <2>1 DEF Armed
  <2> HIDE DEF dead
  <2>4. freed' \in [Closures -> {0, 1}] /\ (\A c \in fresh : freed'[c] = 0)
    BY <2>1, <2>2
  <2>5. Shape' /\ Call' /\ KernelAgrees'
    BY <2>1, <2>4 DEF Table
  <2>6. \A c \in Closures \ fresh : freed'[c] = 1
    BY <2>1, <2>2, <2>3, <2>4
  <2> QED
    BY <2>1, <2>5, <2>6
<1>8. CASE Dispatch
  <2>1. PICK fd \in batch :
          /\ lpc = "batch" /\ batch' = batch \ {fd}
          /\ slots[fd].active =>
               cur' = [fd |-> fd, cb |-> slots[fd].on_read, g |-> slots[fd].gen] /\ lpc' = "cb"
          /\ ~slots[fd].active => UNCHANGED <<cur, lpc>>
          /\ UNCHANGED <<slots, interest, timers, ids, fresh, freed>>
    BY <1>8 DEF Dispatch
  <2>2. fd \in Fds /\ slots[fd].on_read \in Closures \cup {None} /\ slots[fd].gen \in Nat
    BY SlotFields
  <2>3. CASE slots[fd].active
    <3>1. cur'.fd = fd /\ cur'.cb = slots[fd].on_read /\ cur'.g = slots[fd].gen /\ lpc' = "cb"
      BY <2>1, <2>3
    <3>0. cur' \in [fd : Fds \cup {None}, cb : Closures \cup {None}, g : Nat] /\ batch' \subseteq Fds
      BY <2>1, <2>2, <2>3
    <3>2. Shape' /\ KernelAgrees'
      BY <2>1, <3>0, <3>1
    <3>3. Call'
      BY <2>1, <2>2, <2>3, <3>1
    <3>4. Owners' /\ Kept'
      BY <2>1, <2>2, <2>3, <3>1
    <3> QED
      BY <3>1, <3>2, <3>3, <3>4
  <2>4. CASE ~slots[fd].active
    <3>1. UNCHANGED <<slots, interest, timers, ids, cur, fresh, freed, lpc>> /\ batch' \subseteq Fds
      BY <2>1, <2>4
    <3>2. Shape' /\ KernelAgrees' /\ Ownership'
      BY <3>1
    <3>3. Call'
      BY <3>1
    <3> QED
      BY <3>2, <3>3
  <2> QED
    BY <2>3, <2>4
<1>9. CASE Return
  <2>1. /\ lpc = "cb" /\ lpc' = "batch" /\ cur' = NoCall
        /\ UNCHANGED <<slots, interest, timers, ids, batch, fresh>>
        /\ freed' = [c \in Closures |-> IF c = cur.cb /\ Uninstalled THEN freed[c] + 1 ELSE freed[c]]
    BY <1>9 DEF Return
  <2>2. Owned(cur.cb)
    BY <2>1
  <2>3. freed' \in [Closures -> {0, 1}] /\ (\A c \in fresh : freed'[c] = 0)
    BY <2>1, <2>2
  <2>4. Shape' /\ KernelAgrees'
    BY <2>1, <2>3 DEF Table
  <2>5. Call'
    BY <2>1
  <2>6. Owners'
    BY <2>1, <2>2 DEF Uninstalled
  <2>7. Kept'
    BY <2>1, <2>2 DEF Uninstalled
  <2> QED
    BY <2>1, <2>4, <2>5, <2>6, <2>7
<1>10. CASE FireTimer
  <2>1. PICK t \in DOMAIN timers :
          /\ lpc = "timers" /\ lpc' = "fire" /\ timers[t].active
          /\ cur' = [NoCall EXCEPT !.cb = timers[t].on_fire]
          /\ timers' = [timers EXCEPT ![t] = [timers[t] EXCEPT !.active = FALSE]]
          /\ UNCHANGED <<slots, interest, ids, batch, fresh, freed>>
    BY <1>10 DEF FireTimer, Due
  <2>2. timers[t] \in Timer /\ [timers[t] EXCEPT !.active = FALSE] \in Timer
    BY Cleared DEF Table
  <2>3. /\ Table(timers') /\ DOMAIN timers' = DOMAIN timers
        /\ \A u \in DOMAIN timers : /\ timers'[u].active <=> timers[u].active /\ u # t
                                    /\ timers'[u].on_fire = timers[u].on_fire
    <3> DEFINE u0 == [timers[t] EXCEPT !.active = FALSE]
    <3>1. u0 \in Timer /\ ~u0.active /\ u0.on_fire = timers[t].on_fire /\ timers' = [timers EXCEPT ![t] = u0]
      BY <2>1, <2>2, Cleared
    <3> HIDE DEF u0
    <3> QED
      BY <2>2, <3>1, TableUpdate
  <2>4. cur'.fd = None /\ cur'.cb = timers[t].on_fire /\ cur'.g = 0 /\ timers[t].on_fire \in Closures
        /\ cur' = [fd |-> None, cb |-> timers[t].on_fire, g |-> 0] /\ cur.cb = None
    BY <2>1
  <2>5. Shape' /\ KernelAgrees'
    BY <2>1, <2>3, <2>4
  <2>6. Call'
    BY <2>1, <2>4
  <2>7. Owners'
    BY <2>1, <2>3, <2>4
  <2>8. Kept'
    BY <2>1, <2>3, <2>4
  <2> QED
    BY <2>1, <2>5, <2>6, <2>7, <2>8
<1>11. CASE FireReturn
  <2>1. /\ lpc = "fire" /\ lpc' = "timers" /\ cur' = NoCall
        /\ UNCHANGED <<slots, interest, timers, ids, batch, fresh>>
        /\ freed' = [c \in Closures |-> IF c = cur.cb THEN freed[c] + 1 ELSE freed[c]]
    BY <1>11 DEF FireReturn
  <2>2. Owned(cur.cb)
    BY <2>1
  <2>3. freed' \in [Closures -> {0, 1}] /\ (\A c \in fresh : freed'[c] = 0)
    BY <2>1, <2>2
  <2>4. Shape' /\ KernelAgrees' /\ Call'
    BY <2>1, <2>3 DEF Table
  <2>5. Owners'
    BY <2>1, <2>2
  <2>6. Kept'
    BY <2>1, <2>2
  <2> QED
    BY <2>1, <2>4, <2>5, <2>6
<1>12. CASE Outside \/ UNCHANGED vars
  <2>1. UNCHANGED <<slots, interest, timers, ids, batch, cur, fresh, freed, lpc>>
    BY <1>12 DEF Outside, SetReady, Consume, Tick, vars
  <2>2. Shape' /\ KernelAgrees' /\ Ownership'
    BY <2>1
  <2>3. Call'
    BY <2>1
  <2> QED
    BY <2>2, <2>3
<1> QED
  BY <1>1, <1>2, <1>4, <1>5, <1>6, <1>7, <1>8, <1>9, <1>10, <1>11, <1>12
  DEF Next, LoopStep, UserStep

THEOREM IInvHolds == ASSUME Discipline PROVE Spec => []IInv
  BY InitInv, NextInv, PTL DEF Spec

(* No env is freed twice, nor while its callback is installed, armed or     *)
(* running.                                                                 *)
THEOREM SingleFree == ASSUME Discipline PROVE Spec => []FreedOnce
<1>1. IInv => FreedOnce
  BY NoneAssumption DEF IInv, Shape, Ownership, Owners, Owned, FreedOnce, Installed, Pending, Armed
<1> QED
  BY <1>1, IInvHolds, PTL

(* Until it is freed a registered env is installed, armed or running.       *)
THEOREM NothingLost == ASSUME Discipline PROVE Spec => []NoLeak
<1>1. IInv => NoLeak
  BY DEF IInv, Shape, Ownership, Kept, NoLeak, Installed, Pending, Armed
<1> QED
  BY <1>1, IInvHolds, PTL

(* The two together: one owner at a time, one free.                         *)
THEOREM EnvOwnership == ASSUME Discipline PROVE Spec => []EnvsOwned
  BY SingleFree, NothingLost, PTL DEF EnvsOwned

(* The kernel watches exactly the registered descriptors.                   *)
THEOREM InterestAgrees == ASSUME Discipline PROVE Spec => []KernelAgrees
<1>1. IInv => KernelAgrees
  BY DEF IInv
<1> QED
  BY <1>1, IInvHolds, PTL
=============================================================================
