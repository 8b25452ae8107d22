----------------------------- MODULE EventLoop ------------------------------
(***************************************************************************)
(* stdlib/eventloop.esk: the readiness reactor.  One thread registers a    *)
(* callback per descriptor and one-shot timers, and EventLoop_run waits    *)
(* (epoll), dispatches the ready descriptors one by one and fires the due  *)
(* timers.  Callbacks and timers call back into the loop: they register,   *)
(* replace, deregister, arm, cancel and stop.                              *)
(*                                                                         *)
(* A closure is the heap env of one escaping callback; `freed` counts how  *)
(* often free_closure ran on it.  The slot table is indexed by descriptor  *)
(* and its growth keeps every slot, so only the timer table has a size.    *)
(***************************************************************************)
EXTENDS Integers, FiniteSets, FiniteSetsExt

CONSTANTS
  Fds,           \* descriptors
  Closures,      \* callback and timer envs, each registered at most once
  None,          \* no closure, no descriptor, no deadline
  MaxTime,       \* the clock stops here
  TimerCap,      \* el_new's table size
  IntMax,        \* the largest value of an int, the type of epoll_wait's timeout
  Replace,       \* may a callback replace its descriptor's new registration?
  StaleCancel    \* may EventLoop_del_timer be called after the timer fired?

ASSUME TimeAssumption == MaxTime \in Nat /\ TimerCap \in Nat \ {0} /\ IntMax \in Nat

Modes == {"read", "write"}

ASSUME NoneAssumption == None \notin Closures \cup Fds \cup Modes

VARIABLES
  slots,     \* per descriptor: on_read, active, gen, and the mode it waits for
  interest,  \* per descriptor, the kernel's interest: a mode or None
  ready,     \* per descriptor, the modes it is ready for (level-triggered)
  timers,    \* 0..tcap-1 -> deadline, on_fire, active
  ids,       \* per closure, the id EventLoop_add_timer returned for it
  asked,     \* closures whose timer the program cancelled
  now,       \* time_monotonic_ms
  running,   \* lp.running
  lpc,       \* where EventLoop_run is
  wakeAt,    \* the deadline _el_wait was given
  batch,     \* descriptors of this batch still to dispatch
  cur,       \* the callback being run: fd, cb, g
  scan,      \* the next timer slot to look at, and `now` when the scan began
  fresh,     \* closures not registered yet
  freed      \* per closure

loop   == <<running, lpc, wakeAt, batch, cur, scan>>
table  == <<slots, interest>>
clocks == <<timers, ids, asked>>
heap   == <<fresh, freed>>
vars   == <<table, ready, clocks, now, loop, heap>>

NoTimer == [deadline |-> 0, on_fire |-> None, active |-> FALSE]
NoCall  == [fd |-> None, cb |-> None, g |-> 0]

Init ==
  /\ slots = [fd \in Fds |-> [on_read |-> None, active |-> FALSE, gen |-> 0, mode |-> "read"]]
  /\ interest = [fd \in Fds |-> None]
  /\ ready = [fd \in Fds |-> {}]
  /\ timers = [t \in 0 .. TimerCap - 1 |-> NoTimer]
  /\ ids = [c \in Closures |-> None] /\ asked = {}
  /\ now = 0 /\ running = 0 /\ lpc = "user" /\ wakeAt = None
  /\ batch = {} /\ cur = NoCall /\ scan = [t |-> 0, now |-> 0]
  /\ fresh = Closures
  /\ freed = [c \in Closures |-> 0]

-----------------------------------------------------------------------------
(* Mutants: the old env is always freed on replacement, every registration  *)
(* is an EPOLL_CTL_ADD, `gen` is not compared when a callback returns, a    *)
(* passed deadline makes a negative timeout, the subtraction is swapped.    *)
ReleasesAlways(fd) == slots[fd].active
NotActive(fd)      == FALSE
Deregistered       == ~slots[cur.fd].active
Unclamped(t)       == timers[t].deadline - now
Swapped(t)         == IF now < timers[t].deadline THEN 0 ELSE now - timers[t].deadline

Free(S)     == freed' = [c \in Closures |-> IF c \in S THEN freed[c] + 1 ELSE freed[c]]
InUser      == lpc \in {"user", "cb", "fire"}
Armed       == {t \in DOMAIN timers : timers[t].active}
Due(t, at)  == timers[t].active /\ timers[t].deadline <= at

(* _el_release_old: the old callback's env, unless it is the running one.   *)
Releases(fd) == slots[fd].active /\ cur.fd # fd

(* epoll_ctl as _el_ctl uses it: ADD fails on a descriptor already there,   *)
(* MOD on one that is not, and the result is ignored.                       *)
WasActive(fd) == slots[fd].active
Ctl(fd, mode) ==
  IF WasActive(fd) = (interest[fd] # None)
    THEN [interest EXCEPT ![fd] = mode] ELSE interest

(* The running callback is still the one installed on its descriptor.       *)
OwnInstalled(fd) == cur.fd = fd /\ slots[fd].active /\ slots[fd].gen = cur.g

(* EventLoop_add_read, EventLoop_add_write.                                 *)
EventLoop_add(fd, mode, c) ==
  /\ InUser
  /\ c \in fresh /\ fresh' = fresh \ {c}
  /\ Replace \/ ~(cur.fd = fd /\ slots[fd].active /\ slots[fd].gen # cur.g)
  /\ Free(IF Releases(fd) THEN {slots[fd].on_read} ELSE {})
  /\ slots' = [slots EXCEPT ![fd] =
                 [on_read |-> c, active |-> TRUE, gen |-> @.gen + 1, mode |-> mode]]
  /\ interest' = Ctl(fd, mode)
  /\ UNCHANGED <<ready, clocks, now, loop>>

Deactivate(fd) ==
  /\ slots' = [slots EXCEPT ![fd].active = FALSE]
  /\ interest' = [interest EXCEPT ![fd] = None]

(* EventLoop_del, from within the callback it deregisters.                  *)
EventLoop_del(fd) ==
  /\ lpc = "cb" /\ OwnInstalled(fd)
  /\ Deactivate(fd)
  /\ UNCHANGED <<ready, clocks, now, loop, heap>>

(* EventLoop_del_free, from anywhere else.                                  *)
EventLoop_del_free(fd) ==
  /\ InUser /\ ~OwnInstalled(fd)
  /\ Free(IF slots[fd].active THEN {slots[fd].on_read} ELSE {})
  /\ Deactivate(fd)
  /\ UNCHANGED <<ready, clocks, now, loop, fresh>>

(* _el_grow_timers doubles a full table, to 8 slots at least.               *)
Grown ==
  LET cap    == Cardinality(DOMAIN timers)
      newcap == IF cap * 2 < 8 THEN 8 ELSE cap * 2
  IN  [t \in 0 .. newcap - 1 |-> IF t < cap THEN timers[t] ELSE NoTimer]
Room == IF Armed = DOMAIN timers THEN Grown ELSE timers

EventLoop_add_timer(deadline, c) ==
  /\ InUser
  /\ c \in fresh /\ fresh' = fresh \ {c}
  /\ \E t \in DOMAIN Room :
       /\ ~Room[t].active /\ \A u \in 0 .. t - 1 : Room[u].active
       /\ timers' = [Room EXCEPT ![t] =
                       [deadline |-> deadline, on_fire |-> c, active |-> TRUE]]
       /\ ids' = [ids EXCEPT ![c] = t]
  /\ UNCHANGED <<table, ready, asked, now, loop, freed>>

(* EventLoop_del_timer with the id of c's timer, outside its own on_fire.   *)
EventLoop_del_timer(c) ==
  LET t == ids[c] IN
  /\ InUser
  /\ t # None /\ c \notin asked /\ ~(lpc = "fire" /\ cur.cb = c)
  /\ StaleCancel \/ (timers[t].active /\ timers[t].on_fire = c)
  /\ asked' = asked \cup {c}
  /\ Free(IF timers[t].active THEN {timers[t].on_fire} ELSE {})
  /\ timers' = [timers EXCEPT ![t].active = FALSE]
  /\ UNCHANGED <<table, ready, ids, now, loop, fresh>>

EventLoop_stop ==
  /\ InUser
  /\ running' = 0
  /\ UNCHANGED <<table, ready, clocks, now, lpc, wakeAt, batch, cur, scan, heap>>

-----------------------------------------------------------------------------
(* EventLoop_run.                                                           *)
Goto(from, to) == lpc = from /\ lpc' = to

EventLoop_run ==
  /\ Goto("user", "test")
  /\ running' = 1
  /\ UNCHANGED <<table, ready, clocks, now, wakeAt, batch, cur, scan, heap>>

(* The milliseconds to the nearest deadline, cast to int by _el_wait; a     *)
(* negative timeout waits forever.                                          *)
Left(t)       == IF timers[t].deadline < now THEN 0 ELSE timers[t].deadline - now
Truncated(ms) == ((ms + IntMax + 1) % (2 * (IntMax + 1))) - (IntMax + 1)

LoopTest ==
  /\ Goto("test", IF running = 0 THEN "user" ELSE "wait")
  /\ wakeAt' = IF Armed = {} THEN None
               ELSE LET ms == Truncated(Min({Left(t) : t \in Armed}))
                    IN  IF ms < 0 THEN None ELSE now + ms
  /\ UNCHANGED <<table, ready, clocks, now, running, batch, cur, scan, heap>>

(* _el_wait returns the ready descriptors, or none once the timeout passed. *)
Wait ==
  /\ Goto("wait", "batch")
  /\ batch' = {fd \in Fds : interest[fd] \in ready[fd]}
  /\ batch' # {} \/ (wakeAt # None /\ now >= wakeAt)
  /\ UNCHANGED <<table, ready, clocks, now, running, wakeAt, cur, scan, heap>>

(* The next descriptor of the batch is dispatched if it is still (or again) *)
(* registered.                                                              *)
Dispatch ==
  /\ lpc = "batch"
  /\ \E fd \in batch :
       /\ batch' = batch \ {fd}
       /\ IF slots[fd].active
            THEN /\ cur' = [fd |-> fd, cb |-> slots[fd].on_read, g |-> slots[fd].gen]
                 /\ lpc' = "cb"
            ELSE UNCHANGED <<cur, lpc>>
  /\ UNCHANGED <<table, ready, clocks, now, running, wakeAt, scan, heap>>

(* The callback returns: its env is freed if it is no longer installed.     *)
Uninstalled == ~slots[cur.fd].active \/ slots[cur.fd].gen # cur.g

Return ==
  /\ Goto("cb", "batch")
  /\ Free(IF Uninstalled THEN {cur.cb} ELSE {})
  /\ cur' = NoCall
  /\ UNCHANGED <<table, ready, clocks, now, running, wakeAt, batch, scan, fresh>>

BatchDone ==
  /\ Goto("batch", "timers")
  /\ batch = {}
  /\ scan' = [t |-> 0, now |-> now]
  /\ UNCHANGED <<table, ready, clocks, now, running, wakeAt, batch, cur, heap>>

FireTimer ==
  /\ Goto("timers", "fire")
  /\ \E t \in DOMAIN timers :
       /\ t >= scan.t /\ Due(t, scan.now)
       /\ \A u \in scan.t .. t - 1 : ~Due(u, scan.now)
       /\ scan' = [scan EXCEPT !.t = t + 1]
       /\ cur' = [NoCall EXCEPT !.cb = timers[t].on_fire]
       /\ timers' = [timers EXCEPT ![t].active = FALSE]
  /\ UNCHANGED <<table, ready, ids, asked, now, running, wakeAt, batch, heap>>

FireReturn ==
  /\ Goto("fire", "timers")
  /\ Free({cur.cb})
  /\ cur' = NoCall
  /\ UNCHANGED <<table, ready, clocks, now, running, wakeAt, batch, scan, fresh>>

TimersDone ==
  /\ Goto("timers", "test")
  /\ \A t \in DOMAIN timers : t >= scan.t => ~Due(t, scan.now)
  /\ UNCHANGED <<table, ready, clocks, now, running, wakeAt, batch, cur, scan, heap>>

(* EventLoop_free: every env still registered is released.                  *)
EventLoop_free ==
  /\ Goto("user", "freed")
  /\ Free({slots[fd].on_read : fd \in {f \in Fds : slots[f].active}}
          \cup {timers[t].on_fire : t \in Armed})
  /\ UNCHANGED <<table, ready, clocks, now, running, wakeAt, batch, cur, scan, fresh>>

-----------------------------------------------------------------------------
(* The outside: data arrives or is consumed, a descriptor that is not       *)
(* registered is closed and its number reused, time passes.                 *)
SetReady(fd, mode) ==
  /\ mode \notin ready[fd]
  /\ ready' = [ready EXCEPT ![fd] = @ \cup {mode}]
  /\ UNCHANGED <<table, clocks, now, loop, heap>>

Consume(fd) ==
  /\ InUser
  /\ ready[fd] # {} /\ ready' = [ready EXCEPT ![fd] = {}]
  /\ UNCHANGED <<table, clocks, now, loop, heap>>

Tick ==
  /\ now < MaxTime /\ now' = now + 1
  /\ UNCHANGED <<table, ready, clocks, loop, heap>>

LoopStep ==
  \/ LoopTest \/ Wait \/ Dispatch \/ Return
  \/ BatchDone \/ FireTimer \/ FireReturn \/ TimersDone

UserStep ==
  \/ \E fd \in Fds, mode \in Modes, c \in Closures : EventLoop_add(fd, mode, c)
  \/ \E fd \in Fds : EventLoop_del(fd) \/ EventLoop_del_free(fd)
  \/ \E c \in Closures, d \in 0 .. MaxTime : EventLoop_add_timer(d, c)
  \/ \E c \in Closures : EventLoop_del_timer(c)
  \/ EventLoop_stop \/ EventLoop_run \/ EventLoop_free

Outside ==
  \/ \E fd \in Fds, mode \in Modes : SetReady(fd, mode)
  \/ \E fd \in Fds : Consume(fd)
  \/ Tick

Next == LoopStep \/ UserStep \/ Outside

Spec == Init /\ [][Next]_vars

(* The loop thread keeps running, callbacks return and time passes. Nothing *)
(* says that data arrives or that the program calls the loop.               *)
FairSpec == Spec /\ WF_vars(LoopStep) /\ WF_vars(Tick)

-----------------------------------------------------------------------------
Installed == {slots[fd].on_read : fd \in {f \in Fds : slots[f].active}}
Pending   == {timers[t].on_fire : t \in Armed}

TypeOK ==
  /\ slots \in [Fds -> [on_read : Closures \cup {None}, active : BOOLEAN, gen : Nat, mode : Modes]]
  /\ interest \in [Fds -> Modes \cup {None}]
  /\ ready \in [Fds -> SUBSET Modes]
  /\ \A t \in DOMAIN timers :
       timers[t] \in [deadline : 0 .. MaxTime, on_fire : Closures \cup {None}, active : BOOLEAN]
  /\ \A c \in Closures : ids[c] \in DOMAIN timers \cup {None}
  /\ running \in {0, 1}
  /\ wakeAt \in 0 .. MaxTime \cup {None}
  /\ lpc \in {"user", "test", "wait", "batch", "cb", "timers", "fire", "freed"}
  /\ batch \subseteq Fds
  /\ freed \in [Closures -> Nat]

(* An env is freed once, and never while its callback is installed, armed   *)
(* or running, whatever callbacks do to their own and other descriptors.    *)
FreedOnce ==
  \A c \in Closures :
    /\ freed[c] <= 1
    /\ freed[c] = 1 => c \notin fresh
    /\ freed[c] = 1 /\ lpc # "freed" => c \notin Installed \cup Pending \cup {cur.cb}

(* No env is lost: until it is freed a registered callback is installed,    *)
(* armed or running. "A registration already on `fd` is replaced (and its   *)
(* callback env freed)" (eventloop.esk:303-304).                            *)
NoLeak ==
  \A c \in Closures \ fresh :
    freed[c] >= 1 \/ (lpc # "freed" /\ c \in Installed \cup Pending \cup {cur.cb})

(* Each registered env has an owner that will free it, until it is freed,   *)
(* once.                                                                    *)
EnvsOwned == FreedOnce /\ NoLeak

(* epoll watches exactly the registered descriptors, in the right mode: the *)
(* ADD / MOD choice of _el_ctl never fails.                                 *)
KernelAgrees ==
  \A fd \in Fds : interest[fd] = IF slots[fd].active THEN slots[fd].mode ELSE None

(* An armed timer fires or is cancelled; the loop does not sleep past it    *)
(* and a full table does not drop it.                                       *)
TimerFires ==
  \A c \in Closures :
    c \in Pending /\ lpc = "wait" ~> c \notin Pending \/ lpc = "user"

(* "Safe to call after it has fired (no-op then)" (eventloop.esk:271-272):  *)
(* a pending timer goes away only by firing or by a cancel of its own id.   *)
CancelledByOwner ==
  [][\A c \in Pending : c \notin Pending' => c \in asked' \/ cur'.cb = c]_vars
=============================================================================
