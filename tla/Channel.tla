------------------------------ MODULE Channel -------------------------------
(***************************************************************************)
(* stdlib/channel.esk: Chan<T>, a ring buffer with one parked receiver.    *)
(* One thread sends, receives, awaits, drops and frees.  Handing a value   *)
(* over completes the receiver's future, which may resume an awaiter       *)
(* inside Chan_send; whatever it calls happens before that send returns.   *)
(* The handshake between a future and its awaiter is in Future.tla: here a *)
(* future is parked until it is completed or dropped.                      *)
(***************************************************************************)
EXTENDS Naturals, Sequences

CONSTANTS
  Futures,      \* futures returned by Chan_recv, one per call
  Cap,          \* chan_new's argument
  MaxSends,     \* values sent in a behaviour: 1, 2, ...
  None

ASSUME CapAssumption  == Cap \in Nat /\ MaxSends \in Nat
ASSUME NoneAssumption == None \notin Futures \cup Nat

VARIABLES
  buf, head, count, waiter,     \* the fields of Chan
  alive,     \* FALSE once Chan_free has run
  state,     \* per future: "unborn", "parked", "ready", "taken", "dropped"
  value,     \* per future
  unparks,   \* per future: is on_drop the hook that reads the channel?
  sent,      \* sends accepted so far, and the last value sent
  calls      \* Chan_send calls inside Future_complete

ring == <<buf, head, count>>
futs == <<state, value, unparks>>
vars == <<ring, waiter, alive, futs, sent, calls>>

Init ==
  /\ buf = [i \in 0 .. Cap - 1 |-> 0] /\ head = 0 /\ count = 0 /\ waiter = None
  /\ alive = TRUE
  /\ state = [f \in Futures |-> "unborn"]
  /\ value = [f \in Futures |-> None]
  /\ unparks = [f \in Futures |-> FALSE]
  /\ sent = 0 /\ calls = 0

-----------------------------------------------------------------------------
(* Mutants: the index wraps one early, the waiter is cleared after the       *)
(* completion, a dropped receive stays parked, the buffer is overrun.       *)
WrapEarly(i)       == IF i >= Cap - 1 THEN i - (Cap - 1) ELSE i
ClearedLate        == None
StaysParked(f)     == waiter
OneTooMany         == count <= Cap

Accept        == alive /\ sent < MaxSends /\ sent' = sent + 1
Wrap(i)       == IF i >= Cap THEN i - Cap ELSE i
RoomLeft      == count < Cap
Settle(f, to) == state' = [state EXCEPT ![f] = to]

Complete(f, v) ==
  /\ Settle(f, "ready")
  /\ value' = [value EXCEPT ![f] = v]

(* Chan_send to a parked receiver, up to the end of its completion: the     *)
(* call returns later.  A parked receiver that is no longer parked would be *)
(* a future completed after its free.                                       *)
HandOver ==
  /\ waiter # None
  /\ Accept
  /\ waiter' = None
  /\ Complete(waiter, sent')
  /\ calls' = calls + 1
  /\ UNCHANGED <<ring, alive, unparks>>

(* The statements after Future_complete leave the channel alone.            *)
AfterComplete == waiter

SendReturn ==
  /\ calls > 0 /\ calls' = calls - 1
  /\ waiter' = AfterComplete
  /\ UNCHANGED <<ring, alive, futs, sent>>

(* Chan_send with nobody parked; when the buffer is full it returns false   *)
(* and changes nothing.                                                     *)
Buffer ==
  /\ waiter = None /\ RoomLeft
  /\ Accept
  /\ buf' = [buf EXCEPT ![Wrap(head + count)] = sent']
  /\ count' = count + 1
  /\ UNCHANGED <<head, waiter, alive, futs, calls>>

(* Chan_recv, which the program calls with no other receive parked ("Single *)
(* consumer: at most one outstanding recv at a time").                      *)
RecvBuffered(f) ==
  /\ alive /\ waiter = None /\ state[f] = "unborn"
  /\ count > 0
  /\ Complete(f, buf[head])
  /\ head' = Wrap(head + 1)
  /\ count' = count - 1
  /\ UNCHANGED <<buf, waiter, alive, unparks, sent, calls>>

RecvPark(f) ==
  /\ alive /\ waiter = None /\ state[f] = "unborn"
  /\ count = 0
  /\ waiter' = f
  /\ Settle(f, "parked")
  /\ unparks' = [unparks EXCEPT ![f] = TRUE]
  /\ UNCHANGED <<ring, alive, value, sent, calls>>

(* The awaiter reads the value and frees the future.                        *)
Take(f) ==
  /\ state[f] = "ready"
  /\ Settle(f, "taken")
  /\ UNCHANGED <<ring, waiter, alive, value, unparks, sent, calls>>

(* The on_drop hook that Chan_recv installs.                                *)
Unpark(f) == IF waiter = f THEN None ELSE waiter

(* Future_drop: a pending receive is cancelled through its hook; a ready    *)
(* one is freed with its value.                                             *)
Drop(f) ==
  /\ state[f] \in {"parked", "ready"}
  /\ Settle(f, "dropped")
  /\ waiter' = IF state[f] = "parked" /\ unparks[f] THEN Unpark(f) ELSE waiter
  /\ UNCHANGED <<ring, alive, value, unparks, sent, calls>>

(* Chan_free: a parked receiver loses its hook and stays pending.           *)
Detach == IF waiter = None THEN unparks ELSE [unparks EXCEPT ![waiter] = FALSE]

Chan_free ==
  /\ alive /\ alive' = FALSE
  /\ waiter' = None
  /\ unparks' = Detach
  /\ UNCHANGED <<ring, state, value, sent, calls>>

Next ==
  \/ HandOver \/ SendReturn \/ Buffer
  \/ \E f \in Futures : RecvBuffered(f) \/ RecvPark(f) \/ Take(f) \/ Drop(f)
  \/ Chan_free

Spec == Init /\ [][Next]_vars

-----------------------------------------------------------------------------
TypeOK ==
  /\ buf \in [0 .. Cap - 1 -> Nat]
  /\ head \in Nat /\ (head = 0 \/ head < Cap)
  /\ count \in 0 .. Cap
  /\ waiter \in Futures \cup {None}
  /\ alive \in BOOLEAN
  /\ state \in [Futures -> {"unborn", "parked", "ready", "taken", "dropped"}]
  /\ value \in [Futures -> Nat \cup {None}]
  /\ unparks \in [Futures -> BOOLEAN]
  /\ sent \in Nat /\ calls \in Nat

(* A parked receive of a live channel is the one the next send completes,   *)
(* and nothing is buffered that it could have had.                          *)
NoStranded == \A f \in Futures : alive /\ state[f] = "parked" => waiter = f /\ count = 0

(* The channel refers to no future that was completed or freed, and no      *)
(* pending future's hook reads a freed channel: "dropping that future later *)
(* is safe" (channel.esk:81-83).                                            *)
NoDangling ==
  /\ waiter # None => state[waiter] = "parked"
  /\ \A f \in Futures : state[f] = "parked" /\ unparks[f] => alive

(* The buffered values, oldest first.                                       *)
Queue == [i \in 1 .. count |-> buf[Wrap(head + i - 1)]]

(* Every value accepted by a live channel is buffered or was given to one   *)
(* receive, and the buffered ones are the newest, in the order of the sends.*)
InOrder ==
  alive =>
    /\ \A i \in 1 .. count : Queue[i] = sent - count + i
    /\ \A v \in 1 .. sent - count : \E f \in Futures : value[f] = v
    /\ \A f, g \in Futures : value[f] = value[g] /\ value[f] # None => f = g

Abstract == INSTANCE Mailbox WITH
  Receives <- Futures, Values <- 1 .. MaxSends,
  queue <- IF alive THEN Queue ELSE <<>>, receiver <- waiter, result <- value

(* The channel implements the bounded mailbox.                              *)
ImplementsMailbox == Abstract!Spec
=============================================================================
