------------------------------ MODULE Mailbox -------------------------------
(***************************************************************************)
(* What a Chan promises, with no ring buffer and no callbacks: values wait *)
(* in one bounded queue and leave it in order, each for one receive; a     *)
(* receive that finds the queue empty waits for the next value unless it   *)
(* is cancelled first.  Channel.tla is shown to implement this module.     *)
(***************************************************************************)
EXTENDS Sequences, Naturals

CONSTANTS Receives, Values, Cap, None

VARIABLES
  queue,       \* values sent and not yet received, oldest first
  receiver,    \* the receive that waits, or None
  result       \* per receive, the value it was given, or None

vars == <<queue, receiver, result>>

Init ==
  /\ queue = <<>>
  /\ receiver = None
  /\ result = [r \in Receives |-> None]

Give(r, v) == result[r] = None /\ result' = [result EXCEPT ![r] = v]

Put(v) ==
  /\ receiver = None /\ Len(queue) < Cap
  /\ queue' = Append(queue, v)
  /\ UNCHANGED <<receiver, result>>

Hand(v) ==
  /\ receiver # None /\ queue = <<>>
  /\ Give(receiver, v)
  /\ receiver' = None
  /\ UNCHANGED queue

Get(r) ==
  /\ receiver = None /\ queue # <<>>
  /\ Give(r, Head(queue))
  /\ queue' = Tail(queue)
  /\ UNCHANGED receiver

Wait(r) ==
  /\ receiver = None /\ queue = <<>>
  /\ receiver' = r
  /\ UNCHANGED <<queue, result>>

Cancel == receiver' = None /\ UNCHANGED <<queue, result>>

Close == receiver' = None /\ queue' = <<>> /\ UNCHANGED result

Next ==
  \/ \E v \in Values : Put(v) \/ Hand(v)
  \/ \E r \in Receives : Get(r) \/ Wait(r)
  \/ Cancel \/ Close

Spec == Init /\ [][Next]_vars
=============================================================================
