--------------------------- MODULE ChannelProofs ----------------------------
(***************************************************************************)
(* Proofs about Channel.tla for any capacity, any number of receives and   *)
(* of sends: the ring buffer implements the bounded mailbox and keeps the  *)
(* order of the sends, and no freed memory is reached from a live object.  *)
(***************************************************************************)
EXTENDS Channel, SequenceTheorems, TLAPS

(* The inductive invariant: beside the properties, what an unresolved       *)
(* receive holds, and which values have left the buffer.                    *)
Unresolved ==
  /\ \A f \in Futures : state[f] \in {"unborn", "parked"} => value[f] = None
  /\ alive => \A f \in Futures : state[f] = "parked" => unparks[f]
  /\ ~alive => waiter = None

Contents ==
  alive =>
    /\ count <= sent
    /\ \A i \in 1 .. count : buf[Wrap(head + i - 1)] = sent - count + i
    /\ \A v \in 1 .. sent - count : \E f \in Futures : value[f] = v
    /\ \A f \in Futures : value[f] # None => value[f] \in 1 .. sent - count
    /\ \A f, g \in Futures : value[f] = value[g] /\ value[f] # None => f = g

IInv == TypeOK /\ NoStranded /\ NoDangling /\ Unresolved /\ Contents

-----------------------------------------------------------------------------
LEMMA InitInv == Init => IInv
  BY CapAssumption, NoneAssumption
  DEF Init, IInv, TypeOK, NoStranded, NoDangling, Unresolved, Contents

LEMMA NextInv == IInv /\ [Next]_vars => IInv'
<1> SUFFICES ASSUME IInv, [Next]_vars PROVE IInv'
  OBVIOUS
<1> USE CapAssumption, NoneAssumption
    DEF IInv, TypeOK, NoStranded, NoDangling, Unresolved, Contents, Settle, Complete, Accept,
        ring, futs
<1>1. CASE HandOver
  <2>1. TypeOK' /\ NoStranded' /\ NoDangling' /\ Unresolved'
    BY <1>1 DEF HandOver
  <2>2. /\ alive /\ count = 0 /\ waiter \in Futures /\ value[waiter] = None
        /\ sent' = sent + 1 /\ UNCHANGED <<buf, head, count, alive>>
        /\ \A f \in Futures : value'[f] = IF f = waiter THEN sent + 1 ELSE value[f]
    BY <1>1 DEF HandOver
  <2>3. \A v \in 1 .. sent' - count' : \E f \in Futures : value'[f] = v
    <3> SUFFICES ASSUME NEW v \in 1 .. sent + 1 PROVE \E f \in Futures : value'[f] = v
      BY <2>2
    <3>1. CASE v = sent + 1
      BY <2>2, <3>1
    <3>2. CASE v \in 1 .. sent
      <4>1. PICK f \in Futures : value[f] = v
        BY <2>2, <3>2
      <4> QED
        BY <2>2, <4>1
    <3> QED
      BY <3>1, <3>2
  <2>4. Contents'
    BY <2>2, <2>3
  <2> QED
    BY <2>1, <2>4
<1>2. CASE SendReturn
  BY <1>2 DEF SendReturn, AfterComplete
<1>3. CASE Buffer
  <2>1. TypeOK' /\ NoStranded' /\ NoDangling' /\ Unresolved'
    BY <1>3 DEF Buffer, RoomLeft, Wrap
  <2>2. /\ alive /\ count < Cap /\ count' = count + 1 /\ sent' = sent + 1
        /\ UNCHANGED <<head, value, alive>> /\ sent' - count' = sent - count
        /\ buf' = [buf EXCEPT ![Wrap(head + count)] = sent + 1]
    BY <1>3 DEF Buffer, RoomLeft
  <2>3. \A i \in 1 .. count' : buf'[Wrap(head' + i - 1)] = sent' - count' + i
    <3> SUFFICES ASSUME NEW i \in 1 .. count + 1 PROVE buf'[Wrap(head + i - 1)] = sent - count + i
      BY <2>2
    <3>1. Wrap(head + i - 1) \in 0 .. Cap - 1
      BY <2>2 DEF Wrap
    <3>2. CASE i = count + 1
      BY <2>2, <3>1, <3>2 DEF Wrap
    <3>3. CASE i \in 1 .. count
      <4>1. Wrap(head + i - 1) # Wrap(head + count)
        BY <2>2, <3>3 DEF Wrap
      <4> QED
        BY <2>2, <3>1, <3>3, <4>1
    <3> QED
      BY <3>2, <3>3
  <2>4. Contents'
    BY <2>2, <2>3
  <2> QED
    BY <2>1, <2>4
<1>4. ASSUME NEW f \in Futures, RecvBuffered(f) PROVE IInv'
  <2>1. TypeOK' /\ NoStranded' /\ NoDangling' /\ Unresolved'
    BY <1>4 DEF RecvBuffered, Wrap
  <2>2. /\ alive /\ count > 0 /\ count' = count - 1 /\ UNCHANGED <<buf, sent, alive>>
        /\ head' = Wrap(head + 1) /\ value[f] = None
        /\ value' = [value EXCEPT ![f] = buf[head]]
    BY <1>4 DEF RecvBuffered
  <2>3. buf[head] = sent - count + 1 /\ sent' - count' = sent - count + 1
    <3>1. buf[Wrap(head + 1 - 1)] = sent - count + 1
      BY <2>2
    <3>2. Wrap(head + 1 - 1) = head
      BY <2>2 DEF Wrap
    <3> QED
      BY <2>2, <3>1, <3>2
  <2>4. \A i \in 1 .. count' : buf'[Wrap(head' + i - 1)] = sent' - count' + i
    <3> SUFFICES ASSUME NEW i \in 1 .. count - 1
                 PROVE  buf[Wrap(Wrap(head + 1) + i - 1)] = sent - count + 1 + i
      BY <2>2, <2>3
    <3>1. Wrap(Wrap(head + 1) + i - 1) = Wrap(head + (i + 1) - 1)
      BY DEF Wrap
    <3>2. buf[Wrap(head + (i + 1) - 1)] = sent - count + (i + 1)
      <4>1. i + 1 \in 1 .. count
        BY <2>2
      <4> QED
        BY <2>2, <4>1
    <3> QED
      BY <3>1, <3>2
  <2>5. \A v \in 1 .. sent' - count' : \E g \in Futures : value'[g] = v
    <3> SUFFICES ASSUME NEW v \in 1 .. sent - count + 1 PROVE \E g \in Futures : value'[g] = v
      BY <2>3
    <3>1. CASE v = sent - count + 1
      BY <2>2, <2>3, <3>1
    <3>2. CASE v \in 1 .. sent - count
      <4>1. PICK g \in Futures : value[g] = v
        BY <2>2, <3>2
      <4> QED
        BY <2>2, <4>1
    <3> QED
      BY <3>1, <3>2
  <2>6. Contents'
    BY <2>2, <2>3, <2>4, <2>5, SMTT(30)
  <2> QED
    BY <2>1, <2>6
<1>5. ASSUME NEW f \in Futures, RecvPark(f) PROVE IInv'
  BY <1>5 DEF RecvPark
<1>6. ASSUME NEW f \in Futures, Take(f) PROVE IInv'
  BY <1>6 DEF Take
<1>7. ASSUME NEW f \in Futures, Drop(f) PROVE IInv'
  <2>1. /\ state' = [state EXCEPT ![f] = "dropped"] /\ waiter' = IF waiter = f THEN None ELSE waiter
        /\ UNCHANGED <<buf, head, count, alive, value, unparks, sent, calls>>
    BY <1>7 DEF Drop, Unpark
  <2>2. TypeOK' /\ NoStranded' /\ NoDangling' /\ Unresolved'
    BY <2>1
  <2>3. Contents'
    BY <2>1
  <2> QED
    BY <2>2, <2>3
<1>8. CASE Chan_free
  BY <1>8, ZenonT(40) DEF Chan_free, Detach
<1>9. CASE UNCHANGED vars
  BY <1>9 DEF vars
<1> QED
  BY <1>1, <1>2, <1>3, <1>4, <1>5, <1>6, <1>7, <1>8, <1>9 DEF Next

THEOREM IInvHolds == Spec => []IInv
  BY InitInv, NextInv, PTL DEF Spec

(* Type correctness.                                                        *)
THEOREM TypeCorrect == Spec => []TypeOK
<1>1. IInv => TypeOK
  BY DEF IInv
<1> QED
  BY <1>1, IInvHolds, PTL

(* A parked receive of a live channel is the channel's waiter.              *)
THEOREM NoReceiverStranded == Spec => []NoStranded
<1>1. IInv => NoStranded
  BY DEF IInv
<1> QED
  BY <1>1, IInvHolds, PTL

(* Neither the channel nor a cancel hook reaches freed memory.              *)
THEOREM MemorySafety == Spec => []NoDangling
<1>1. IInv => NoDangling
  BY DEF IInv
<1> QED
  BY <1>1, IInvHolds, PTL

(* Values are given out in the order of the sends, each once.               *)
THEOREM OrderKept == Spec => []InOrder
<1>1. IInv => InOrder
  BY DEF IInv, TypeOK, Contents, InOrder, Queue
<1> QED
  BY <1>1, IInvHolds, PTL

-----------------------------------------------------------------------------
(* A ring of n values starting at index h, read as a sequence.              *)
Read(b, h, n) == [i \in 1 .. n |-> b[Wrap(h + i - 1)]]

LEMMA ReadIsSeq ==
  ASSUME NEW b \in [0 .. Cap - 1 -> Nat], NEW h \in Nat, h = 0 \/ h < Cap, NEW n \in 0 .. Cap
  PROVE  /\ Read(b, h, n) \in Seq(Nat) /\ Len(Read(b, h, n)) = n
         /\ \A i \in 1 .. n : Read(b, h, n)[i] = b[Wrap(h + i - 1)]
<1>1. \A i \in 1 .. n : Wrap(h + i - 1) \in 0 .. Cap - 1
  BY CapAssumption DEF Wrap
<1>2. n \in Nat
  BY CapAssumption
<1>3. ASSUME NEW i \in 1 .. n PROVE b[Wrap(h + i - 1)] \in Nat
  <2>1. Wrap(h + i - 1) \in 0 .. Cap - 1
    BY <1>1
  <2> QED
    BY <2>1
<1>4. Read(b, h, n) \in Seq(Nat)
  <2>1. Read(b, h, n) \in [1 .. n -> Nat]
    BY <1>3 DEF Read
  <2> QED
    BY <1>2, <2>1, SeqDef
<1>5. DOMAIN Read(b, h, n) = 1 .. n
  BY DEF Read
<1>6. Len(Read(b, h, n)) = n
  BY <1>2, <1>4, <1>5, LenProperties
<1> QED
  BY <1>4, <1>6 DEF Read

(* While the channel lives its buffer is determined by the two counters, so *)
(* buffering a value appends it and receiving one removes the head.         *)
Counted ==
  /\ Queue \in Seq(Nat) /\ Len(Queue) = count
  /\ \A i \in 1 .. count : Queue[i] = sent - count + i

LEMMA QueueIs == IInv /\ alive => Counted
<1> SUFFICES ASSUME IInv, alive PROVE Counted
  OBVIOUS
<1>1. Queue = Read(buf, head, count)
  BY DEF Queue, Read
<1>2. /\ buf \in [0 .. Cap - 1 -> Nat] /\ head \in Nat /\ (head = 0 \/ head < Cap) /\ count \in 0 .. Cap
      /\ \A i \in 1 .. count : buf[Wrap(head + i - 1)] = sent - count + i
  BY DEF IInv, TypeOK, Contents
<1> QED
  BY <1>1, <1>2, ReadIsSeq DEF Counted

LEMMA BufferAppends ==
  ASSUME IInv, IInv', Buffer PROVE Queue' = Append(Queue, sent') /\ Len(Queue) < Cap
<1>1. /\ alive /\ alive' /\ count' = count + 1 /\ sent' = sent + 1 /\ count < Cap
      /\ count \in Nat /\ sent \in Nat
  BY CapAssumption DEF Buffer, Accept, RoomLeft, IInv, TypeOK
<1>2. /\ Queue \in Seq(Nat) /\ Len(Queue) = count
      /\ \A i \in 1 .. count : Queue[i] = sent - count + i
  BY <1>1, QueueIs DEF Counted
<1>3. /\ Queue' \in Seq(Nat) /\ Len(Queue') = count + 1
      /\ \A i \in 1 .. count + 1 : Queue'[i] = sent - count + i
  <2>1. (IInv /\ alive => Counted)'
    BY QueueIs, PTL
  <2> QED
    BY <1>1, <2>1 DEF Counted
<1>4. Append(Queue, sent') \in Seq(Nat) /\ Len(Append(Queue, sent')) = count + 1
  BY <1>1, <1>2
<1>5. ASSUME NEW i \in 1 .. count + 1 PROVE Queue'[i] = Append(Queue, sent')[i]
  BY <1>1, <1>2, <1>3
<1> QED
  BY <1>1, <1>2, <1>3, <1>4, <1>5, SeqEqual

LEMMA RecvTakesHead ==
  ASSUME IInv, IInv', NEW f \in Futures, RecvBuffered(f)
  PROVE  Queue # <<>> /\ Queue' = Tail(Queue) /\ buf[head] = Head(Queue)
<1>1. /\ alive /\ alive' /\ count' = count - 1 /\ sent' = sent /\ count > 0
      /\ count \in Nat /\ sent \in Nat /\ head \in Nat /\ (head = 0 \/ head < Cap) /\ count <= Cap
  BY CapAssumption DEF RecvBuffered, IInv, TypeOK
<1>2. /\ Queue \in Seq(Nat) /\ Len(Queue) = count
      /\ \A i \in 1 .. count : Queue[i] = sent - count + i
  BY <1>1, QueueIs DEF Counted
<1>3. /\ Queue' \in Seq(Nat) /\ Len(Queue') = count - 1
      /\ \A i \in 1 .. count - 1 : Queue'[i] = sent - count + 1 + i
  <2>1. (IInv /\ alive => Counted)'
    BY QueueIs, PTL
  <2> QED
    BY <1>1, <2>1 DEF Counted
<1>4. Queue # <<>>
  BY <1>1, <1>2
<1>5. /\ Tail(Queue) \in Seq(Nat) /\ Len(Tail(Queue)) = count - 1 /\ Head(Queue) = Queue[1]
      /\ \A i \in 1 .. count - 1 : Tail(Queue)[i] = Queue[i + 1]
  BY <1>1, <1>2, <1>4, HeadTailProperties
<1>6. ASSUME NEW i \in 1 .. count - 1 PROVE Queue'[i] = Tail(Queue)[i]
  BY <1>1, <1>2, <1>3, <1>5
<1>7. Queue' = Tail(Queue)
  BY <1>1, <1>3, <1>5, <1>6, SeqEqual
<1>8. buf[head] = Queue[1]
  <2>1. 1 \in 1 .. count /\ Wrap(head + 1 - 1) = head
    BY <1>1, CapAssumption DEF Wrap
  <2> QED
    BY <2>1 DEF Queue
<1> QED
  BY <1>4, <1>5, <1>7, <1>8

LEMMA StepRefines == IInv /\ IInv' /\ [Next]_vars => [Abstract!Next]_(Abstract!vars)
<1> SUFFICES ASSUME IInv, IInv', [Next]_vars PROVE [Abstract!Next]_(Abstract!vars)
  OBVIOUS
<1> DEFINE q == IF alive THEN Queue ELSE <<>>
<1> USE NoneAssumption DEF Abstract!Next, Abstract!vars, Settle, Complete, ring, futs
<1>1. ASSUME UNCHANGED <<ring, waiter, alive, value>> PROVE UNCHANGED Abstract!vars
  BY <1>1 DEF Queue
<1>2. CASE HandOver
  <2>1. /\ waiter \in Futures /\ waiter' = None /\ count = 0 /\ alive /\ value[waiter] = None
        /\ UNCHANGED <<ring, alive>> /\ sent' \in 1 .. MaxSends
        /\ value' = [value EXCEPT ![waiter] = sent']
    BY <1>2, CapAssumption DEF HandOver, Accept, IInv, TypeOK, NoDangling, NoStranded, Unresolved
  <2>2. q = <<>> /\ q' = q
    BY <2>1 DEF Queue
  <2>3. Abstract!Hand(sent')
    BY <2>1, <2>2 DEF Abstract!Hand, Abstract!Give
  <2> QED
    BY <2>1, <2>3
<1>3. CASE Buffer
  <2>1. /\ alive /\ waiter = None /\ UNCHANGED <<alive, waiter, value>> /\ sent' \in 1 .. MaxSends
    BY <1>3, CapAssumption DEF Buffer, Accept, IInv, TypeOK
  <2>2. q' = Append(q, sent') /\ Len(q) < Cap
    BY <1>3, <2>1, BufferAppends
  <2>3. Abstract!Put(sent')
    BY <2>1, <2>2 DEF Abstract!Put
  <2> QED
    BY <2>1, <2>3
<1>4. ASSUME NEW f \in Futures, RecvBuffered(f) PROVE [Abstract!Next]_(Abstract!vars)
  <2>1. /\ alive /\ waiter = None /\ UNCHANGED <<alive, waiter>> /\ value[f] = None
        /\ value' = [value EXCEPT ![f] = buf[head]]
    BY <1>4 DEF RecvBuffered, IInv, Unresolved
  <2>2. q # <<>> /\ q' = Tail(q) /\ buf[head] = Head(q)
    BY <1>4, <2>1, RecvTakesHead
  <2>3. Abstract!Get(f)
    BY <2>1, <2>2 DEF Abstract!Get, Abstract!Give
  <2> QED
    BY <2>3
<1>5. ASSUME NEW f \in Futures, RecvPark(f) PROVE [Abstract!Next]_(Abstract!vars)
  <2>1. q = <<>> /\ q' = q /\ waiter = None /\ waiter' = f /\ value' = value
    BY <1>5 DEF RecvPark, Queue
  <2>2. Abstract!Wait(f)
    BY <2>1 DEF Abstract!Wait
  <2> QED
    BY <2>2
<1>6. ASSUME NEW f \in Futures, Drop(f) PROVE [Abstract!Next]_(Abstract!vars)
  <2>1. /\ waiter' \in {waiter, None} /\ UNCHANGED <<ring, alive, value>>
    BY <1>6 DEF Drop, Unpark
  <2>2. q' = q
    BY <2>1 DEF Queue
  <2> QED
    BY <2>1, <2>2 DEF Abstract!Cancel
<1>7. CASE Chan_free
  <2>1. waiter' = None /\ q' = <<>> /\ value' = value
    BY <1>7 DEF Chan_free
  <2> QED
    BY <2>1 DEF Abstract!Close
<1>8. CASE SendReturn \/ (\E f \in Futures : Take(f)) \/ UNCHANGED vars
  BY <1>1, <1>8 DEF SendReturn, AfterComplete, Take, vars
<1> QED
  BY <1>2, <1>3, <1>4, <1>5, <1>6, <1>7, <1>8 DEF Next

(* The ring buffer, the waiter and the cancel hooks implement the mailbox.  *)
THEOREM Implementation == Spec => ImplementsMailbox
<1>1. Init => Abstract!Init
  BY DEF Init, Abstract!Init, Queue
<1> QED
  BY <1>1, StepRefines, IInvHolds, PTL DEF Spec, ImplementsMailbox, Abstract!Spec
=============================================================================
