---------------------------- MODULE FutureProofs ----------------------------
(***************************************************************************)
(* Proofs about Future.tla for any number of futures, producers and        *)
(* threads, under the discipline the runtime's own leaf futures follow:    *)
(* one completion per future, and a future that another thread completes   *)
(* is never dropped.  The run future_race shows what happens outside it.   *)
(***************************************************************************)
EXTENDS Future, TLAPS

Discipline ==
  /\ \A p, q \in Producers : Target[p] = Target[q] => p = q
  /\ \A p \in Foreign : Target[p] \notin Droppable

(* What a producer's place in Future_complete says about its future.        *)
ProducerInv ==
  \A p \in Producers :
    LET f == Target[p] IN
    /\ ppc[p] = "work" => state[f] \in {PENDING, WAITING} \/ apc[f] = "swapped"
    /\ ppc[p] = "cas1" => state[f] \in {PENDING, WAITING}
    /\ ppc[p] = "cas2" => state[f] = WAITING
    /\ ppc[p] = "wake" => state[f] = READY /\ apc[f] = "parked" /\ resumes[f] = 0
    /\ ppc[p] = "done" => state[f] = READY \/ apc[f] \in {"release", "dropped"}
    /\ ppc[p] = "cancelled" => apc[f] \in {"release", "dropped"}
    /\ ppc[p] \in {"cas1", "cas2", "wake", "done"} => value[f] = p
    /\ ppc[p] = "done" /\ apc[f] = "parked" => f \in queued

(* What the owner's place in Future_poll or Future_drop says about it.      *)
OwnerInv ==
  \A f \in Futures :
    /\ apc[f] \in {"new", "polled"} => state[f] \in {PENDING, READY} /\ resumes[f] = 0
    /\ apc[f] = "parked" => state[f] \in {WAITING, READY}
    /\ apc[f] \in {"take", "taken"} => state[f] = READY
    /\ apc[f] \in {"swapped", "release", "dropped"} => state[f] = CANCELLED /\ f \in Droppable
    /\ state[f] = WAITING => apc[f] = "parked" /\ resumes[f] = 0
    /\ state[f] = READY => \E p \in Producers : Target[p] = f /\ ppc[p] \in {"wake", "done"}
    /\ f \in queued => /\ state[f] = READY /\ apc[f] = "parked" /\ resumes[f] = 1
                       /\ f \notin Droppable
    /\ resumes[f] <= 1
    /\ apc[f] = "taken" => \E p \in Producers : Target[p] = f /\ taken[f] = p

IInv == TypeOK /\ ProducerInv /\ OwnerInv

-----------------------------------------------------------------------------
LEMMA InitInv == Init => IInv
  BY TargetAssumption, ValueAssumption
  DEF Init, IInv, TypeOK, ProducerInv, OwnerInv, PENDING, WAITING, READY, CANCELLED

LEMMA NextInv == ASSUME Discipline PROVE IInv /\ [Next]_vars => IInv'
<1> SUFFICES ASSUME IInv, [Next]_vars PROVE IInv'
  OBVIOUS
<1> USE Discipline, ForeignAssumption, TargetAssumption, DropAssumption, ValueAssumption
    DEF Discipline, IInv, TypeOK, ProducerInv, OwnerInv, PENDING, WAITING, READY, CANCELLED,
        Cas, SetState, Owner, Producer, HomeFree, InCall, Parked, Published, WriteValue
<1>1. ASSUME NEW f \in Futures, PollBegin(f) PROVE IInv'
  BY <1>1 DEF PollBegin
<1>2. ASSUME NEW f \in Futures, Poll(f) PROVE IInv'
  BY <1>2 DEF Poll
<1>3. ASSUME NEW f \in Futures, Resume(f) PROVE IInv'
  BY <1>3 DEF Resume
<1>4. ASSUME NEW f \in Futures, Take(f) PROVE IInv'
  BY <1>4 DEF Take
<1>5. ASSUME NEW f \in Futures, DropSwap(f) PROVE IInv'
  BY <1>5 DEF DropSwap
<1>6. ASSUME NEW f \in Futures, OnDrop(f) PROVE IInv'
  BY <1>6 DEF OnDrop, Deregister
<1>7. ASSUME NEW f \in Futures, DropFree(f) PROVE IInv'
  BY <1>7 DEF DropFree
<1>8. ASSUME NEW p \in Producers, Complete(p) PROVE IInv'
  BY <1>8 DEF Complete
<1>9. ASSUME NEW p \in Producers, CompletePending(p) PROVE IInv'
  BY <1>9 DEF CompletePending
<1>10. ASSUME NEW p \in Producers, CompleteWaiting(p) PROVE IInv'
  BY <1>10 DEF CompleteWaiting
<1>11. ASSUME NEW p \in Producers, CompleteWake(p) PROVE IInv'
  BY <1>11 DEF CompleteWake
<1>12. CASE UNCHANGED vars
  BY <1>12 DEF vars
<1> QED
  BY <1>1, <1>2, <1>3, <1>4, <1>5, <1>6, <1>7, <1>8, <1>9, <1>10, <1>11, <1>12
  DEF Next, HomeStep, ProducerStep

LEMMA InvariantHolds == ASSUME Discipline PROVE Spec => []IInv
<1>1. Init => IInv
  BY InitInv
<1>2. IInv /\ [Next]_vars => IInv'
  BY NextInv
<1> QED
  BY <1>1, <1>2, PTL DEF Spec

-----------------------------------------------------------------------------
(* Type correctness under the discipline.                                   *)
THEOREM TypeCorrect == ASSUME Discipline PROVE Spec => []TypeOK
  BY InvariantHolds, PTL DEF IInv

(* No lost wake-up: whoever parks is resumed or has its resume queued once  *)
(* the producer has finished.                                               *)
THEOREM NoLostWakeup == ASSUME Discipline PROVE Spec => []NoLostResume
<1>1. IInv => NoLostResume
  BY DEF IInv, ProducerInv, NoLostResume
<1> QED
  BY <1>1, InvariantHolds, PTL

(* The awaiter's waker runs at most once, on a parked awaiter.              *)
THEOREM SingleResume == ASSUME Discipline PROVE Spec => []ResumedOnce
<1>1. IInv => ResumedOnce
  BY DEF IInv, OwnerInv, ResumedOnce
<1> QED
  BY <1>1, InvariantHolds, PTL

(* The awaiter takes the value the producer published.                      *)
THEOREM PublishedValue == ASSUME Discipline PROVE Spec => []TakesTheValue
<1>1. IInv => TakesTheValue
  <2> SUFFICES ASSUME IInv, NEW f \in Futures
               PROVE  /\ state[f] = READY => value[f] # NoValue
                      /\ apc[f] = "taken" => \E p \in Producers : Target[p] = f /\ taken[f] = p
    BY DEF TakesTheValue
  <2>1. ASSUME state[f] = READY PROVE value[f] # NoValue
    <3>1. PICK p \in Producers : Target[p] = f /\ ppc[p] \in {"wake", "done"}
      BY <2>1 DEF IInv, OwnerInv
    <3>2. value[Target[p]] = p
      BY <3>1 DEF IInv, ProducerInv
    <3> QED
      BY <3>1, <3>2, ValueAssumption
  <2> QED
    BY <2>1 DEF IInv, OwnerInv
<1> QED
  BY <1>1, InvariantHolds, PTL

(* A parked awaiter gets its value, once.                                   *)
THEOREM HandOver == ASSUME Discipline PROVE Spec => []HandedOver
  BY NoLostWakeup, SingleResume, PublishedValue, PTL DEF HandedOver

(* Nobody touches a future after its memory was freed.                      *)
THEOREM MemorySafety == ASSUME Discipline PROVE Spec => []NoTouchAfterFree
<1>1. IInv => NoTouchAfterFree
  BY TargetAssumption
  DEF IInv, TypeOK, ProducerInv, OwnerInv, NoTouchAfterFree, Freed,
      PENDING, WAITING, READY, CANCELLED
<1> QED
  BY <1>1, InvariantHolds, PTL
=============================================================================
