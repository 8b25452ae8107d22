------------------------------- MODULE Future -------------------------------
(***************************************************************************)
(* stdlib/future.esk: Future_poll, Future_complete, Future_drop and        *)
(* Future_free on futures that a home thread (the awaiter's executor)      *)
(* shares with producers.  Each access to the header is a step.            *)
(*                                                                         *)
(* A producer in Foreign runs on a thread of its own: its waker hands the  *)
(* resume to the home executor, and on_drop cannot stop it.  Any other     *)
(* producer is a callback of the home loop: it takes no step while the     *)
(* home thread is inside another call, its waker resumes in place, and     *)
(* on_drop deregisters it.  States 4..6 are in Coroutine.tla.              *)
(***************************************************************************)
EXTENDS Integers

CONSTANTS
  Futures,      \* Future<T> objects
  Producers,    \* one per call of Future_complete
  Foreign,      \* the producers that run on other threads
  Target,       \* the future each producer completes
  Droppable,    \* futures whose owner may call Future_drop
  NoValue       \* `value` before the first write

ASSUME ForeignAssumption == Foreign \subseteq Producers
ASSUME TargetAssumption  == Target \in [Producers -> Futures]
ASSUME DropAssumption    == Droppable \subseteq Futures
ASSUME ValueAssumption   == NoValue \notin Producers

DETACHED  == 4     \* and mutant of READY
PENDING   == 0
WAITING   == 1
READY     == 2
CANCELLED == 3

VARIABLES
  state,     \* per future, f.state
  value,     \* per future, f.value: the producer that wrote it last
  ppc,       \* per producer, where it is in Future_complete
  apc,       \* per future, where its owner is in Future_poll / Future_drop
  queued,    \* futures whose resume is queued on the home executor
  taken,     \* per future, the value its awaiter read
  resumes    \* per future, how often the awaiter's waker was called

vars == <<state, value, ppc, apc, queued, taken, resumes>>

Init ==
  /\ state = [f \in Futures |-> PENDING]
  /\ value = [f \in Futures |-> NoValue]
  /\ ppc = [p \in Producers |-> "work"]
  /\ apc = [f \in Futures |-> "new"]
  /\ queued = {}
  /\ taken = [f \in Futures |-> NoValue]
  /\ resumes = [f \in Futures |-> 0]

-----------------------------------------------------------------------------
Cas(f, s)     == state[f] = s
SetState(f, s) == state' = [state EXCEPT ![f] = s]
Freed(f)      == apc[f] \in {"taken", "dropped"}

(* Calls of the home thread that have begun and not returned.               *)
InCall(f) == apc[f] \in {"polled", "take", "swapped", "release"}
HomeFree  == /\ \A f \in Futures : ~InCall(f)
             /\ \A p \in Producers \ Foreign : ppc[p] \in {"work", "done", "cancelled"}

Owner(f, from, to) == apc[f] = from /\ apc' = [apc EXCEPT ![f] = to]
Producer(p, from, to) == ppc[p] = from /\ ppc' = [ppc EXCEPT ![p] = to]

(* Future_poll: publish the waker, then park unless already READY.          *)
PollBegin(f) ==
  /\ HomeFree
  /\ Owner(f, "new", "polled")
  /\ UNCHANGED <<state, value, ppc, queued, taken, resumes>>

Poll(f) ==
  /\ \/ Cas(f, PENDING) /\ SetState(f, WAITING) /\ Owner(f, "polled", "parked")
     \/ ~Cas(f, PENDING) /\ Owner(f, "polled", "take") /\ UNCHANGED state
  /\ UNCHANGED <<value, ppc, queued, taken, resumes>>

(* The home executor runs a queued resume.                                  *)
Resume(f) ==
  /\ HomeFree
  /\ f \in queued /\ queued' = queued \ {f}
  /\ Owner(f, "parked", "take")
  /\ UNCHANGED <<state, value, ppc, taken, resumes>>

(* The awaiter reads the value and calls Future_free.                       *)
Take(f) ==
  /\ Owner(f, "take", "taken")
  /\ taken' = [taken EXCEPT ![f] = value[f]]
  /\ UNCHANGED <<state, value, ppc, queued, resumes>>

-----------------------------------------------------------------------------
(* Mutants: the value is not stored, the second CAS fails always, the       *)
(* return after the first CAS is missing, on_drop deregisters nothing.      *)
NoWrite(p)      == UNCHANGED value
NeverParked(f)  == FALSE
FallThrough     == "wake"
DetachOnly(f)   == ppc

(* Future_complete: write the value, then publish it.                       *)
Parked(f)     == Cas(f, WAITING)
Published     == "done"
WriteValue(p) == value' = [value EXCEPT ![Target[p]] = p]

Complete(p) ==
  /\ p \notin Foreign => HomeFree
  /\ Producer(p, "work", "cas1")
  /\ WriteValue(p)
  /\ UNCHANGED <<state, apc, queued, taken, resumes>>

CompletePending(p) ==
  LET f == Target[p] IN
  /\ \/ Cas(f, PENDING) /\ SetState(f, READY) /\ Producer(p, "cas1", Published)
     \/ ~Cas(f, PENDING) /\ Producer(p, "cas1", "cas2") /\ UNCHANGED state
  /\ UNCHANGED <<value, apc, queued, taken, resumes>>

CompleteWaiting(p) ==
  LET f == Target[p] IN
  /\ \/ Parked(f) /\ SetState(f, READY) /\ Producer(p, "cas2", "wake")
     \/ ~Parked(f) /\ Producer(p, "cas2", "done") /\ UNCHANGED state
  /\ UNCHANGED <<value, apc, queued, taken, resumes>>

(* waker(): a callback of the home loop resumes the awaiter in place, a     *)
(* foreign producer queues the resume on the home executor.                 *)
CompleteWake(p) ==
  LET f == Target[p] IN
  /\ Producer(p, "wake", "done")
  /\ resumes' = [resumes EXCEPT ![f] = @ + 1]
  /\ IF p \in Foreign
       THEN queued' = queued \cup {f} /\ UNCHANGED apc
       ELSE Owner(f, "parked", "take") /\ UNCHANGED queued
  /\ UNCHANGED <<state, value, taken>>

-----------------------------------------------------------------------------
(* Future_drop by the owner, before it polled or while it is parked.        *)
DropSwap(f) ==
  /\ HomeFree
  /\ f \in Droppable
  /\ \E from \in {"new", "parked"} :
       Owner(f, from, IF state[f] # READY THEN "swapped" ELSE "release")
  /\ SetState(f, CANCELLED)
  /\ UNCHANGED <<value, ppc, queued, taken, resumes>>

(* on_drop deregisters the callback that would complete f; a producer on    *)
(* another thread is only detached.                                         *)
Deregister(f) ==
  [p \in Producers |->
     IF Target[p] = f /\ p \notin Foreign /\ ppc[p] = "work" THEN "cancelled" ELSE ppc[p]]

OnDrop(f) ==
  /\ Owner(f, "swapped", "release")
  /\ ppc' = Deregister(f)
  /\ UNCHANGED <<state, value, queued, taken, resumes>>

(* The waker and on_drop envs and the future itself are freed.              *)
DropFree(f) ==
  /\ Owner(f, "release", "dropped")
  /\ UNCHANGED <<state, value, ppc, queued, taken, resumes>>

-----------------------------------------------------------------------------
HomeStep(f) == Poll(f) \/ Resume(f) \/ Take(f) \/ OnDrop(f) \/ DropFree(f)

ProducerStep(p) ==
  Complete(p) \/ CompletePending(p) \/ CompleteWaiting(p) \/ CompleteWake(p)

Next ==
  \/ \E f \in Futures : PollBegin(f) \/ DropSwap(f) \/ HomeStep(f)
  \/ \E p \in Producers : ProducerStep(p)

Spec == Init /\ [][Next]_vars

(* Producers finish, and the home executor runs what is queued on it. It    *)
(* runs one call at a time, so it gets to each of them again and again.     *)
FairSpec ==
  /\ Spec
  /\ \A f \in Futures : SF_vars(HomeStep(f))
  /\ \A p \in Producers : SF_vars(ProducerStep(p))

-----------------------------------------------------------------------------
TypeOK ==
  /\ state \in [Futures -> 0..3]
  /\ value \in [Futures -> Producers \cup {NoValue}]
  /\ ppc \in [Producers -> {"work", "cas1", "cas2", "wake", "done", "cancelled"}]
  /\ apc \in [Futures -> {"new", "polled", "parked", "take", "taken",
                          "swapped", "release", "dropped"}]
  /\ queued \subseteq Futures
  /\ taken \in [Futures -> Producers \cup {NoValue}]
  /\ resumes \in [Futures -> Nat]

(* No lost wake-up (async-design.md 2.2): an awaiter parked on a future     *)
(* whose producer has finished has its resume on the way.                   *)
NoLostResume ==
  \A p \in Producers :
    ppc[p] = "done" /\ apc[Target[p]] = "parked" => Target[p] \in queued

(* An awaiter is resumed at most once, and only when READY.                 *)
ResumedOnce ==
  \A f \in Futures :
    /\ resumes[f] <= 1
    /\ f \in queued => state[f] = READY /\ apc[f] = "parked" /\ resumes[f] = 1

(* The value is published before READY can be observed: what the awaiter    *)
(* takes is what the producer wrote.                                        *)
TakesTheValue ==
  \A f \in Futures :
    /\ state[f] = READY => value[f] # NoValue
    /\ apc[f] = "taken" => \E p \in Producers : Target[p] = f /\ taken[f] = p

(* An awaiter that parks gets its value, once: it is not forgotten, not     *)
(* resumed twice and not resumed before the value is there.                 *)
HandedOver == NoLostResume /\ ResumedOnce /\ TakesTheValue

(* A future's memory is freed only when nobody will touch it again: its     *)
(* producer has returned or can no longer run, and no resume is queued.     *)
(* "If the future is already terminal ... completing is a no-op"            *)
(* (future.esk:85-87); "any thread" (async-design.md 3.2, 3.3).             *)
NoTouchAfterFree ==
  \A f \in Futures : Freed(f) =>
    /\ f \notin queued
    /\ \A p \in Producers : Target[p] = f => ppc[p] \in {"done", "cancelled"}

(* Every future that was polled is finalized: its awaiter takes the value   *)
(* and frees it, or its owner drops it.                                     *)
EventuallyFinal == \A f \in Futures : (apc[f] = "polled") ~> Freed(f)
=============================================================================
