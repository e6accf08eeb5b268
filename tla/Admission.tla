----------------------------- MODULE Admission -----------------------------
(***************************************************************************)
(* The admission layer of the gateway: AdmissionController.gate/release    *)
(* (admission/controller.py) over one BackpressureQueue per tier           *)
(* (admission/queue.py), each built on an asyncio.Semaphore under          *)
(* asyncio.wait_for.                                                       *)
(*                                                                         *)
(* Everything runs on one event loop, so an action is the code a task runs *)
(* between two awaits.  gate() suspends at one place only, the await of    *)
(* the semaphore's future.  Between the moment that future is completed    *)
(* (by a release or by the timer) and the moment its task runs again,      *)
(* every other task may run: those are the stages "granted", "cancelled"   *)
(* and "revoked" below.                                                    *)
(*                                                                         *)
(* Budget and backend health are inputs here: a refusal for one of them    *)
(* may happen at any call.                                                 *)
(***************************************************************************)
EXTENDS Integers, FiniteSets

CONSTANTS
  Requests,     \* handles of HTTP requests; a handle is used again and again
  Sessions,     \* values of x_session_id
  Tiers,        \* Tier.BIG and Tier.SMALL
  Capacity,     \* Capacity[t]: max_inflight summed over the healthy backends
  MaxQueue,     \* admission.max_queue_size
  Overlapping,  \* may two requests of one session be in flight together?
  None          \* "no tier" / "no session"

ASSUME AdmissionAssumption ==
  /\ IsFiniteSet(Requests)
  /\ IsFiniteSet(Sessions)
  /\ Capacity \in [Tiers -> Nat \ {0}]
  /\ MaxQueue \in Nat
  /\ Overlapping \in BOOLEAN
  /\ None \notin Tiers
  /\ None \notin Sessions

VARIABLES
  stage,   \* stage[r]: where the task of request r stands
  sess,    \* sess[r]: its session while it is inside gate() or admitted
  tier,    \* tier[r]: the tier it asked for
  value,   \* value[t]: Semaphore._value of the tier
  ahead,   \* ahead[r]: requests in front of r in Semaphore._waiters
  queued,  \* queued[t]: BackpressureQueue._queued
  held     \* held[s]: AdmissionController._held.get(s)

vars == <<stage, sess, tier, value, ahead, queued, held>>

-----------------------------------------------------------------------------
(* Stages of a request.                                                    *)
(*   idle       not yet sent, or answered                                  *)
(*   refused    gate() raised (budget, no backend, queue full, timeout)    *)
(*   pending    its future is in _waiters and not done                     *)
(*   granted    _wake_up_next() completed the future; task not yet resumed *)
(*   cancelled  the timer cancelled the pending future; not yet resumed    *)
(*   revoked    the timer fired on a granted future; not yet resumed       *)
(*   admitted   gate() returned; the request is at its backend             *)
Out     == {"idle", "refused"}
InDeque == {"pending", "granted", "cancelled", "revoked"}
Holding == {"granted", "revoked", "admitted"}
Stages  == Out \cup InDeque \cup {"admitted"}

TypeOK ==
  /\ stage  \in [Requests -> Stages]
  /\ sess   \in [Requests -> Sessions \cup {None}]
  /\ tier   \in [Requests -> Tiers \cup {None}]
  /\ value  \in [Tiers -> Nat]
  /\ ahead  \in [Requests -> SUBSET Requests]
  /\ queued \in [Tiers -> Nat]
  /\ held   \in [Sessions -> Tiers \cup {None}]

At(t, S) == {r \in Requests : tier[r] = t /\ stage[r] \in S}

Init ==
  /\ stage  = [r \in Requests |-> "idle"]
  /\ sess   = [r \in Requests |-> None]
  /\ tier   = [r \in Requests |-> None]
  /\ value  = Capacity
  /\ ahead  = [r \in Requests |-> {}]
  /\ queued = [t \in Tiers |-> 0]
  /\ held   = [s \in Sessions |-> None]

-----------------------------------------------------------------------------
(* asyncio.Semaphore *)

(* Semaphore.locked(): no free slot, or somebody's future is still queued. *)
Locked(t) == value[t] = 0 \/ At(t, InDeque \ {"cancelled"}) # {}

(* The first waiter of tier t whose future is not done. *)
IsNext(w, t) == /\ w \in At(t, {"pending"})
                /\ ahead[w] \cap At(t, {"pending"}) = {}

(* value[t] becomes v and the stages become st; then _wake_up_next() hands *)
(* one slot to the first waiter whose future is not done, if there is one. *)
SetAndWake(t, v, st) ==
  \/ /\ v > 0
     /\ \E w \in Requests :
          /\ IsNext(w, t)
          /\ value' = [value EXCEPT ![t] = v - 1]
          /\ stage' = [st EXCEPT ![w] = "granted"]
  \/ /\ v = 0 \/ At(t, {"pending"}) = {}
     /\ value' = [value EXCEPT ![t] = v]
     /\ stage' = st

Enqueue(r, t) == ahead' = [ahead EXCEPT ![r] = At(t, InDeque)]

(* self._waiters.remove(fut) *)
Dequeue(r) == ahead' = [q \in Requests |-> IF q = r THEN {} ELSE ahead[q] \ {r}]

-----------------------------------------------------------------------------
(* AdmissionController.gate *)

(* Request r of session s asks for tier t.  Unless sessions overlap, a     *)
(* client sends a turn only after the answer to the previous one.          *)
Called(r, s, t) ==
  /\ stage[r] \in Out
  /\ Overlapping \/ \A q \in Requests : sess[q] # s

(* The budget check fails or the tier has no healthy backend. *)
GateRefused(r, s, t) ==
  /\ Called(r, s, t)
  /\ stage' = [stage EXCEPT ![r] = "refused"]
  /\ UNCHANGED <<sess, tier, value, ahead, queued, held>>

(* The queue already counts max_queue_size callers. *)
GateQueueFull(r, s, t) ==
  /\ Called(r, s, t)
  /\ queued[t] >= MaxQueue
  /\ stage' = [stage EXCEPT ![r] = "refused"]
  /\ UNCHANGED <<sess, tier, value, ahead, queued, held>>

(* Mutations of GateAtOnce: a short cut past the semaphore's queue, with    *)
(* and without a look at the free slots.                                   *)
GateAtOnceByCounter(r, s, t) ==
  /\ Called(r, s, t)
  /\ queued[t] < MaxQueue
  /\ value[t] > 0
  /\ stage' = [stage EXCEPT ![r] = "admitted"]
  /\ sess'  = [sess EXCEPT ![r] = s]
  /\ tier'  = [tier EXCEPT ![r] = t]
  /\ value' = [value EXCEPT ![t] = @ - 1]
  /\ held'  = [held EXCEPT ![s] = t]
  /\ UNCHANGED <<ahead, queued>>

GateAtOnceUnchecked(r, s, t) ==
  /\ Called(r, s, t)
  /\ stage' = [stage EXCEPT ![r] = "admitted"]
  /\ sess'  = [sess EXCEPT ![r] = s]
  /\ tier'  = [tier EXCEPT ![r] = t]
  /\ value' = [value EXCEPT ![t] = @ - 1]
  /\ held'  = [held EXCEPT ![s] = t]
  /\ UNCHANGED <<ahead, queued>>

(* A slot is free and nobody waits: acquire() returns without suspending,  *)
(* so _queued goes up and down again within the step.                      *)
GateAtOnce(r, s, t) ==
  /\ Called(r, s, t)
  /\ queued[t] < MaxQueue
  /\ ~Locked(t)
  /\ stage' = [stage EXCEPT ![r] = "admitted"]
  /\ sess'  = [sess EXCEPT ![r] = s]
  /\ tier'  = [tier EXCEPT ![r] = t]
  /\ value' = [value EXCEPT ![t] = @ - 1]
  /\ held'  = [held EXCEPT ![s] = t]
  /\ UNCHANGED <<ahead, queued>>

(* The caller is queued and suspends. *)
GateWaits(r, s, t) ==
  /\ Called(r, s, t)
  /\ queued[t] < MaxQueue
  /\ Locked(t)
  /\ stage'  = [stage EXCEPT ![r] = "pending"]
  /\ sess'   = [sess EXCEPT ![r] = s]
  /\ tier'   = [tier EXCEPT ![r] = t]
  /\ queued' = [queued EXCEPT ![t] = @ + 1]
  /\ Enqueue(r, t)
  /\ UNCHANGED <<value, held>>

(* The timer of wait_for fires: a pending future is cancelled; a future    *)
(* that was already granted cannot be, the task is cancelled instead.      *)
TimerFires(r) ==
  /\ \/ /\ stage[r] = "pending"
        /\ stage' = [stage EXCEPT ![r] = "cancelled"]
     \/ /\ stage[r] = "granted"
        /\ stage' = [stage EXCEPT ![r] = "revoked"]
  /\ UNCHANGED <<sess, tier, value, ahead, queued, held>>

(* The task of r leaves acquire() one way or the other. *)
LeaveQueue(r) ==
  /\ Dequeue(r)
  /\ queued' = [queued EXCEPT ![tier[r]] = @ - 1]

(* Mutation of ResumeGranted: a further free slot is not passed on. *)
ResumeGrantedNoWake(r) ==
  /\ stage[r] = "granted"
  /\ LeaveQueue(r)
  /\ stage' = [stage EXCEPT ![r] = "admitted"]
  /\ held' = [held EXCEPT ![sess[r]] = tier[r]]
  /\ UNCHANGED <<sess, tier, value>>

(* A granted waiter runs: it passes a further free slot on, gate() returns *)
(* and the slot is recorded under the session.                             *)
ResumeGranted(r) ==
  /\ stage[r] = "granted"
  /\ LeaveQueue(r)
  /\ SetAndWake(tier[r], value[tier[r]], [stage EXCEPT ![r] = "admitted"])
  /\ held' = [held EXCEPT ![sess[r]] = tier[r]]
  /\ UNCHANGED <<sess, tier>>

(* Mutation of Refuse: the timeout path forgets to decrement _queued. *)
RefuseStillCounted(r) ==
  /\ Dequeue(r)
  /\ sess' = [sess EXCEPT ![r] = None]
  /\ tier' = [tier EXCEPT ![r] = None]
  /\ UNCHANGED <<held, queued>>

(* gate() raises QueueFullException: the request is over. *)
Refuse(r) ==
  /\ LeaveQueue(r)
  /\ sess' = [sess EXCEPT ![r] = None]
  /\ tier' = [tier EXCEPT ![r] = None]
  /\ UNCHANGED held

(* Mutation of ResumeCancelled: a slot that was never granted is released. *)
ResumeCancelledReleases(r) ==
  /\ stage[r] = "cancelled"
  /\ Refuse(r)
  /\ SetAndWake(tier[r], value[tier[r]] + 1, [stage EXCEPT ![r] = "refused"])

(* A waiter whose future was cancelled runs. *)
ResumeCancelled(r) ==
  /\ stage[r] = "cancelled"
  /\ Refuse(r)
  /\ stage' = [stage EXCEPT ![r] = "refused"]
  /\ UNCHANGED value

(* Mutation of ResumeRevoked: the granted slot is not given back. *)
ResumeRevokedKeepsSlot(r) ==
  /\ stage[r] = "revoked"
  /\ Refuse(r)
  /\ stage' = [stage EXCEPT ![r] = "refused"]
  /\ UNCHANGED value

(* A waiter that was granted a slot and then cancelled runs: the semaphore *)
(* takes the slot back and wakes the next waiter.                          *)
ResumeRevoked(r) ==
  /\ stage[r] = "revoked"
  /\ Refuse(r)
  /\ SetAndWake(tier[r], value[tier[r]] + 1, [stage EXCEPT ![r] = "refused"])

(* Mutation of Release: nobody is woken. *)
ReleaseWakesNobody(r) ==
  /\ stage[r] = "admitted"
  /\ stage' = [stage EXCEPT ![r] = "idle"]
  /\ value' = [value EXCEPT ![held[sess[r]]] = @ + 1]
  /\ held' = [held EXCEPT ![sess[r]] = None]
  /\ sess' = [sess EXCEPT ![r] = None]
  /\ tier' = [tier EXCEPT ![r] = None]
  /\ UNCHANGED <<ahead, queued>>

(* AdmissionController.release, in the finally block of the chat handler:  *)
(* the tier is the one recorded under the session, and if the session has  *)
(* no entry nothing is released.                                           *)
Release(r) ==
  /\ stage[r] = "admitted"
  /\ LET t    == held[sess[r]]
         done == [stage EXCEPT ![r] = "idle"]
     IN  \/ /\ t # None
            /\ SetAndWake(t, value[t] + 1, done)
         \/ /\ t = None
            /\ stage' = done
            /\ UNCHANGED value
  /\ held' = [held EXCEPT ![sess[r]] = None]
  /\ sess' = [sess EXCEPT ![r] = None]
  /\ tier' = [tier EXCEPT ![r] = None]
  /\ UNCHANGED <<ahead, queued>>

Gate(r) == \E s \in Sessions, t \in Tiers :
             \/ GateRefused(r, s, t)
             \/ GateQueueFull(r, s, t)
             \/ GateAtOnce(r, s, t)
             \/ GateWaits(r, s, t)

Resume(r) == ResumeGranted(r) \/ ResumeCancelled(r) \/ ResumeRevoked(r)

Next == \E r \in Requests : Gate(r) \/ TimerFires(r) \/ Resume(r) \/ Release(r)

Spec == Init /\ [][Next]_vars

(* The event loop runs every ready task, and every answer ends: the call   *)
(* to the backend returns, fails or times out.  Nothing is assumed about   *)
(* the timers of wait_for or about further requests.                       *)
Fairness == \A r \in Requests : WF_vars(Resume(r)) /\ WF_vars(Release(r))

FairSpec == Spec /\ Fairness
-----------------------------------------------------------------------------
(* Properties *)

(* No two turns of a session are inside gate() or at their backends        *)
(* together.                                                               *)
OnePerSession ==
  \A r, q \in Requests : sess[r] # None /\ sess[r] = sess[q] => r = q

(* The turns of a session that are at their backends together, if there    *)
(* are several, are at backends of one tier.                               *)
OneTierPerSession ==
  \A r, q \in Requests :
    stage[r] = "admitted" /\ stage[q] = "admitted" /\ sess[r] = sess[q]
      => tier[r] = tier[q]

(* The free slots of a tier, those on their way to a woken waiter and the  *)
(* requests admitted to it are together no more than the tier has.         *)
NoSlotInvented ==
  \A t \in Tiers : value[t] + Cardinality(At(t, Holding)) <= Capacity[t]

(* Turns of one session may overlap, and slots be lost that way, but as    *)
(* long as no session has turns admitted at two tiers together, no tier    *)
(* ever has more free slots and users than it was given.  Without that     *)
(* condition release() gives a slot of one tier back in the name of a user *)
(* of the other, and the tier takes too many.                              *)
TiersKeepTheirSlots == []OneTierPerSession => []NoSlotInvented

(* No slot is lost: at every moment each slot of a tier is free, on its    *)
(* way to a woken waiter, or used by an admitted request of that tier.     *)
(* Holds when the turns of a session do not overlap.                       *)
SlotsConserved ==
  \A t \in Tiers : value[t] + Cardinality(At(t, Holding)) = Capacity[t]

(* _queued is the number of callers inside acquire() and never exceeds     *)
(* max_queue_size, on every path out: admission, timeout, late timeout.    *)
QueueIsBounded ==
  \A t \in Tiers : /\ queued[t] = Cardinality(At(t, InDeque))
                   /\ queued[t] <= MaxQueue

(* No lost wake-up: if a slot is free while a caller waits, somebody who   *)
(* will pass it on has been woken and has yet to run.                      *)
NoLostWakeup ==
  \A t \in Tiers : value[t] > 0 /\ At(t, {"pending"}) # {}
                     => At(t, {"granted", "revoked"}) # {}

(* When no request is inside the gateway every slot is free again: each    *)
(* answer gave its slot back (admission/protocols.py:15).                  *)
IdleMeansAllFree ==
  (\A r \in Requests : stage[r] \in Out) => value = Capacity

(* Admission is first come, first served: a newcomer is not admitted past  *)
(* a caller of its tier who waits, woken or not, and of those who wait     *)
(* nobody is admitted past one who came earlier and has no slot yet.       *)
NoOvertaking ==
  [][\A r, q \in Requests :
       /\ stage[r] # "admitted" /\ stage'[r] = "admitted"
       /\ stage[q] \in {"pending", "granted"} /\ tier[q] = tier'[r]
       => /\ stage[r] = "granted"
          /\ stage[q] = "pending" => q \notin ahead[r]]_vars

(* Every caller that waits gets a slot or times out, although no timer     *)
(* need ever fire.                                                         *)
NoStarvation ==
  \A r \in Requests : stage[r] = "pending" ~> stage[r] # "pending"

(* The admission layer implements a pool of slots per tier. *)
Pool == INSTANCE SlotPool WITH holders <- [t \in Tiers |-> At(t, Holding)]
ImplementsPool == Pool!Spec
=============================================================================
