------------------------------ MODULE SlotPool ------------------------------
(***************************************************************************)
(* What the admission layer promises, without queues, futures or timers:   *)
(* every tier has Capacity[t] concurrency slots, a request holds at most   *)
(* one slot, a slot is given out only while one is free, and a slot that   *)
(* is given back is free again (or goes straight to another request).      *)
(* Admission.tla is shown to implement this.                               *)
(***************************************************************************)
EXTENDS Integers, FiniteSets

CONSTANTS Requests,  \* requests that may ask for a slot
          Tiers,     \* the two model tiers, "big" and "small"
          Capacity   \* Capacity[t]: slots of tier t

VARIABLE holders     \* holders[t]: the requests that hold a slot of tier t

TypeOK == holders \in [Tiers -> SUBSET Requests]

Init == holders = [t \in Tiers |-> {}]

HoldsNone(r) == \A t \in Tiers : r \notin holders[t]

(* r is given a free slot of tier t. *)
Acquire(t, r) ==
  /\ HoldsNone(r)
  /\ Cardinality(holders[t]) < Capacity[t]
  /\ holders' = [holders EXCEPT ![t] = @ \cup {r}]

(* r gives its slot of tier t back. *)
Release(t, r) ==
  /\ r \in holders[t]
  /\ holders' = [holders EXCEPT ![t] = @ \ {r}]

(* r gives its slot of tier t back and w gets it in the same step. *)
HandOver(t, r, w) ==
  /\ r \in holders[t]
  /\ HoldsNone(w)
  /\ holders' = [holders EXCEPT ![t] = (@ \ {r}) \cup {w}]

Next == \E t \in Tiers, r \in Requests :
          \/ Acquire(t, r)
          \/ Release(t, r)
          \/ \E w \in Requests : HandOver(t, r, w)

Spec == Init /\ [][Next]_holders

(* No tier ever runs more requests than it has slots. *)
WithinCapacity == \A t \in Tiers : Cardinality(holders[t]) <= Capacity[t]
=============================================================================
