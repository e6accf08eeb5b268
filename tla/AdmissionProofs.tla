-------------------------- MODULE AdmissionProofs --------------------------
(***************************************************************************)
(* Theorems about Admission for every set of requests, sessions and tiers, *)
(* every capacity and every max_queue_size.                                *)
(***************************************************************************)
EXTENDS Admission, FiniteSetTheorems, TLAPS

(* A request has a session and a tier exactly while the gateway serves it. *)
Placed ==
  \A r \in Requests :
    /\ stage[r] \in Out  => sess[r] = None /\ tier[r] = None
    /\ stage[r] \notin Out => sess[r] \in Sessions /\ tier[r] \in Tiers

(* The inductive invariant for types and for the queue counter: _queued    *)
(* can be decremented only because it counts the tasks inside acquire().   *)
QueueInv == TypeOK /\ Placed /\ QueueIsBounded

-----------------------------------------------------------------------------
(* Any selection of requests is finite. *)
LEMMA AtFinite ==
  ASSUME NEW t, NEW S
  PROVE  /\ IsFiniteSet(At(t, S))
         /\ Cardinality(At(t, S)) \in Nat
<1>1. At(t, S) \in SUBSET Requests
  BY DEF At
<1>2. IsFiniteSet(At(t, S))
  BY <1>1, FS_Subset, AdmissionAssumption DEF AdmissionAssumption
<1> QED
  BY <1>2, FS_CardinalityType

(* What SetAndWake does when the task of r moves to stage x: either a      *)
(* pending waiter w of the tier gets the slot, or nobody waits (or nothing *)
(* is free) and the counter keeps it.                                      *)
LEMMA WakeEffect ==
  ASSUME TypeOK, NEW r \in Requests, stage[r] # "pending", NEW x \in Stages,
         NEW t \in Tiers, NEW v \in Nat,
         SetAndWake(t, v, [stage EXCEPT ![r] = x])
  PROVE  /\ \/ /\ v > 0
               /\ \E w \in Requests \ {r} :
                    /\ IsNext(w, t)
                    /\ stage[w] = "pending" /\ tier[w] = t
                    /\ stage'[w] = "granted"
                    /\ \A q \in Requests \ {r, w} : stage'[q] = stage[q]
               /\ value'[t] = v - 1
            \/ /\ v = 0 \/ At(t, {"pending"}) = {}
               /\ \A q \in Requests \ {r} : stage'[q] = stage[q]
               /\ value'[t] = v
         /\ stage'[r] = x
         /\ \A u \in Tiers \ {t} : value'[u] = value[u]
         /\ stage' \in [Requests -> Stages]
         /\ value' \in [Tiers -> Nat]
<1>1. CASE v > 0 /\ \E w \in Requests :
                       /\ IsNext(w, t)
                       /\ value' = [value EXCEPT ![t] = v - 1]
                       /\ stage' = [[stage EXCEPT ![r] = x] EXCEPT ![w] = "granted"]
  <2>1. PICK w \in Requests :
               /\ IsNext(w, t)
               /\ value' = [value EXCEPT ![t] = v - 1]
               /\ stage' = [[stage EXCEPT ![r] = x] EXCEPT ![w] = "granted"]
    BY <1>1
  <2>2. stage[w] = "pending" /\ tier[w] = t /\ w # r
    BY <2>1 DEF IsNext, At
  <2>3. /\ stage'[w] = "granted"
        /\ stage'[r] = x
        /\ \A q \in Requests \ {r, w} : stage'[q] = stage[q]
        /\ stage' \in [Requests -> Stages]
    BY <2>1, <2>2 DEF TypeOK, Stages, InDeque
  <2>4. /\ value'[t] = v - 1
        /\ \A u \in Tiers \ {t} : value'[u] = value[u]
        /\ value' \in [Tiers -> Nat]
    BY <1>1, <2>1 DEF TypeOK
  <2> QED
    BY <1>1, <2>1, <2>2, <2>3, <2>4
<1>2. CASE /\ v = 0 \/ At(t, {"pending"}) = {}
           /\ value' = [value EXCEPT ![t] = v]
           /\ stage' = [stage EXCEPT ![r] = x]
  BY <1>2 DEF TypeOK
<1> QED
  BY <1>1, <1>2 DEF SetAndWake

(* What a resumed waiter does to the semaphore, in each of its stages. *)
LEMMA ResumeEffect ==
  ASSUME TypeOK, Placed, NEW r \in Requests, Resume(r)
  PROVE  /\ tier[r] \in Tiers
         /\ \/ /\ stage[r] = "granted" /\ stage'[r] = "admitted"
            \/ /\ stage[r] \in {"cancelled", "revoked"} /\ stage'[r] = "refused"
         /\ \A q \in Requests \ {r} :
              \/ stage'[q] = stage[q]
              \/ stage[q] = "pending" /\ stage'[q] = "granted" /\ IsNext(q, tier[q])
         /\ stage' \in [Requests -> Stages]
         /\ value' \in [Tiers -> Nat]
<1>0. tier[r] \in Tiers /\ stage[r] # "pending"
  BY DEF Resume, ResumeGranted, ResumeCancelled, ResumeRevoked, Placed, Out
<1>1. CASE ResumeGranted(r)
  <2>1. value[tier[r]] \in Nat /\ "admitted" \in Stages
    BY <1>0 DEF TypeOK, Stages
  <2>2. SetAndWake(tier[r], value[tier[r]], [stage EXCEPT ![r] = "admitted"])
    BY <1>1 DEF ResumeGranted
  <2>3. stage[r] = "granted"
    BY <1>1 DEF ResumeGranted
  <2> QED
    BY <1>0, <2>1, <2>2, <2>3, WakeEffect
<1>2. CASE ResumeCancelled(r)
  BY <1>0, <1>2 DEF ResumeCancelled, TypeOK, Stages, Out
<1>3. CASE ResumeRevoked(r)
  <2>1. value[tier[r]] + 1 \in Nat /\ "refused" \in Stages
    BY <1>0 DEF TypeOK, Stages, Out
  <2>2. SetAndWake(tier[r], value[tier[r]] + 1, [stage EXCEPT ![r] = "refused"])
    BY <1>3 DEF ResumeRevoked
  <2>3. stage[r] = "revoked"
    BY <1>3 DEF ResumeRevoked
  <2> QED
    BY <1>0, <2>1, <2>2, <2>3, WakeEffect
<1> QED
  BY <1>1, <1>2, <1>3 DEF Resume

(* What release() does: the slot of the tier recorded under the session    *)
(* goes back; without a record nothing does.                               *)
LEMMA ReleaseEffect ==
  ASSUME TypeOK, Placed, NEW r \in Requests, Release(r)
  PROVE  /\ sess[r] \in Sessions /\ tier[r] \in Tiers
         /\ stage[r] = "admitted" /\ stage'[r] = "idle"
         /\ \A q \in Requests \ {r} :
              \/ stage'[q] = stage[q]
              \/ stage[q] = "pending" /\ stage'[q] = "granted" /\ IsNext(q, tier[q])
         /\ stage' \in [Requests -> Stages]
         /\ value' \in [Tiers -> Nat]
<1>0. sess[r] \in Sessions /\ tier[r] \in Tiers /\ stage[r] = "admitted"
  BY DEF Release, Placed, Out
<1>1. CASE held[sess[r]] # None
  <2>1. held[sess[r]] \in Tiers
    BY <1>0, <1>1 DEF TypeOK
  <2>2. value[held[sess[r]]] + 1 \in Nat /\ "idle" \in Stages
    BY <2>1 DEF TypeOK, Stages, Out
  <2>3. SetAndWake(held[sess[r]], value[held[sess[r]]] + 1, [stage EXCEPT ![r] = "idle"])
    BY <1>1 DEF Release
  <2> QED
    BY <1>0, <2>1, <2>2, <2>3, WakeEffect
<1>2. CASE held[sess[r]] = None
  BY <1>0, <1>2 DEF Release, TypeOK, Stages, Out
<1> QED
  BY <1>1, <1>2

THEOREM QueueInvInit == Init => QueueInv
<1> SUFFICES ASSUME Init PROVE QueueInv
  OBVIOUS
<1> USE AdmissionAssumption DEF AdmissionAssumption
<1>1. TypeOK
  BY DEF Init, TypeOK, Stages, Out, InDeque
<1>2. Placed
  BY DEF Init, Placed, Out
<1>3. ASSUME NEW t \in Tiers PROVE Cardinality(At(t, InDeque)) = 0 /\ queued[t] = 0
  <2>1. At(t, InDeque) = {}
    BY DEF Init, At, InDeque
  <2> QED
    BY <2>1, FS_EmptySet DEF Init
<1>4. QueueIsBounded
  BY <1>3 DEF QueueIsBounded
<1> QED
  BY <1>1, <1>2, <1>4 DEF QueueInv

(* Every step keeps types, placement and the queue counter. *)
LEMMA QueueInvStep == QueueInv /\ [Next]_vars => QueueInv'
<1> SUFFICES ASSUME QueueInv, [Next]_vars PROVE QueueInv'
  OBVIOUS
<1> USE AdmissionAssumption DEF AdmissionAssumption
<1>0. TypeOK /\ Placed /\ QueueIsBounded
  BY DEF QueueInv
<1>1. ASSUME NEW r \in Requests, NEW s \in Sessions, NEW t \in Tiers,
             GateRefused(r, s, t) \/ GateQueueFull(r, s, t)
      PROVE  QueueInv'
  <2>1. TypeOK'
    BY <1>0, <1>1 DEF GateRefused, GateQueueFull, TypeOK, Stages, Out
  <2>2. Placed'
    BY <1>0, <1>1 DEF GateRefused, GateQueueFull, Called, TypeOK, Placed, Out
  <2>3. \A u \in Tiers : At(u, InDeque)' = At(u, InDeque)
    BY <1>0, <1>1 DEF GateRefused, GateQueueFull, Called, At, InDeque, Out, TypeOK
  <2>4. QueueIsBounded'
    BY <1>0, <1>1, <2>3 DEF GateRefused, GateQueueFull, QueueIsBounded
  <2> QED
    BY <2>1, <2>2, <2>4 DEF QueueInv
<1>2. ASSUME NEW r \in Requests, NEW s \in Sessions, NEW t \in Tiers,
             GateAtOnce(r, s, t)
      PROVE  QueueInv'
  <2>1. TypeOK'
    BY <1>0, <1>2 DEF GateAtOnce, Locked, TypeOK, Stages
  <2>2. Placed'
    BY <1>0, <1>2 DEF GateAtOnce, TypeOK, Placed, Out
  <2>3. \A u \in Tiers : At(u, InDeque)' = At(u, InDeque)
    BY <1>0, <1>2 DEF GateAtOnce, Called, At, InDeque, Out, TypeOK
  <2>4. QueueIsBounded'
    BY <1>0, <1>2, <2>3 DEF GateAtOnce, QueueIsBounded
  <2> QED
    BY <2>1, <2>2, <2>4 DEF QueueInv
<1>3. ASSUME NEW r \in Requests, NEW s \in Sessions, NEW t \in Tiers,
             GateWaits(r, s, t)
      PROVE  QueueInv'
  <2>1. TypeOK'
    BY <1>0, <1>3 DEF GateWaits, Enqueue, At, TypeOK, Stages, InDeque
  <2>2. Placed'
    BY <1>0, <1>3 DEF GateWaits, TypeOK, Placed, Out
  <2>3. \A u \in Tiers : At(u, InDeque)' =
                           IF u = t THEN At(u, InDeque) \cup {r} ELSE At(u, InDeque)
    BY <1>0, <1>3 DEF GateWaits, Called, At, InDeque, Out, TypeOK, Placed
  <2>4. r \notin At(t, InDeque)
    BY <1>3 DEF GateWaits, Called, At, InDeque, Out
  <2>5. Cardinality(At(t, InDeque) \cup {r}) = Cardinality(At(t, InDeque)) + 1
    BY <2>4, AtFinite, FS_AddElement
  <2>6. ASSUME NEW u \in Tiers
        PROVE  queued'[u] = Cardinality(At(u, InDeque)') /\ queued'[u] <= MaxQueue
    <3>1. CASE u = t
      <4>1. queued'[u] = queued[u] + 1 /\ queued[u] < MaxQueue /\ queued[u] \in Nat
        BY <1>0, <1>3, <3>1 DEF GateWaits, TypeOK
      <4>2. queued[u] = Cardinality(At(u, InDeque))
        BY <1>0 DEF QueueIsBounded
      <4>3. At(u, InDeque)' = At(u, InDeque) \cup {r}
        BY <2>3, <3>1
      <4> QED
        BY <4>1, <4>2, <4>3, <2>5, <3>1
    <3>2. CASE u # t
      BY <1>0, <1>3, <2>3, <3>2 DEF GateWaits, QueueIsBounded, TypeOK
    <3> QED
      BY <3>1, <3>2
  <2>7. QueueIsBounded'
    BY <2>6 DEF QueueIsBounded
  <2> QED
    BY <2>1, <2>2, <2>7 DEF QueueInv
<1>4. ASSUME NEW r \in Requests, TimerFires(r)
      PROVE  QueueInv'
  <2>1. TypeOK'
    BY <1>0, <1>4 DEF TimerFires, TypeOK, Stages, InDeque
  <2>2. Placed'
    BY <1>0, <1>4 DEF TimerFires, TypeOK, Placed, Out
  <2>3. \A u \in Tiers : At(u, InDeque)' = At(u, InDeque)
    BY <1>0, <1>4 DEF TimerFires, At, InDeque, TypeOK
  <2>4. QueueIsBounded'
    BY <1>0, <1>4, <2>3 DEF TimerFires, QueueIsBounded
  <2> QED
    BY <2>1, <2>2, <2>4 DEF QueueInv
<1>5. ASSUME NEW r \in Requests, Resume(r)
      PROVE  QueueInv'
  <2>1. /\ stage[r] \in InDeque /\ tier[r] \in Tiers
        /\ ahead' = [q \in Requests |-> IF q = r THEN {} ELSE ahead[q] \ {r}]
        /\ queued' = [queued EXCEPT ![tier[r]] = @ - 1]
    BY <1>0, <1>5 DEF Resume, ResumeGranted, ResumeCancelled, ResumeRevoked, Refuse,
                      LeaveQueue, Dequeue, Placed, InDeque, Out
  <2>2. /\ \A q \in Requests \ {r} :
             \/ stage'[q] = stage[q]
             \/ stage[q] = "pending" /\ stage'[q] = "granted"
        /\ stage' \in [Requests -> Stages]
        /\ value' \in [Tiers -> Nat]
    BY <1>0, <1>5, ResumeEffect
  <2>3. /\ \/ /\ stage'[r] = "admitted" /\ sess' = sess /\ tier' = tier
           \/ /\ stage'[r] = "refused"
              /\ sess' = [sess EXCEPT ![r] = None]
              /\ tier' = [tier EXCEPT ![r] = None]
        /\ held' \in [Sessions -> Tiers \cup {None}]
    <3>1. CASE ResumeGranted(r)
      <4>1. stage'[r] = "admitted"
        BY <1>0, <1>5, <3>1, ResumeEffect DEF ResumeGranted
      <4> QED
        BY <1>0, <2>1, <3>1, <4>1 DEF ResumeGranted, TypeOK
    <3>2. CASE ResumeCancelled(r) \/ ResumeRevoked(r)
      <4>1. stage'[r] = "refused"
        BY <1>0, <1>5, <3>2, ResumeEffect DEF ResumeCancelled, ResumeRevoked
      <4> QED
        BY <1>0, <3>2, <4>1 DEF ResumeCancelled, ResumeRevoked, Refuse, TypeOK
    <3> QED
      BY <1>5, <3>1, <3>2 DEF Resume
  <2>4. \A u \in Tiers : At(u, InDeque)' =
                           IF u = tier[r] THEN At(u, InDeque) \ {r} ELSE At(u, InDeque)
    BY <1>0, <2>1, <2>2, <2>3 DEF At, InDeque, TypeOK
  <2>5. r \in At(tier[r], InDeque)
    BY <2>1 DEF At
  <2>6. /\ Cardinality(At(tier[r], InDeque) \ {r}) = Cardinality(At(tier[r], InDeque)) - 1
        /\ Cardinality(At(tier[r], InDeque) \ {r}) \in Nat
    BY <2>5, AtFinite, FS_RemoveElement, FS_CardinalityType
  <2>7. ASSUME NEW u \in Tiers
        PROVE  /\ queued'[u] = Cardinality(At(u, InDeque)')
               /\ queued'[u] <= MaxQueue
               /\ queued'[u] \in Nat
    <3>0. queued[u] = Cardinality(At(u, InDeque)) /\ queued[u] <= MaxQueue /\ queued[u] \in Nat
      BY <1>0 DEF QueueIsBounded, TypeOK
    <3>1. CASE u = tier[r]
      <4>1. queued'[u] = queued[u] - 1
        BY <1>0, <2>1, <3>1 DEF TypeOK
      <4>2. At(u, InDeque)' = At(tier[r], InDeque) \ {r}
        BY <2>4, <3>1
      <4> QED
        BY <2>6, <3>0, <3>1, <4>1, <4>2
    <3>2. CASE u # tier[r]
      BY <1>0, <2>1, <2>4, <3>0, <3>2 DEF TypeOK
    <3> QED
      BY <3>1, <3>2
  <2>8. TypeOK'
    <3>1. queued' \in [Tiers -> Nat]
      BY <1>0, <2>1, <2>7 DEF TypeOK
    <3>2. ahead' \in [Requests -> SUBSET Requests]
      BY <1>0, <2>1 DEF TypeOK
    <3> QED
      BY <1>0, <2>2, <2>3, <3>1, <3>2 DEF TypeOK
  <2>9. Placed'
    BY <1>0, <2>1, <2>2, <2>3 DEF TypeOK, Placed, Out, InDeque
  <2>10. QueueIsBounded'
    BY <2>7 DEF QueueIsBounded
  <2> QED
    BY <2>8, <2>9, <2>10 DEF QueueInv
<1>6. ASSUME NEW r \in Requests, Release(r)
      PROVE  QueueInv'
  <2>1. TypeOK'
    BY <1>0, <1>6, ReleaseEffect DEF Release, TypeOK
  <2>2. Placed'
    BY <1>0, <1>6, ReleaseEffect DEF Release, TypeOK, Placed, Out
  <2>3. \A u \in Tiers : At(u, InDeque)' = At(u, InDeque)
    BY <1>0, <1>6, ReleaseEffect DEF Release, TypeOK, At, InDeque
  <2>4. QueueIsBounded'
    BY <1>0, <1>6, <2>3 DEF Release, QueueIsBounded
  <2> QED
    BY <2>1, <2>2, <2>4 DEF QueueInv
<1>7. CASE UNCHANGED vars
  BY <1>0, <1>7 DEF vars, QueueInv, TypeOK, Placed, QueueIsBounded, At
<1> QED
  BY <1>1, <1>2, <1>3, <1>4, <1>5, <1>6, <1>7 DEF Next, Gate

(* Types are kept, and _queued counts exactly the callers inside acquire() *)
(* and stays within max_queue_size.                                        *)
THEOREM TypeCorrect == Spec => []TypeOK
BY QueueInvInit, QueueInvStep, PTL DEF Spec, QueueInv

THEOREM QueueBoundHolds == Spec => []QueueIsBounded
BY QueueInvInit, QueueInvStep, PTL DEF Spec, QueueInv

-----------------------------------------------------------------------------
(* The order of the waiters.  ahead[r] is the part of _waiters in front of *)
(* r: it holds callers of the tier of r that are still inside acquire(),   *)
(* and orders them strictly and totally.                                   *)
AheadWaits ==
  \A r \in Requests : \A q \in ahead[r] :
    stage[r] \in InDeque /\ stage[q] \in InDeque /\ tier[q] = tier[r]

AheadIsOrder ==
  \A r \in Requests : r \notin ahead[r] /\ \A q \in ahead[r] : ahead[q] \subseteq ahead[r]

AheadIsTotal ==
  \A t \in Tiers : \A r, q \in At(t, InDeque) : r = q \/ q \in ahead[r] \/ r \in ahead[q]

(* Nobody who was woken has left a pending caller in front of it. *)
WokenInTurn ==
  \A r \in Requests : stage[r] \in {"granted", "revoked"} =>
    \A q \in ahead[r] : stage[q] # "pending"

(* The inductive invariant for the order of service. *)
OrderInv == QueueInv /\ AheadWaits /\ AheadIsOrder /\ AheadIsTotal /\ WokenInTurn

(* The ways a step may change the line: nobody comes or goes, r joins at   *)
(* the end of the line of its tier, or r leaves from anywhere in it.       *)
Stays(q) == /\ stage'[q] \in InDeque <=> stage[q] \in InDeque
            /\ stage[q] \in InDeque => tier'[q] = tier[q]

Joins(r) == /\ stage[r] \notin InDeque
            /\ stage'[r] = "pending" /\ tier'[r] \in Tiers
            /\ ahead'[r] = At(tier'[r], InDeque)
            /\ \A q \in Requests \ {r} : Stays(q) /\ ahead'[q] = ahead[q]

Leaves(r) == /\ stage'[r] \notin InDeque
             /\ ahead'[r] = {}
             /\ \A q \in Requests \ {r} : Stays(q) /\ ahead'[q] = ahead[q] \ {r}

(* A woken caller was the next one in its line; who is pending was so      *)
(* before, or has just come.                                               *)
WakesInTurn ==
  \A q \in Requests :
    /\ stage'[q] = "pending" => stage[q] = "pending" \/ stage[q] \notin InDeque
    /\ stage'[q] \in {"granted", "revoked"} =>
         stage[q] \in {"granted", "revoked"} \/ IsNext(q, tier[q])

LEMMA LineMoves ==
  ASSUME QueueInv, Next
  PROVE  /\ WakesInTurn
         /\ \/ ahead' = ahead /\ \A q \in Requests : Stays(q)
            \/ \E r \in Requests : Joins(r) \/ Leaves(r)
<1>0. TypeOK /\ Placed
  BY DEF QueueInv
<1>1. ASSUME NEW r \in Requests, NEW s \in Sessions, NEW t \in Tiers,
             GateRefused(r, s, t) \/ GateQueueFull(r, s, t) \/ GateAtOnce(r, s, t)
      PROVE  WakesInTurn /\ ahead' = ahead /\ \A q \in Requests : Stays(q)
  BY <1>0, <1>1 DEF GateRefused, GateQueueFull, GateAtOnce, Called, WakesInTurn, Stays,
                    TypeOK, Out, InDeque
<1>2. ASSUME NEW r \in Requests, NEW s \in Sessions, NEW t \in Tiers,
             GateWaits(r, s, t)
      PROVE  WakesInTurn /\ Joins(r)
  <2>1. /\ stage[r] \notin InDeque
        /\ stage' = [stage EXCEPT ![r] = "pending"]
        /\ tier' = [tier EXCEPT ![r] = t]
        /\ ahead' = [ahead EXCEPT ![r] = At(t, InDeque)]
    BY <1>2 DEF GateWaits, Called, Enqueue, Out, InDeque
  <2>2. WakesInTurn
    BY <1>0, <2>1 DEF WakesInTurn, TypeOK
  <2> QED
    BY <1>0, <2>1, <2>2 DEF Joins, Stays, TypeOK
<1>3. ASSUME NEW r \in Requests, TimerFires(r)
      PROVE  WakesInTurn /\ ahead' = ahead /\ \A q \in Requests : Stays(q)
  BY <1>0, <1>3 DEF TimerFires, WakesInTurn, Stays, TypeOK, InDeque
<1>4. ASSUME NEW r \in Requests, Resume(r)
      PROVE  WakesInTurn /\ Leaves(r)
  <2>1. /\ stage'[r] \in {"admitted", "refused"}
        /\ \A q \in Requests \ {r} :
             \/ stage'[q] = stage[q]
             \/ stage[q] = "pending" /\ stage'[q] = "granted" /\ IsNext(q, tier[q])
    BY <1>0, <1>4, ResumeEffect
  <2>2. /\ ahead' = [q \in Requests |-> IF q = r THEN {} ELSE ahead[q] \ {r}]
        /\ tier' = tier \/ tier' = [tier EXCEPT ![r] = None]
    BY <1>4 DEF Resume, ResumeGranted, ResumeCancelled, ResumeRevoked, Refuse,
                LeaveQueue, Dequeue
  <2>3. WakesInTurn
    BY <2>1 DEF WakesInTurn
  <2> QED
    BY <1>0, <2>1, <2>2, <2>3 DEF Leaves, Stays, TypeOK, InDeque
<1>5. ASSUME NEW r \in Requests, Release(r)
      PROVE  WakesInTurn /\ ahead' = ahead /\ \A q \in Requests : Stays(q)
  <2>1. /\ stage[r] = "admitted" /\ stage'[r] = "idle"
        /\ \A q \in Requests \ {r} :
             \/ stage'[q] = stage[q]
             \/ stage[q] = "pending" /\ stage'[q] = "granted" /\ IsNext(q, tier[q])
    BY <1>0, <1>5, ReleaseEffect
  <2>2. ahead' = ahead /\ tier' = [tier EXCEPT ![r] = None]
    BY <1>5 DEF Release
  <2>3. WakesInTurn
    BY <2>1 DEF WakesInTurn
  <2> QED
    BY <1>0, <2>1, <2>2, <2>3 DEF Stays, TypeOK, InDeque
<1> QED
  BY <1>1, <1>2, <1>3, <1>4, <1>5 DEF Next, Gate

LEMMA OrderInvInit == Init => OrderInv
<1> SUFFICES ASSUME Init PROVE OrderInv
  OBVIOUS
<1>1. QueueInv
  BY QueueInvInit
<1>2. \A r \in Requests : stage[r] = "idle" /\ ahead[r] = {}
  BY DEF Init
<1> QED
  BY <1>1, <1>2 DEF OrderInv, AheadWaits, AheadIsOrder, AheadIsTotal, WokenInTurn,
                    At, InDeque

(* A caller that joins stands behind everyone of its tier and is in front  *)
(* of nobody.                                                              *)
LEMMA JoinKeepsOrder ==
  ASSUME OrderInv, WakesInTurn, NEW r \in Requests, Joins(r)
  PROVE  AheadWaits' /\ AheadIsOrder' /\ AheadIsTotal' /\ WokenInTurn'
<1>0. /\ TypeOK /\ AheadWaits /\ AheadIsOrder /\ AheadIsTotal /\ WokenInTurn
      /\ stage[r] \notin InDeque /\ stage'[r] \in InDeque /\ tier'[r] \in Tiers
  BY DEF OrderInv, QueueInv, Joins, InDeque
<1>1. \A q \in Requests : r \notin ahead[q]
  BY <1>0 DEF AheadWaits
<1>2. \A q \in At(tier'[r], InDeque) : q \in Requests \ {r} /\ stage'[q] \in InDeque /\ tier'[q] = tier'[r]
  BY <1>0 DEF Joins, Stays, At
<1>3. \A q \in Requests \ {r} : ahead'[q] = ahead[q] /\ Stays(q)
  BY DEF Joins
<1>4. ahead'[r] = At(tier'[r], InDeque)
  BY DEF Joins
<1>5. AheadWaits'
  <2> SUFFICES ASSUME NEW p \in Requests, NEW q \in ahead'[p]
               PROVE  stage'[p] \in InDeque /\ stage'[q] \in InDeque /\ tier'[q] = tier'[p]
    BY DEF AheadWaits
  <2>1. CASE p = r
    BY <1>0, <1>2, <1>4, <2>1
  <2>2. CASE p # r
    <3>1. /\ q \in ahead[p] /\ q \in Requests \ {r}
          /\ stage[p] \in InDeque /\ stage[q] \in InDeque /\ tier[q] = tier[p]
      BY <1>0, <1>1, <1>3, <2>2 DEF AheadWaits, TypeOK
    <3> QED
      BY <1>3, <2>2, <3>1 DEF Stays
  <2> QED
    BY <2>1, <2>2
<1>6. AheadIsOrder'
  <2> SUFFICES ASSUME NEW p \in Requests
               PROVE  p \notin ahead'[p] /\ \A q \in ahead'[p] : ahead'[q] \subseteq ahead'[p]
    BY DEF AheadIsOrder
  <2>1. CASE p = r
    <3>1. r \notin ahead'[r]
      BY <1>2, <1>4
    <3>2. ASSUME NEW q \in ahead'[r], NEW x \in ahead'[q]
          PROVE  x \in ahead'[r]
      <4>1. q \in At(tier'[r], InDeque) /\ q \in Requests \ {r} /\ x \in ahead[q]
        BY <1>2, <1>3, <1>4, <3>2
      <4>2. x \in Requests /\ stage[x] \in InDeque /\ tier[x] = tier'[r]
        BY <1>0, <4>1 DEF AheadWaits, TypeOK, At
      <4> QED
        BY <1>4, <4>2 DEF At
    <3> QED
      BY <2>1, <3>1, <3>2
  <2>2. CASE p # r
    BY <1>0, <1>1, <1>3, <2>2 DEF AheadIsOrder, TypeOK
  <2> QED
    BY <2>1, <2>2
<1>7. AheadIsTotal'
  <2> SUFFICES ASSUME NEW t \in Tiers, NEW p \in At(t, InDeque)', NEW q \in At(t, InDeque)'
               PROVE  p = q \/ q \in ahead'[p] \/ p \in ahead'[q]
    BY DEF AheadIsTotal
  <2>1. /\ p \in Requests /\ stage'[p] \in InDeque /\ tier'[p] = t
        /\ q \in Requests /\ stage'[q] \in InDeque /\ tier'[q] = t
    BY DEF At
  <2>2. \A x \in Requests \ {r} :
           stage'[x] \in InDeque /\ tier'[x] = t => x \in At(t, InDeque)
    BY <1>3 DEF Stays, At
  <2> QED
    BY <1>0, <1>3, <1>4, <2>1, <2>2 DEF AheadIsTotal
<1>8. WokenInTurn'
  <2> SUFFICES ASSUME NEW p \in Requests, stage'[p] \in {"granted", "revoked"},
                      NEW q \in ahead'[p]
               PROVE  stage'[q] # "pending"
    BY DEF WokenInTurn
  <2>1. p # r
    BY DEF Joins
  <2>2. q \in ahead[p] /\ q \in Requests \ {r} /\ stage[q] \in InDeque /\ tier[q] = tier[p]
    BY <1>0, <1>1, <1>3, <2>1 DEF TypeOK, AheadWaits
  <2>3. stage[q] # "pending"
    BY <1>0, <2>2 DEF WakesInTurn, WokenInTurn, IsNext, At
  <2> QED
    BY <2>2, <2>3 DEF WakesInTurn
<1> QED
  BY <1>5, <1>6, <1>7, <1>8

(* Who leaves is taken out of every line, and the rest keeps its order. *)
LEMMA LeaveKeepsOrder ==
  ASSUME OrderInv, WakesInTurn, NEW r \in Requests, Leaves(r)
  PROVE  AheadWaits' /\ AheadIsOrder' /\ AheadIsTotal' /\ WokenInTurn'
<1>0. TypeOK /\ AheadWaits /\ AheadIsOrder /\ AheadIsTotal /\ WokenInTurn
  BY DEF OrderInv, QueueInv
<1>1. /\ stage'[r] \notin InDeque /\ ahead'[r] = {}
      /\ \A q \in Requests \ {r} : Stays(q) /\ ahead'[q] = ahead[q] \ {r}
  BY DEF Leaves
<1>2. ASSUME NEW p \in Requests, NEW q \in ahead'[p]
      PROVE  p \in Requests \ {r} /\ q \in Requests \ {r} /\ q \in ahead[p]
  BY <1>0, <1>1 DEF TypeOK
<1>3. AheadWaits'
  BY <1>0, <1>1, <1>2 DEF AheadWaits, Stays
<1>4. AheadIsOrder'
  <2> SUFFICES ASSUME NEW p \in Requests
               PROVE  p \notin ahead'[p] /\ \A q \in ahead'[p] : ahead'[q] \subseteq ahead'[p]
    BY DEF AheadIsOrder
  <2> QED
    BY <1>0, <1>1, <1>2 DEF AheadIsOrder
<1>5. AheadIsTotal'
  <2> SUFFICES ASSUME NEW t \in Tiers, NEW p \in At(t, InDeque)', NEW q \in At(t, InDeque)'
               PROVE  p = q \/ q \in ahead'[p] \/ p \in ahead'[q]
    BY DEF AheadIsTotal
  <2>1. /\ p \in Requests \ {r} /\ p \in At(t, InDeque)
        /\ q \in Requests \ {r} /\ q \in At(t, InDeque)
    BY <1>1 DEF At, Stays
  <2> QED
    BY <1>0, <1>1, <2>1 DEF AheadIsTotal
<1>6. WokenInTurn'
  <2> SUFFICES ASSUME NEW p \in Requests, stage'[p] \in {"granted", "revoked"},
                      NEW q \in ahead'[p]
               PROVE  stage'[q] # "pending"
    BY DEF WokenInTurn
  <2>1. q \in ahead[p] /\ q \in Requests /\ stage[q] \in InDeque /\ tier[q] = tier[p]
    BY <1>0, <1>2 DEF AheadWaits
  <2>2. stage[q] # "pending"
    BY <1>0, <2>1 DEF WakesInTurn, WokenInTurn, IsNext, At
  <2> QED
    BY <2>1, <2>2 DEF WakesInTurn
<1> QED
  BY <1>3, <1>4, <1>5, <1>6

LEMMA OrderInvStep == OrderInv /\ [Next]_vars => OrderInv'
<1> SUFFICES ASSUME OrderInv, [Next]_vars PROVE OrderInv'
  OBVIOUS
<1>0. /\ QueueInv /\ TypeOK /\ QueueInv'
      /\ AheadWaits /\ AheadIsOrder /\ AheadIsTotal /\ WokenInTurn
  BY QueueInvStep DEF OrderInv, QueueInv
<1>1. CASE Next
  <2>1. /\ WakesInTurn
        /\ \/ ahead' = ahead /\ \A q \in Requests : Stays(q)
           \/ \E r \in Requests : Joins(r) \/ Leaves(r)
    BY <1>0, <1>1, LineMoves
  <2>2. CASE ahead' = ahead /\ \A q \in Requests : Stays(q)
    <3>1. AheadWaits'
      BY <1>0, <2>2 DEF AheadWaits, Stays, TypeOK
    <3>2. AheadIsOrder'
      BY <1>0, <2>2 DEF AheadIsOrder
    <3>3. AheadIsTotal'
      BY <1>0, <2>2 DEF AheadIsTotal, Stays, At
    <3>4. WokenInTurn'
      <4> SUFFICES ASSUME NEW p \in Requests, stage'[p] \in {"granted", "revoked"},
                          NEW q \in ahead[p]
                   PROVE  stage'[q] # "pending"
        BY <2>2 DEF WokenInTurn
      <4>1. q \in Requests /\ stage[q] \in InDeque /\ tier[q] = tier[p]
        BY <1>0 DEF AheadWaits, TypeOK
      <4>2. stage[q] # "pending"
        BY <1>0, <2>1, <4>1 DEF WakesInTurn, WokenInTurn, IsNext, At
      <4> QED
        BY <2>1, <4>1, <4>2 DEF WakesInTurn
    <3> QED
      BY <1>0, <3>1, <3>2, <3>3, <3>4 DEF OrderInv
  <2> QED
    BY <1>0, <2>1, <2>2, JoinKeepsOrder, LeaveKeepsOrder DEF OrderInv
<1>2. CASE UNCHANGED vars
  BY <1>0, <1>2 DEF vars, OrderInv, AheadWaits, AheadIsOrder, AheadIsTotal, WokenInTurn, At
<1> QED
  BY <1>1, <1>2

(* While anybody of a tier is pending, _wake_up_next() finds exactly one   *)
(* caller to wake: the scan of _waiters never comes to nothing.            *)
OneIsNext ==
  \A t \in Tiers : At(t, {"pending"}) # {} =>
    \E w \in Requests : IsNext(w, t) /\ \A q \in Requests : IsNext(q, t) => q = w

LEMMA FirstInLine == OrderInv => OneIsNext
<1> SUFFICES ASSUME OrderInv, NEW t \in Tiers, At(t, {"pending"}) # {}
             PROVE  \E w \in Requests :
                      IsNext(w, t) /\ \A q \in Requests : IsNext(q, t) => q = w
  BY DEF OneIsNext
<1>0. AheadIsOrder /\ AheadIsTotal
  BY DEF OrderInv
<1> DEFINE Waiting  == At(t, {"pending"})
           Front(w) == ahead[w] \cap Waiting
           Fronts   == {Front(w) : w \in Waiting}
<1>1. IsFiniteSet(Waiting) /\ Waiting \subseteq Requests /\ Waiting \subseteq At(t, InDeque)
  BY AtFinite DEF At, InDeque
<1>2. IsWellFoundedOn(StrictSubsetOrdering(Waiting), SUBSET Waiting)
  BY <1>1, FS_StrictSubsetOrderingWellFounded, FS_FiniteSubsetsOfFinite
<1>3. Fronts \subseteq SUBSET Waiting /\ Fronts # {}
  OBVIOUS
<1>4. PICK F \in Fronts : \A G \in Fronts : ~(<<G, F>> \in StrictSubsetOrdering(Waiting))
  <2> HIDE DEF Fronts, Waiting
  <2> QED
    BY <1>2, <1>3, WFMin
<1>5. PICK w \in Waiting : F = Front(w)
  BY <1>4
<1>6. Front(w) = {}
  <2> SUFFICES ASSUME NEW q \in Front(w) PROVE FALSE
    OBVIOUS
  <2>1. q \in Waiting /\ q \in Requests /\ ahead[q] \subseteq ahead[w] /\ q \notin ahead[q]
    BY <1>0, <1>1 DEF AheadIsOrder
  <2>2. Front(q) \subseteq Front(w) /\ Front(q) # Front(w) /\ Front(q) \in Fronts
    BY <2>1
  <2>3. <<Front(q), Front(w)>> \in StrictSubsetOrdering(Waiting)
    BY <2>2 DEF StrictSubsetOrdering
  <2> QED
    BY <1>4, <1>5, <2>2, <2>3
<1>7. IsNext(w, t)
  BY <1>6 DEF IsNext
<1>8. ASSUME NEW q \in Requests, IsNext(q, t)
      PROVE  q = w
  <2>1. q \in Waiting /\ ahead[q] \cap Waiting = {}
    BY <1>8 DEF IsNext
  <2>2. q = w \/ w \in ahead[q] \/ q \in ahead[w]
    BY <1>0, <1>1, <2>1 DEF AheadIsTotal
  <2> QED
    BY <1>6, <2>1, <2>2
<1> QED
  BY <1>1, <1>7, <1>8

THEOREM WakeUpFindsTheFirst == Spec => []OneIsNext
BY OrderInvInit, OrderInvStep, FirstInLine, PTL DEF Spec

(* First come, first served: nobody is admitted past a caller of the same  *)
(* tier who waits and has no slot yet, for every number of callers and     *)
(* whatever timers fire.                                                   *)
THEOREM NobodyOvertakes == Spec => NoOvertaking
<1>1. ASSUME OrderInv, Next, NEW r \in Requests, NEW q \in Requests,
             stage[r] # "admitted", stage'[r] = "admitted",
             stage[q] \in {"pending", "granted"}, tier[q] = tier'[r]
      PROVE  stage[r] = "granted" /\ (stage[q] = "pending" => q \notin ahead[r])
  <2>0. QueueInv /\ TypeOK /\ Placed /\ WokenInTurn
    BY <1>1 DEF OrderInv, QueueInv
  <2>1. ASSUME NEW p \in Requests, NEW s \in Sessions, NEW t \in Tiers,
               GateRefused(p, s, t) \/ GateQueueFull(p, s, t) \/ GateWaits(p, s, t)
        PROVE  FALSE
    BY <1>1, <2>0, <2>1 DEF GateRefused, GateQueueFull, GateWaits, TypeOK
  <2>2. ASSUME NEW p \in Requests, NEW s \in Sessions, NEW t \in Tiers,
               GateAtOnce(p, s, t)
        PROVE  FALSE
    <3>1. p = r /\ tier'[r] = t
      BY <1>1, <2>0, <2>2 DEF GateAtOnce, TypeOK
    <3>2. q \in At(t, InDeque \ {"cancelled"})
      BY <1>1, <3>1 DEF At, InDeque
    <3> QED
      BY <2>2, <3>2 DEF GateAtOnce, Locked
  <2>3. ASSUME NEW p \in Requests, TimerFires(p) \/ Release(p)
        PROVE  FALSE
    <3>1. TimerFires(p) => FALSE
      BY <1>1, <2>0 DEF TimerFires, TypeOK
    <3>2. Release(p) => FALSE
      BY <1>1, <2>0, ReleaseEffect
    <3> QED
      BY <2>3, <3>1, <3>2
  <2>4. ASSUME NEW p \in Requests, Resume(p)
        PROVE  stage[r] = "granted"
    BY <1>1, <2>0, <2>4, ResumeEffect
  <2>5. stage[r] = "granted"
    BY <1>1, <2>1, <2>2, <2>3, <2>4 DEF Next, Gate
  <2> QED
    BY <2>0, <2>5 DEF WokenInTurn
<1>2. OrderInv /\ [Next]_vars =>
        [\A r, q \in Requests :
           /\ stage[r] # "admitted" /\ stage'[r] = "admitted"
           /\ stage[q] \in {"pending", "granted"} /\ tier[q] = tier'[r]
           => /\ stage[r] = "granted"
              /\ stage[q] = "pending" => q \notin ahead[r]]_vars
  BY <1>1
<1> QED
  BY <1>2, OrderInvInit, OrderInvStep, PTL DEF Spec, NoOvertaking

-----------------------------------------------------------------------------
(* No lost wake-up.  A step that frees a slot of tier t wakes somebody of  *)
(* that tier, or nobody there is pending.                                  *)
LEMMA WakeLosesNone ==
  ASSUME TypeOK, NEW r \in Requests, stage[r] # "pending",
         NEW x \in Out \cup {"admitted"}, NEW t \in Tiers, NEW v \in Nat,
         SetAndWake(t, v, [stage EXCEPT ![r] = x]),
         \A q \in Requests \ {r} : tier'[q] = tier[q],
         value'[t] > 0, At(t, {"pending"})' # {}
  PROVE  At(t, {"granted", "revoked"})' # {}
<1>0. x \in Stages /\ x # "pending"
  BY DEF Stages, Out
<1>1. /\ \/ /\ v > 0
            /\ \E w \in Requests \ {r} :
                 /\ IsNext(w, t)
                 /\ stage[w] = "pending" /\ tier[w] = t
                 /\ stage'[w] = "granted"
                 /\ \A q \in Requests \ {r, w} : stage'[q] = stage[q]
            /\ value'[t] = v - 1
         \/ /\ v = 0 \/ At(t, {"pending"}) = {}
            /\ \A q \in Requests \ {r} : stage'[q] = stage[q]
            /\ value'[t] = v
      /\ stage'[r] = x
  BY <1>0, WakeEffect
<1>2. PICK p \in Requests : tier'[p] = t /\ stage'[p] = "pending"
  BY DEF At
<1>3. p # r
  BY <1>0, <1>1, <1>2
<1>4. CASE \E w \in Requests \ {r} : tier[w] = t /\ stage'[w] = "granted"
  BY <1>4 DEF At
<1>5. CASE /\ v = 0 \/ At(t, {"pending"}) = {}
           /\ \A q \in Requests \ {r} : stage'[q] = stage[q]
           /\ value'[t] = v
  BY <1>2, <1>3, <1>5 DEF At
<1> QED
  BY <1>1, <1>4, <1>5

WakeupInv == QueueInv /\ NoLostWakeup

LEMMA WakeupInvStep == WakeupInv /\ [Next]_vars => WakeupInv'
<1> SUFFICES ASSUME WakeupInv, [Next]_vars PROVE WakeupInv'
  OBVIOUS
<1>0. QueueInv /\ TypeOK /\ Placed /\ NoLostWakeup /\ QueueInv'
  BY QueueInvStep DEF WakeupInv, QueueInv
<1> SUFFICES ASSUME NEW u \in Tiers, value'[u] > 0, At(u, {"pending"})' # {}
             PROVE  At(u, {"granted", "revoked"})' # {}
  BY <1>0 DEF WakeupInv, NoLostWakeup

(* What keeps the wake-ups of tier u: its free slots stay as many, nobody  *)
(* new is pending, and who was woken is still on the way.                  *)
<1>1. ASSUME value'[u] = value[u],
             \A q \in Requests : tier'[q] = u /\ stage'[q] = "pending" =>
                                 tier[q] = u /\ stage[q] = "pending",
             \A q \in Requests : tier[q] = u /\ stage[q] \in {"granted", "revoked"} =>
                                 tier'[q] = u /\ stage'[q] \in {"granted", "revoked"}
      PROVE  At(u, {"granted", "revoked"})' # {}
  <2>1. value[u] > 0 /\ At(u, {"pending"}) # {}
    BY <1>1 DEF At
  <2>2. At(u, {"granted", "revoked"}) # {}
    BY <1>0, <2>1 DEF NoLostWakeup
  <2> QED
    BY <1>1, <2>2 DEF At
<1>2. ASSUME NEW r \in Requests, NEW s \in Sessions, NEW t \in Tiers,
             GateRefused(r, s, t) \/ GateQueueFull(r, s, t)
      PROVE  At(u, {"granted", "revoked"})' # {}
  BY <1>0, <1>1, <1>2 DEF GateRefused, GateQueueFull, Called, TypeOK, Out
<1>3. ASSUME NEW r \in Requests, NEW s \in Sessions, NEW t \in Tiers,
             GateAtOnce(r, s, t)
      PROVE  At(u, {"granted", "revoked"})' # {}
  <2>1. CASE u # t
    BY <1>0, <1>1, <1>3, <2>1 DEF GateAtOnce, Called, TypeOK, Out
  <2>2. CASE u = t
    <3>1. At(t, InDeque \ {"cancelled"}) = {}
      BY <1>3 DEF GateAtOnce, Locked
    <3>2. At(t, {"pending"})' \subseteq At(t, InDeque \ {"cancelled"})
      BY <1>0, <1>3 DEF GateAtOnce, At, InDeque, TypeOK
    <3> QED
      BY <2>2, <3>1, <3>2
  <2> QED
    BY <2>1, <2>2
<1>4. ASSUME NEW r \in Requests, NEW s \in Sessions, NEW t \in Tiers,
             GateWaits(r, s, t)
      PROVE  At(u, {"granted", "revoked"})' # {}
  <2>1. CASE u # t
    BY <1>0, <1>1, <1>4, <2>1 DEF GateWaits, Called, TypeOK, Out
  <2>2. CASE u = t
    <3>1. value[t] > 0 /\ value[t] # 0
      BY <1>0, <1>4, <2>2 DEF GateWaits, TypeOK
    <3>2. At(t, {"pending"}) # {} \/ At(t, {"granted", "revoked"}) # {}
      BY <1>4, <3>1 DEF GateWaits, Locked, At, InDeque
    <3>3. At(t, {"granted", "revoked"}) # {}
      BY <1>0, <3>1, <3>2 DEF NoLostWakeup
    <3>4. At(t, {"granted", "revoked"}) \subseteq At(t, {"granted", "revoked"})'
      BY <1>0, <1>4 DEF GateWaits, Called, At, TypeOK, Out
    <3> QED
      BY <2>2, <3>3, <3>4
  <2> QED
    BY <2>1, <2>2
<1>5. ASSUME NEW r \in Requests, TimerFires(r) \/ ResumeCancelled(r)
      PROVE  At(u, {"granted", "revoked"})' # {}
  BY <1>0, <1>1, <1>5 DEF TimerFires, ResumeCancelled, Refuse, TypeOK
<1>6. ASSUME NEW r \in Requests, ResumeGranted(r) \/ ResumeRevoked(r)
      PROVE  At(u, {"granted", "revoked"})' # {}
  <2>1. PICK t \in Tiers : tier[r] = t
    BY <1>0, <1>6 DEF ResumeGranted, ResumeRevoked, Placed, Out
  <2>2. PICK v \in Nat, x \in Out \cup {"admitted"} :
          SetAndWake(t, v, [stage EXCEPT ![r] = x])
    BY <1>0, <1>6, <2>1 DEF ResumeGranted, ResumeRevoked, TypeOK, Out
  <2>3. /\ stage[r] # "pending"
        /\ \A q \in Requests \ {r} : tier'[q] = tier[q]
    BY <1>0, <1>6 DEF ResumeGranted, ResumeRevoked, Refuse, TypeOK
  <2>4. CASE u = t
    BY <1>0, <2>2, <2>3, <2>4, WakeLosesNone
  <2>5. CASE u # t
    <3>1. /\ value'[u] = value[u]
          /\ \A q \in Requests \ {r} :
               stage'[q] = stage[q] \/ (stage'[q] = "granted" /\ tier[q] = t)
          /\ stage'[r] = x
      BY <1>0, <2>2, <2>3, <2>5, WakeEffect DEF Stages
    <3> QED
      BY <1>1, <2>1, <2>2, <2>3, <2>5, <3>1 DEF Out
  <2> QED
    BY <2>4, <2>5
<1>7. ASSUME NEW r \in Requests, Release(r)
      PROVE  At(u, {"granted", "revoked"})' # {}
  <2>1. /\ sess[r] \in Sessions /\ stage[r] = "admitted"
        /\ \A q \in Requests \ {r} : tier'[q] = tier[q]
    BY <1>0, <1>7, ReleaseEffect DEF Release, TypeOK
  <2>2. CASE held[sess[r]] = None
    BY <1>0, <1>1, <1>7, <2>1, <2>2 DEF Release, TypeOK
  <2>3. CASE held[sess[r]] # None
    <3>1. PICK t \in Tiers : held[sess[r]] = t
      BY <1>0, <2>1, <2>3 DEF TypeOK
    <3>2. /\ SetAndWake(t, value[t] + 1, [stage EXCEPT ![r] = "idle"])
          /\ value[t] + 1 \in Nat /\ "idle" \in Out
      BY <1>0, <1>7, <2>3, <3>1 DEF Release, TypeOK, Out
    <3>3. CASE u = t
      BY <1>0, <2>1, <3>2, <3>3, WakeLosesNone
    <3>4. CASE u # t
      <4>1. /\ value'[u] = value[u]
            /\ \A q \in Requests \ {r} :
                 stage'[q] = stage[q] \/ (stage'[q] = "granted" /\ tier[q] = t)
            /\ stage'[r] = "idle"
        BY <1>0, <2>1, <3>2, <3>4, WakeEffect DEF Stages
      <4> QED
        BY <1>1, <2>1, <3>4, <4>1
    <3> QED
      BY <3>3, <3>4
  <2> QED
    BY <2>2, <2>3
<1>8. CASE UNCHANGED vars
  BY <1>1, <1>8 DEF vars
<1> QED
  BY <1>2, <1>3, <1>4, <1>5, <1>6, <1>7, <1>8 DEF Next, Gate, Resume

(* No wake-up is lost, with or without overlapping requests: a slot is not *)
(* free while a caller waits unless somebody who will pass it on has been  *)
(* woken and has yet to run.                                               *)
THEOREM NoWakeupIsLost == Spec => []NoLostWakeup
<1>1. Init => WakeupInv
  BY QueueInvInit DEF Init, WakeupInv, NoLostWakeup, At
<1> QED
  BY <1>1, WakeupInvStep, PTL DEF Spec, WakeupInv
=============================================================================
