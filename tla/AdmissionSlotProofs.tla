------------------------ MODULE AdmissionSlotProofs ------------------------
(***************************************************************************)
(* Where the concurrency slots are: theorems about Admission that relate   *)
(* the semaphore's counter, the woken waiters and the _held table, first   *)
(* for sessions whose turns do not overlap, then for all.                  *)
(***************************************************************************)
EXTENDS AdmissionProofs

(* The holders of the slots of a tier. *)
Users(t) == At(t, Holding)

-----------------------------------------------------------------------------
(* The ways a step may move the slots of the pool. *)
Unmoved(u)       == Users(u)' = Users(u) /\ value'[u] = value[u]
UsesNone(w)      == \A u \in Tiers : w \notin Users(u)
Taken(t, w)      == /\ UsesNone(w)
                    /\ value[t] > 0 /\ value'[t] = value[t] - 1
                    /\ Users(t)' = Users(t) \cup {w}
Returned(t, r)   == /\ r \in Users(t)
                    /\ value'[t] = value[t] + 1
                    /\ Users(t)' = Users(t) \ {r}
Passed(t, r, w)  == /\ r \in Users(t) /\ UsesNone(w)
                    /\ value'[t] = value[t]
                    /\ Users(t)' = (Users(t) \ {r}) \cup {w}
SlotMove ==
  \/ \A u \in Tiers : Unmoved(u)
  \/ \E t \in Tiers, r \in Requests :
       /\ \A u \in Tiers \ {t} : Unmoved(u)
       /\ \/ Taken(t, r)
          \/ Returned(t, r)
          \/ \E w \in Requests : Passed(t, r, w)

(* While the turns of a session do not overlap, the entry of a session in  *)
(* _held is the tier of its one admitted request.                          *)
HeldMatches ==
  \A r \in Requests : stage[r] = "admitted" => held[sess[r]] = tier[r]

(* The inductive invariant for serial sessions: a release finds the slot   *)
(* it has to give back because nobody else writes its _held entry.         *)
SlotInv == QueueInv /\ OnePerSession /\ HeldMatches /\ SlotsConserved

-----------------------------------------------------------------------------
(* A holder that gives its slot of tier t back: a waiter gets it in the    *)
(* same step, or it is free.                                               *)
LEMMA GiveBack ==
  ASSUME TypeOK, Placed, NEW r \in Requests, stage[r] \in Holding,
         NEW x \in Out, NEW t \in Tiers, tier[r] = t,
         SetAndWake(t, value[t] + 1, [stage EXCEPT ![r] = x]),
         tier' = [tier EXCEPT ![r] = None]
  PROVE  /\ r \in Users(t)
         /\ \A u \in Tiers \ {t} : Unmoved(u)
         /\ Returned(t, r) \/ \E w \in Requests : Passed(t, r, w)
<1>1. r \in Users(t) /\ stage[r] # "pending"
  BY DEF Holding, Users, At
<1>2. value[t] + 1 \in Nat /\ value[t] \in Nat /\ x \in Stages
  BY DEF TypeOK, Stages
<1>4. /\ \/ /\ value[t] + 1 > 0
            /\ \E w \in Requests \ {r} :
                 /\ IsNext(w, t)
                 /\ stage[w] = "pending" /\ tier[w] = t
                 /\ stage'[w] = "granted"
                 /\ \A q \in Requests \ {r, w} : stage'[q] = stage[q]
            /\ value'[t] = value[t] + 1 - 1
         \/ /\ value[t] + 1 = 0 \/ At(t, {"pending"}) = {}
            /\ \A q \in Requests \ {r} : stage'[q] = stage[q]
            /\ value'[t] = value[t] + 1
      /\ stage'[r] = x
      /\ \A u \in Tiers \ {t} : value'[u] = value[u]
  BY <1>1, <1>2, WakeEffect
<1>5. /\ tier'[r] = None /\ None \notin Tiers
      /\ \A q \in Requests \ {r} : tier'[q] = tier[q]
  BY AdmissionAssumption DEF TypeOK, AdmissionAssumption
<1>6. CASE \E w \in Requests \ {r} :
               /\ stage[w] = "pending" /\ tier[w] = t
               /\ stage'[w] = "granted"
               /\ \A q \in Requests \ {r, w} : stage'[q] = stage[q]
               /\ value'[t] = value[t] + 1 - 1
  <2>1. PICK w \in Requests \ {r} :
               /\ stage[w] = "pending" /\ tier[w] = t
               /\ stage'[w] = "granted"
               /\ \A q \in Requests \ {r, w} : stage'[q] = stage[q]
               /\ value'[t] = value[t] + 1 - 1
    BY <1>6
  <2>2. UsesNone(w)
    BY <2>1 DEF UsesNone, Users, At, Holding
  <2>3. Users(t)' = (Users(t) \ {r}) \cup {w}
    BY <1>1, <1>5, <2>1 DEF Users, At, Holding
  <2>4. \A u \in Tiers \ {t} : Users(u)' = Users(u)
    BY <1>1, <1>5, <2>1 DEF Users, At, Holding
  <2>5. value'[t] = value[t]
    BY <1>2, <2>1
  <2> QED
    BY <1>1, <1>4, <2>2, <2>3, <2>4, <2>5 DEF Unmoved, Passed
<1>7. CASE /\ \A q \in Requests \ {r} : stage'[q] = stage[q]
           /\ value'[t] = value[t] + 1
  <2>1. Users(t)' = Users(t) \ {r}
    BY <1>1, <1>4, <1>5, <1>7 DEF Users, At, Holding, Out
  <2>2. \A u \in Tiers \ {t} : Users(u)' = Users(u)
    BY <1>1, <1>4, <1>5, <1>7 DEF Users, At, Holding, Out
  <2> QED
    BY <1>1, <1>4, <1>7, <2>1, <2>2 DEF Unmoved, Returned
<1> QED
  BY <1>4, <1>6, <1>7

(* Replacing one member of a finite set by another keeps its size. *)
LEMMA SwapKeepsSize ==
  ASSUME NEW S, IsFiniteSet(S), NEW a \in S, NEW b, b \notin S
  PROVE  Cardinality((S \ {a}) \cup {b}) = Cardinality(S)
<1>1. IsFiniteSet(S \ {a}) /\ Cardinality(S \ {a}) = Cardinality(S) - 1
  BY FS_RemoveElement
<1>2. Cardinality((S \ {a}) \cup {b}) = Cardinality(S \ {a}) + 1
  BY <1>1, FS_AddElement
<1>3. Cardinality(S) \in Nat
  BY FS_CardinalityType
<1> QED
  BY <1>1, <1>2, <1>3

(* Every step but a release moves at most one slot: a request takes a free *)
(* one, a holder returns one, or a holder's slot passes to a waiter.       *)
LEMMA QueueMovesSlots ==
  ASSUME QueueInv, NEW p \in Requests, Gate(p) \/ TimerFires(p) \/ Resume(p)
  PROVE  SlotMove
<1> USE AdmissionAssumption DEF AdmissionAssumption
<1>0. TypeOK /\ Placed
  BY DEF QueueInv
<1>1. ASSUME NEW r \in Requests, NEW s \in Sessions, NEW t \in Tiers,
             GateRefused(r, s, t) \/ GateQueueFull(r, s, t) \/ GateWaits(r, s, t)
      PROVE  SlotMove
  <2>1. value' = value
    BY <1>1 DEF GateRefused, GateQueueFull, GateWaits
  <2>2. \A u \in Tiers : Users(u)' = Users(u)
    BY <1>0, <1>1 DEF GateRefused, GateQueueFull, GateWaits, Called, Users, At,
                      Holding, Out, Placed, TypeOK
  <2> QED
    BY <2>1, <2>2 DEF SlotMove, Unmoved
<1>2. ASSUME NEW r \in Requests, NEW s \in Sessions, NEW t \in Tiers,
             GateAtOnce(r, s, t)
      PROVE  SlotMove
  <2>1. /\ value[t] \in Nat /\ value[t] # 0
        /\ value'[t] = value[t] - 1
        /\ \A u \in Tiers \ {t} : value'[u] = value[u]
    BY <1>0, <1>2 DEF GateAtOnce, Locked, TypeOK
  <2>2. UsesNone(r)
    BY <1>2 DEF GateAtOnce, Called, UsesNone, Users, At, Holding, Out
  <2>3. /\ Users(t)' = Users(t) \cup {r}
        /\ \A u \in Tiers \ {t} : Users(u)' = Users(u)
    BY <1>0, <1>2 DEF GateAtOnce, Called, Users, At, Holding, Out, Placed, TypeOK
  <2> QED
    BY <2>1, <2>2, <2>3 DEF SlotMove, Unmoved, Taken
<1>3. ASSUME NEW r \in Requests, TimerFires(r) \/ ResumeCancelled(r)
      PROVE  SlotMove
  <2>1. value' = value
    BY <1>3 DEF TimerFires, ResumeCancelled
  <2>2. \A u \in Tiers : Users(u)' = Users(u)
    BY <1>0, <1>3 DEF TimerFires, ResumeCancelled, Refuse, Users, At, Holding, TypeOK
  <2> QED
    BY <2>1, <2>2 DEF SlotMove, Unmoved
<1>4. ASSUME NEW r \in Requests, ResumeGranted(r)
      PROVE  SlotMove
  <2>1. PICK t \in Tiers : tier[r] = t
    BY <1>0, <1>4 DEF ResumeGranted, Placed, Out
  <2>2. value[t] \in Nat /\ stage[r] = "granted" /\ tier' = tier /\ "admitted" \in Stages
    BY <1>0, <1>4 DEF ResumeGranted, TypeOK, Stages
  <2>3. SetAndWake(t, value[t], [stage EXCEPT ![r] = "admitted"])
    BY <1>4, <2>1 DEF ResumeGranted
  <2>4. /\ \/ /\ value[t] > 0
              /\ \E w \in Requests \ {r} :
                   /\ stage[w] = "pending" /\ tier[w] = t
                   /\ stage'[w] = "granted"
                   /\ \A q \in Requests \ {r, w} : stage'[q] = stage[q]
              /\ value'[t] = value[t] - 1
           \/ /\ \A q \in Requests \ {r} : stage'[q] = stage[q]
              /\ value'[t] = value[t]
        /\ stage'[r] = "admitted"
        /\ \A u \in Tiers \ {t} : value'[u] = value[u]
    BY <1>0, <2>2, <2>3, WakeEffect
  <2>5. ASSUME NEW w \in Requests \ {r}, value[t] > 0,
               stage[w] = "pending", tier[w] = t, stage'[w] = "granted",
               \A q \in Requests \ {r, w} : stage'[q] = stage[q],
               value'[t] = value[t] - 1
        PROVE  SlotMove
    <3>1. UsesNone(w)
      BY <2>5 DEF UsesNone, Users, At, Holding
    <3>2. Users(t)' = Users(t) \cup {w}
      BY <2>1, <2>2, <2>4, <2>5 DEF Users, At, Holding
    <3>3. \A u \in Tiers \ {t} : Users(u)' = Users(u)
      BY <2>1, <2>2, <2>4, <2>5 DEF Users, At, Holding
    <3> QED
      BY <2>4, <2>5, <3>1, <3>2, <3>3 DEF SlotMove, Unmoved, Taken
  <2>6. CASE /\ \A q \in Requests \ {r} : stage'[q] = stage[q]
             /\ value'[t] = value[t]
    <3>1. \A u \in Tiers : Users(u)' = Users(u)
      BY <2>2, <2>4, <2>6 DEF Users, At, Holding
    <3> QED
      BY <2>4, <2>6, <3>1 DEF SlotMove, Unmoved
  <2> QED
    BY <2>4, <2>5, <2>6
<1>5. ASSUME NEW r \in Requests, ResumeRevoked(r)
      PROVE  SlotMove
  <2>1. PICK t \in Tiers : tier[r] = t
    BY <1>0, <1>5 DEF ResumeRevoked, Placed, Out
  <2>2. /\ stage[r] \in Holding /\ "refused" \in Out
        /\ tier' = [tier EXCEPT ![r] = None]
    BY <1>5 DEF ResumeRevoked, Refuse, Holding, Out
  <2>3. SetAndWake(t, value[t] + 1, [stage EXCEPT ![r] = "refused"])
    BY <1>5, <2>1 DEF ResumeRevoked
  <2> QED
    BY <1>0, <2>1, <2>2, <2>3, GiveBack DEF SlotMove
<1> QED
  BY <1>1, <1>2, <1>3, <1>4, <1>5 DEF Gate, Resume

(* So does a release that finds the tier of its request in _held. *)
LEMMA StepMovesSlots ==
  ASSUME QueueInv, HeldMatches, Next
  PROVE  SlotMove
<1> USE AdmissionAssumption DEF AdmissionAssumption
<1>0. TypeOK /\ Placed
  BY DEF QueueInv
<1>1. ASSUME NEW r \in Requests, Release(r)
      PROVE  SlotMove
  <2>1. PICK t \in Tiers : tier[r] = t
    BY <1>0, <1>1 DEF Release, Placed, Out
  <2>2. held[sess[r]] = t /\ t # None
    BY <1>1, <2>1 DEF Release, HeldMatches
  <2>3. /\ stage[r] \in Holding /\ "idle" \in Out
        /\ tier' = [tier EXCEPT ![r] = None]
    BY <1>1 DEF Release, Holding, Out
  <2>4. SetAndWake(t, value[t] + 1, [stage EXCEPT ![r] = "idle"])
    BY <1>1, <2>2 DEF Release
  <2> QED
    BY <1>0, <2>1, <2>3, <2>4, GiveBack DEF SlotMove
<1> QED
  BY <1>1, QueueMovesSlots DEF Next

(* Such a move keeps the sum of free and used slots of every tier. *)
LEMMA MoveConserves ==
  ASSUME TypeOK, SlotMove, NEW u \in Tiers
  PROVE  value'[u] + Cardinality(Users(u)') = value[u] + Cardinality(Users(u))
<1>0. /\ IsFiniteSet(Users(u)) /\ Cardinality(Users(u)) \in Nat
      /\ value[u] \in Nat
  BY AtFinite DEF Users, TypeOK
<1>1. CASE Unmoved(u)
  BY <1>1 DEF Unmoved
<1>2. ASSUME NEW r \in Requests, Taken(u, r)
      PROVE  value'[u] + Cardinality(Users(u)') = value[u] + Cardinality(Users(u))
  <2>1. r \notin Users(u)
    BY <1>2 DEF Taken, UsesNone
  <2>2. Cardinality(Users(u) \cup {r}) = Cardinality(Users(u)) + 1
    BY <1>0, <2>1, FS_AddElement
  <2> QED
    BY <1>0, <1>2, <2>2 DEF Taken
<1>3. ASSUME NEW r \in Requests, Returned(u, r)
      PROVE  value'[u] + Cardinality(Users(u)') = value[u] + Cardinality(Users(u))
  <2>1. Cardinality(Users(u) \ {r}) = Cardinality(Users(u)) - 1
    BY <1>0, <1>3, FS_RemoveElement DEF Returned
  <2> QED
    BY <1>0, <1>3, <2>1 DEF Returned
<1>4. ASSUME NEW r \in Requests, NEW w \in Requests, Passed(u, r, w)
      PROVE  value'[u] + Cardinality(Users(u)') = value[u] + Cardinality(Users(u))
  <2>1. r \in Users(u) /\ w \notin Users(u)
    BY <1>4 DEF Passed, UsesNone
  <2>2. Cardinality((Users(u) \ {r}) \cup {w}) = Cardinality(Users(u))
    BY <1>0, <2>1, SwapKeepsSize
  <2> QED
    BY <1>4, <2>2 DEF Passed
<1> QED
  BY <1>1, <1>2, <1>3, <1>4 DEF SlotMove

-----------------------------------------------------------------------------
LEMMA SlotInvInit == Init => SlotInv
<1> SUFFICES ASSUME Init PROVE SlotInv
  OBVIOUS
<1>1. QueueInv
  BY QueueInvInit
<1>2. OnePerSession /\ HeldMatches
  BY DEF Init, OnePerSession, HeldMatches
<1>3. ASSUME NEW t \in Tiers PROVE At(t, Holding) = {}
  BY DEF Init, At, Holding
<1>4. SlotsConserved
  BY <1>3, FS_EmptySet, AdmissionAssumption DEF Init, SlotsConserved, AdmissionAssumption
<1> QED
  BY <1>1, <1>2, <1>4 DEF SlotInv

(* Two requests of one session are never in the gateway together. *)
LEMMA OnePerSessionStep ==
  ASSUME ~Overlapping, QueueInv, OnePerSession, Next
  PROVE  OnePerSession'
<1> USE AdmissionAssumption DEF AdmissionAssumption
<1>0. TypeOK /\ Placed
  BY DEF QueueInv
<1>1. ASSUME NEW r \in Requests, Gate(r)
      PROVE  OnePerSession'
  BY <1>0, <1>1 DEF Gate, GateRefused, GateQueueFull, GateAtOnce, GateWaits, Called,
                    OnePerSession, TypeOK
<1>2. ASSUME NEW r \in Requests,
             sess' = sess \/ sess' = [sess EXCEPT ![r] = None]
      PROVE  OnePerSession'
  BY <1>0, <1>2 DEF OnePerSession, TypeOK
<1>3. ASSUME NEW r \in Requests, TimerFires(r) \/ Resume(r) \/ Release(r)
      PROVE  OnePerSession'
  <2>1. sess' = sess \/ sess' = [sess EXCEPT ![r] = None]
    BY <1>3 DEF TimerFires, Resume, ResumeGranted, ResumeCancelled, ResumeRevoked,
                Refuse, Release
  <2> QED
    BY <1>2, <2>1
<1> QED
  BY <1>1, <1>3 DEF Next

(* The _held entry of an admitted request is the tier it was admitted to. *)
LEMMA HeldMatchesStep ==
  ASSUME ~Overlapping, QueueInv, OnePerSession, HeldMatches, Next
  PROVE  HeldMatches'
<1> USE AdmissionAssumption DEF AdmissionAssumption
<1>0. TypeOK /\ Placed
  BY DEF QueueInv
<1>1. ASSUME NEW r \in Requests, NEW s \in Sessions, NEW t \in Tiers,
             GateRefused(r, s, t) \/ GateQueueFull(r, s, t) \/ GateWaits(r, s, t)
      PROVE  HeldMatches'
  BY <1>0, <1>1 DEF GateRefused, GateQueueFull, GateWaits, Called, HeldMatches, TypeOK, Out
<1>2. ASSUME NEW r \in Requests, NEW s \in Sessions, NEW t \in Tiers,
             GateAtOnce(r, s, t)
      PROVE  HeldMatches'
  BY <1>0, <1>2 DEF GateAtOnce, Called, HeldMatches, TypeOK
<1>3. ASSUME NEW r \in Requests, TimerFires(r)
      PROVE  HeldMatches'
  BY <1>0, <1>3 DEF TimerFires, HeldMatches, TypeOK
<1>4. ASSUME NEW r \in Requests, Resume(r)
      PROVE  HeldMatches'
  <2>1. /\ \/ stage[r] = "granted" /\ stage'[r] = "admitted"
           \/ stage[r] \in {"cancelled", "revoked"} /\ stage'[r] = "refused"
        /\ \A q \in Requests \ {r} : stage'[q] = "admitted" => stage[q] = "admitted"
    BY <1>0, <1>4, ResumeEffect
  <2>2. CASE ResumeGranted(r)
    <3>1. sess[r] \in Sessions
      BY <1>0, <2>2 DEF ResumeGranted, Placed, Out
    <3>2. held'[sess[r]] = tier[r] /\ \A s \in Sessions \ {sess[r]} : held'[s] = held[s]
      BY <1>0, <2>2, <3>1 DEF ResumeGranted, TypeOK
    <3>3. \A q \in Requests \ {r} : stage[q] = "admitted" => sess[q] \in Sessions \ {sess[r]}
      BY <1>0, <3>1 DEF OnePerSession, Placed, Out
    <3> QED
      BY <2>1, <2>2, <3>1, <3>2, <3>3 DEF ResumeGranted, HeldMatches
  <2>3. CASE ResumeCancelled(r) \/ ResumeRevoked(r)
    <3>1. stage'[r] # "admitted" /\ held' = held
      BY <2>1, <2>3 DEF ResumeCancelled, ResumeRevoked, Refuse
    <3>2. \A q \in Requests \ {r} : sess'[q] = sess[q] /\ tier'[q] = tier[q]
      BY <1>0, <2>3 DEF ResumeCancelled, ResumeRevoked, Refuse, TypeOK
    <3> QED
      BY <2>1, <3>1, <3>2 DEF HeldMatches
  <2> QED
    BY <1>4, <2>2, <2>3 DEF Resume
<1>5. ASSUME NEW r \in Requests, Release(r)
      PROVE  HeldMatches'
  <2>1. /\ sess[r] \in Sessions /\ stage[r] = "admitted" /\ stage'[r] = "idle"
        /\ \A q \in Requests \ {r} : stage'[q] = "admitted" => stage[q] = "admitted"
    BY <1>0, <1>5, ReleaseEffect
  <2>2. \A q \in Requests \ {r} : sess'[q] = sess[q] /\ tier'[q] = tier[q]
    BY <1>0, <1>5 DEF Release, TypeOK
  <2>3. \A s \in Sessions \ {sess[r]} : held'[s] = held[s]
    BY <1>0, <1>5 DEF Release, TypeOK
  <2>4. \A q \in Requests \ {r} : stage[q] = "admitted" => sess[q] \in Sessions \ {sess[r]}
    BY <1>0, <2>1 DEF OnePerSession, Placed, Out
  <2> QED
    BY <2>1, <2>2, <2>3, <2>4 DEF HeldMatches
<1> QED
  BY <1>1, <1>2, <1>3, <1>4, <1>5 DEF Next, Gate

LEMMA SlotInvStep ==
  ASSUME ~Overlapping
  PROVE  SlotInv /\ [Next]_vars => SlotInv'
<1> SUFFICES ASSUME SlotInv, [Next]_vars PROVE SlotInv'
  OBVIOUS
<1>0. QueueInv /\ OnePerSession /\ HeldMatches /\ SlotsConserved /\ TypeOK
  BY DEF SlotInv, QueueInv
<1>1. QueueInv'
  BY <1>0, QueueInvStep
<1>2. CASE Next
  <2>1. OnePerSession' /\ HeldMatches'
    BY <1>0, <1>2, OnePerSessionStep, HeldMatchesStep
  <2>2. SlotMove
    BY <1>0, <1>2, StepMovesSlots
  <2>3. ASSUME NEW u \in Tiers
        PROVE  value'[u] + Cardinality(Users(u)') = Capacity[u]
    BY <1>0, <2>2, MoveConserves DEF SlotsConserved, Users
  <2>4. SlotsConserved'
    BY <2>3 DEF SlotsConserved, Users
  <2> QED
    BY <1>1, <2>1, <2>4 DEF SlotInv
<1>3. CASE UNCHANGED vars
  BY <1>0, <1>1, <1>3 DEF vars, SlotInv, OnePerSession, HeldMatches, SlotsConserved, At
<1> QED
  BY <1>2, <1>3

(* While the turns of a session do not overlap, every slot of a tier is at *)
(* every moment free, on its way to a woken waiter, or used by an admitted *)
(* request of that tier: none is lost, none is used twice.                 *)
THEOREM SlotsAreConserved ==
  ASSUME ~Overlapping
  PROVE  Spec => []SlotsConserved
BY SlotInvInit, SlotInvStep, PTL DEF Spec, SlotInv

-----------------------------------------------------------------------------
(* The admission layer implements the pool of slots: a request is served   *)
(* only with a slot of its tier, of which there are Capacity[t].           *)
PoolHolders == [t \in Tiers |-> At(t, Holding)]

LEMMA PoolInit == Init => Pool!Init
BY DEF Init, Pool!Init, At, Holding

LEMMA PoolStep ==
  ASSUME SlotInv, [Next]_vars
  PROVE  [Pool!Next]_PoolHolders
<1>0. QueueInv /\ HeldMatches /\ SlotsConserved /\ TypeOK
  BY DEF SlotInv, QueueInv
<1>1. CASE UNCHANGED vars
  BY <1>1 DEF vars, PoolHolders, At
<1>2. CASE Next
  <2>1. SlotMove
    BY <1>0, <1>2, StepMovesSlots
  <2>2. CASE \A u \in Tiers : Unmoved(u)
    BY <2>2 DEF Unmoved, Users, PoolHolders
  <2>3. ASSUME NEW t \in Tiers, NEW r \in Requests,
               \A u \in Tiers \ {t} : Unmoved(u),
               \/ Taken(t, r)
               \/ Returned(t, r)
               \/ \E w \in Requests : Passed(t, r, w)
        PROVE  Pool!Next
    <3>1. \A u \in Tiers \ {t} : PoolHolders'[u] = PoolHolders[u]
      BY <2>3 DEF Unmoved, Users, PoolHolders
    <3>2. \A u \in Tiers : PoolHolders[u] = Users(u) /\ PoolHolders'[u] = Users(u)'
      BY DEF PoolHolders, Users
    <3>3. CASE Taken(t, r)
      <4>1. value[t] + Cardinality(Users(t)) = Capacity[t] /\ value[t] \in Nat
        BY <1>0 DEF SlotsConserved, Users, TypeOK
      <4>2. Cardinality(Users(t)) < Capacity[t]
        BY <3>3, <4>1, AtFinite DEF Taken, Users
      <4>3. PoolHolders' = [PoolHolders EXCEPT ![t] = PoolHolders[t] \cup {r}]
        BY <3>1, <3>2, <3>3 DEF Taken, PoolHolders
      <4>4. Pool!Cardinality(PoolHolders[t]) < Capacity[t]
        BY <3>2, <4>2 DEF Pool!Cardinality, Cardinality
      <4>5. Pool!Acquire(t, r)
        BY <3>2, <3>3, <4>3, <4>4
           DEF Pool!Acquire, Pool!HoldsNone, PoolHolders, Taken, UsesNone, Users
      <4> QED
        BY <4>5 DEF Pool!Next
    <3>4. CASE Returned(t, r)
      <4>1. PoolHolders' = [PoolHolders EXCEPT ![t] = PoolHolders[t] \ {r}]
        BY <3>1, <3>2, <3>4 DEF Returned, PoolHolders
      <4>2. Pool!Release(t, r)
        BY <3>2, <3>4, <4>1 DEF Pool!Release, PoolHolders, Returned, Users
      <4> QED
        BY <4>2 DEF Pool!Next
    <3>5. ASSUME NEW w \in Requests, Passed(t, r, w)
          PROVE  Pool!Next
      <4>1. PoolHolders' = [PoolHolders EXCEPT ![t] = (PoolHolders[t] \ {r}) \cup {w}]
        BY <3>1, <3>2, <3>5 DEF Passed, PoolHolders
      <4>2. Pool!HandOver(t, r, w)
        BY <3>2, <3>5, <4>1
           DEF Pool!HandOver, Pool!HoldsNone, PoolHolders, Passed, UsesNone, Users
      <4> QED
        BY <4>2 DEF Pool!Next
    <3> QED
      BY <2>3, <3>3, <3>4, <3>5
  <2> QED
    BY <2>1, <2>2, <2>3 DEF SlotMove
<1> QED
  BY <1>1, <1>2

THEOREM PoolIsImplemented ==
  ASSUME ~Overlapping
  PROVE  Spec => ImplementsPool
<1>1. SlotInv /\ [Next]_vars => [Pool!Next]_PoolHolders
  BY PoolStep
<1> QED
  BY <1>1, PoolInit, SlotInvInit, SlotInvStep, PTL
     DEF Spec, ImplementsPool, Pool!Spec, PoolHolders

-----------------------------------------------------------------------------
(* When no request is inside, every slot is free again.  With overlapping  *)
(* turns this fails (the run admission_leak).                              *)
THEOREM IdleGatewayIsFree ==
  ASSUME ~Overlapping
  PROVE  Spec => []IdleMeansAllFree
<1>1. SlotInv => IdleMeansAllFree
  <2> SUFFICES ASSUME SlotInv, \A r \in Requests : stage[r] \in Out
               PROVE  value = Capacity
    BY DEF IdleMeansAllFree
  <2>1. \A t \in Tiers : At(t, Holding) = {}
    BY DEF At, Holding, Out
  <2>2. \A t \in Tiers : value[t] + 0 = Capacity[t] /\ value[t] \in Nat
    BY <2>1, FS_EmptySet DEF SlotInv, SlotsConserved, QueueInv, TypeOK
  <2> QED
    BY <2>2, AdmissionAssumption DEF SlotInv, QueueInv, TypeOK, AdmissionAssumption
<1> QED
  BY <1>1, SlotInvInit, SlotInvStep, PTL DEF Spec

-----------------------------------------------------------------------------
(* What remains true when the requests of a session overlap.  A release    *)
(* may then find no entry in _held, and a slot is lost, or the entry of    *)
(* another request of the session; that request is still admitted, because *)
(* whichever of them ends first takes the entry away.                      *)
Balance(t) == value[t] + Cardinality(Users(t))

HeldByAdmitted ==
  \A s \in Sessions : held[s] # None =>
    \E w \in Requests : stage[w] = "admitted" /\ sess[w] = s /\ tier[w] = held[s]

(* What holds of _held whoever overlaps, and what depends on the tiers of  *)
(* the turns that do.                                                      *)
HeldInv    == QueueInv /\ HeldByAdmitted
OverlapInv == HeldInv /\ NoSlotInvented

LEMMA BalanceIsNat ==
  ASSUME TypeOK, NEW t \in Tiers
  PROVE  /\ value[t] \in Nat /\ IsFiniteSet(Users(t)) /\ Cardinality(Users(t)) \in Nat
         /\ Balance(t) \in Nat
<1>1. value[t] \in Nat /\ IsFiniteSet(Users(t)) /\ Cardinality(Users(t)) \in Nat
  BY AtFinite DEF TypeOK, Users
<1> QED
  BY <1>1 DEF Balance

(* When an admitted request ends in the name of tier t, t gets a slot more *)
(* than its remaining users account for, whether or not somebody is woken. *)
LEMMA BalanceAfterWake ==
  ASSUME TypeOK, NEW r \in Requests, stage[r] = "admitted", NEW t \in Tiers,
         SetAndWake(t, value[t] + 1, [stage EXCEPT ![r] = "idle"]),
         tier' = [tier EXCEPT ![r] = None]
  PROVE  /\ Balance(t)' = value[t] + 1 + Cardinality(Users(t) \ {r})
         /\ \A u \in Tiers \ {t} : Balance(u)' = value[u] + Cardinality(Users(u) \ {r})
<1>0. value[t] \in Nat /\ value[t] + 1 \in Nat /\ "idle" \in Stages
  BY DEF TypeOK, Stages, Out
<1>1. /\ \/ /\ \E w \in Requests \ {r} :
                 /\ stage[w] = "pending" /\ tier[w] = t
                 /\ stage'[w] = "granted"
                 /\ \A q \in Requests \ {r, w} : stage'[q] = stage[q]
            /\ value'[t] = value[t] + 1 - 1
         \/ /\ \A q \in Requests \ {r} : stage'[q] = stage[q]
            /\ value'[t] = value[t] + 1
      /\ stage'[r] = "idle"
      /\ \A u \in Tiers \ {t} : value'[u] = value[u]
  BY <1>0, WakeEffect
<1>2. \A q \in Requests \ {r} : tier'[q] = tier[q]
  BY DEF TypeOK
<1>3. ASSUME NEW w \in Requests \ {r}, stage[w] = "pending", tier[w] = t,
             stage'[w] = "granted", value'[t] = value[t] + 1 - 1,
             \A q \in Requests \ {r, w} : stage'[q] = stage[q]
      PROVE  /\ Balance(t)' = value[t] + 1 + Cardinality(Users(t) \ {r})
             /\ \A u \in Tiers \ {t} : Users(u)' = Users(u) \ {r}
  <2>1. Users(t)' = (Users(t) \ {r}) \cup {w} /\ w \notin Users(t) \ {r}
    BY <1>1, <1>2, <1>3 DEF Users, At, Holding
  <2>2. \A u \in Tiers \ {t} : Users(u)' = Users(u) \ {r}
    BY <1>1, <1>2, <1>3 DEF Users, At, Holding
  <2>3. IsFiniteSet(Users(t) \ {r}) /\ Cardinality(Users(t) \ {r}) \in Nat
    BY BalanceIsNat, FS_Subset, FS_CardinalityType
  <2>4. Cardinality(Users(t)') = Cardinality(Users(t) \ {r}) + 1
    BY <2>1, <2>3, FS_AddElement
  <2>5. value'[t] + Cardinality(Users(t)') = value[t] + 1 + Cardinality(Users(t) \ {r})
    BY <1>0, <1>3, <2>3, <2>4
  <2> QED
    BY <2>2, <2>5 DEF Balance
<1>4. ASSUME \A q \in Requests \ {r} : stage'[q] = stage[q], value'[t] = value[t] + 1
      PROVE  /\ Balance(t)' = value[t] + 1 + Cardinality(Users(t) \ {r})
             /\ \A u \in Tiers \ {t} : Users(u)' = Users(u) \ {r}
  <2>1. \A u \in Tiers : Users(u)' = Users(u) \ {r}
    BY <1>1, <1>2, <1>4 DEF Users, At, Holding
  <2> QED
    BY <1>4, <2>1 DEF Balance
<1>5. /\ Balance(t)' = value[t] + 1 + Cardinality(Users(t) \ {r})
      /\ \A u \in Tiers \ {t} : Users(u)' = Users(u) \ {r}
  BY <1>1, <1>3, <1>4
<1> QED
  BY <1>1, <1>5 DEF Balance

(* What a release does to the tiers: the one it was admitted to has a user *)
(* less, the one on record under its session gets a slot.                  *)
Gains(u, t) == IF u = t THEN 1 ELSE 0

LEMMA ReleaseBalance ==
  ASSUME QueueInv, NEW r \in Requests, Release(r), NEW u \in Tiers
  PROVE  Balance(u)' = Balance(u) + Gains(u, held[sess[r]]) - Gains(u, tier[r])
<1> USE AdmissionAssumption DEF AdmissionAssumption
<1>0. TypeOK /\ Placed
  BY DEF QueueInv
<1>1. /\ stage[r] = "admitted" /\ sess[r] \in Sessions /\ tier[r] \in Tiers
      /\ tier' = [tier EXCEPT ![r] = None]
  BY <1>0 DEF Release, Placed, Out
<1>2. /\ value[u] \in Nat /\ IsFiniteSet(Users(u)) /\ Cardinality(Users(u)) \in Nat
  BY <1>0, BalanceIsNat
<1>3. Cardinality(Users(u) \ {r}) = Cardinality(Users(u)) - Gains(u, tier[r])
  <2>1. CASE u = tier[r]
    <3>1. r \in Users(u)
      BY <1>1, <2>1 DEF Users, At, Holding
    <3>2. Cardinality(Users(u) \ {r}) = Cardinality(Users(u)) - 1
      BY <1>2, <3>1, FS_RemoveElement
    <3> QED
      BY <2>1, <3>2 DEF Gains
  <2>2. CASE u # tier[r]
    <3>1. Users(u) \ {r} = Users(u)
      BY <2>2 DEF Users, At
    <3>2. Cardinality(Users(u) \ {r}) = Cardinality(Users(u))
      BY <3>1
    <3> QED
      BY <1>2, <2>2, <3>2 DEF Gains
  <2> QED
    BY <2>1, <2>2
<1>4. Balance(u)' = value[u] + Gains(u, held[sess[r]]) + Cardinality(Users(u) \ {r})
  <2>1. CASE held[sess[r]] # None
    <3>1. PICK t \in Tiers : held[sess[r]] = t
      BY <1>0, <1>1, <2>1 DEF TypeOK
    <3>2. SetAndWake(t, value[t] + 1, [stage EXCEPT ![r] = "idle"])
      BY <2>1, <3>1 DEF Release
    <3>3. /\ Balance(t)' = value[t] + 1 + Cardinality(Users(t) \ {r})
          /\ \A q \in Tiers \ {t} : Balance(q)' = value[q] + Cardinality(Users(q) \ {r})
      BY <1>0, <1>1, <3>2, BalanceAfterWake
    <3>4. Cardinality(Users(u) \ {r}) \in Nat
      BY <1>2, FS_Subset, FS_CardinalityType
    <3>5. CASE u = t
      BY <3>1, <3>3, <3>5 DEF Gains
    <3>6. CASE u # t
      BY <1>2, <3>1, <3>3, <3>4, <3>6 DEF Gains
    <3> QED
      BY <3>5, <3>6
  <2>2. CASE held[sess[r]] = None
    <3>1. value' = value /\ stage' = [stage EXCEPT ![r] = "idle"]
      BY <2>2 DEF Release
    <3>2. Users(u)' = Users(u) \ {r}
      BY <1>0, <1>1, <3>1 DEF Users, At, Holding, TypeOK
    <3>3. Gains(u, held[sess[r]]) = 0
      BY <2>2 DEF Gains
    <3> QED
      BY <1>2, <3>1, <3>2, <3>3 DEF Balance
  <2> QED
    BY <2>1, <2>2
<1>5. Gains(u, held[sess[r]]) \in Int /\ Gains(u, tier[r]) \in Int
  BY DEF Gains
<1> QED
  BY <1>2, <1>3, <1>4, <1>5 DEF Balance

-----------------------------------------------------------------------------
(* An entry of _held is the tier of an admitted request of its session.    *)
LEMMA HeldByAdmittedStep ==
  ASSUME QueueInv, HeldByAdmitted, Next
  PROVE  HeldByAdmitted'
<1> USE AdmissionAssumption DEF AdmissionAssumption
<1>0. TypeOK /\ Placed
  BY DEF QueueInv
<1>1. ASSUME NEW r \in Requests, NEW s \in Sessions, NEW t \in Tiers,
             GateRefused(r, s, t) \/ GateQueueFull(r, s, t) \/ GateWaits(r, s, t)
      PROVE  HeldByAdmitted'
  <2>1. /\ held' = held
        /\ \A w \in Requests : stage[w] = "admitted" =>
             stage'[w] = "admitted" /\ sess'[w] = sess[w] /\ tier'[w] = tier[w]
    BY <1>0, <1>1 DEF GateRefused, GateQueueFull, GateWaits, Called, TypeOK, Out
  <2> QED
    BY <2>1 DEF HeldByAdmitted
<1>2. ASSUME NEW r \in Requests, NEW s \in Sessions, NEW t \in Tiers,
             GateAtOnce(r, s, t)
      PROVE  HeldByAdmitted'
  <2>1. /\ stage'[r] = "admitted" /\ sess'[r] = s /\ tier'[r] = t /\ held'[s] = t
        /\ \A q \in Sessions \ {s} : held'[q] = held[q]
        /\ \A w \in Requests : stage[w] = "admitted" =>
             stage'[w] = "admitted" /\ sess'[w] = sess[w] /\ tier'[w] = tier[w]
    BY <1>0, <1>2 DEF GateAtOnce, Called, TypeOK, Out
  <2> QED
    BY <2>1 DEF HeldByAdmitted
<1>3. ASSUME NEW r \in Requests, TimerFires(r)
      PROVE  HeldByAdmitted'
  <2>1. /\ held' = held
        /\ \A w \in Requests : stage[w] = "admitted" =>
             stage'[w] = "admitted" /\ sess'[w] = sess[w] /\ tier'[w] = tier[w]
    BY <1>0, <1>3 DEF TimerFires, TypeOK
  <2> QED
    BY <2>1 DEF HeldByAdmitted
<1>4. ASSUME NEW r \in Requests, Resume(r)
      PROVE  HeldByAdmitted'
  <2>1. /\ \/ stage[r] = "granted" /\ stage'[r] = "admitted"
           \/ stage[r] \in {"cancelled", "revoked"} /\ stage'[r] = "refused"
        /\ \A q \in Requests \ {r} : stage[q] = "admitted" => stage'[q] = "admitted"
    BY <1>0, <1>4, ResumeEffect
  <2>2. CASE ResumeGranted(r)
    <3>1. /\ stage'[r] = "admitted" /\ sess' = sess /\ tier' = tier
          /\ held' = [held EXCEPT ![sess[r]] = tier[r]]
      BY <2>1, <2>2 DEF ResumeGranted
    <3>2. /\ held'[sess[r]] = tier[r] \/ sess[r] \notin Sessions
          /\ \A s \in Sessions \ {sess[r]} : held'[s] = held[s]
      BY <1>0, <3>1 DEF TypeOK
    <3> QED
      BY <2>1, <3>1, <3>2 DEF HeldByAdmitted
  <2>3. CASE ResumeCancelled(r) \/ ResumeRevoked(r)
    <3>1. stage[r] # "admitted" /\ held' = held
      BY <2>1, <2>3 DEF ResumeCancelled, ResumeRevoked, Refuse
    <3>2. \A q \in Requests \ {r} : sess'[q] = sess[q] /\ tier'[q] = tier[q]
      BY <1>0, <2>3 DEF ResumeCancelled, ResumeRevoked, Refuse, TypeOK
    <3> QED
      BY <2>1, <3>1, <3>2 DEF HeldByAdmitted
  <2> QED
    BY <1>4, <2>2, <2>3 DEF Resume
<1>5. ASSUME NEW r \in Requests, Release(r)
      PROVE  HeldByAdmitted'
  <2>1. \A q \in Requests \ {r} : stage[q] = "admitted" => stage'[q] = "admitted"
    BY <1>0, <1>5, ReleaseEffect
  <2>2. \A q \in Requests \ {r} : sess'[q] = sess[q] /\ tier'[q] = tier[q]
    BY <1>0, <1>5 DEF Release, TypeOK
  <2>3. /\ held'[sess[r]] = None \/ sess[r] \notin Sessions
        /\ \A s \in Sessions \ {sess[r]} : held'[s] = held[s]
    BY <1>0, <1>5 DEF Release, TypeOK
  <2> QED
    BY <2>1, <2>2, <2>3 DEF HeldByAdmitted
<1> QED
  BY <1>1, <1>2, <1>3, <1>4, <1>5 DEF Next, Gate

LEMMA OverlapInvInit == Init => OverlapInv
<1> SUFFICES ASSUME Init PROVE OverlapInv
  OBVIOUS
<1>1. HeldByAdmitted
  BY DEF Init, HeldByAdmitted
<1>2. ASSUME NEW t \in Tiers PROVE value[t] + Cardinality(At(t, Holding)) = Capacity[t]
  BY <1>1, SlotInvInit DEF SlotInv, SlotsConserved
<1>3. NoSlotInvented
  BY <1>2, AdmissionAssumption DEF NoSlotInvented, AdmissionAssumption
<1> QED
  BY <1>1, <1>3, QueueInvInit DEF OverlapInv, HeldInv

LEMMA HeldInvStep == HeldInv /\ [Next]_vars => HeldInv'
<1>1. ASSUME HeldInv, UNCHANGED vars PROVE HeldByAdmitted'
  BY <1>1 DEF vars, HeldInv, HeldByAdmitted
<1> QED
  BY <1>1, HeldByAdmittedStep, QueueInvStep DEF HeldInv

(* While no session is admitted at two tiers, a release that finds an      *)
(* entry finds its own tier.                                               *)
LEMMA OverlapInvStep == OverlapInv /\ OneTierPerSession /\ [Next]_vars => OverlapInv'
<1> SUFFICES ASSUME OverlapInv, OneTierPerSession, [Next]_vars PROVE OverlapInv'
  OBVIOUS
<1>0. HeldInv /\ QueueInv /\ TypeOK /\ Placed /\ HeldByAdmitted /\ NoSlotInvented
  BY DEF OverlapInv, HeldInv, QueueInv
<1>1. HeldInv' /\ TypeOK'
  BY <1>0, HeldInvStep DEF HeldInv, QueueInv
<1>2. CASE Next
  <2>1. ASSUME NEW u \in Tiers PROVE Balance(u)' <= Capacity[u]
    <3>1. Balance(u) <= Capacity[u] /\ Balance(u) \in Nat /\ Capacity[u] \in Nat
      BY <1>0, BalanceIsNat, AdmissionAssumption
         DEF NoSlotInvented, Balance, Users, AdmissionAssumption
    <3>2. CASE \E q \in Requests : Gate(q) \/ TimerFires(q) \/ Resume(q)
      <4>1. Balance(u)' = Balance(u)
        BY <1>0, <3>2, QueueMovesSlots, MoveConserves DEF Balance
      <4> QED
        BY <3>1, <4>1
    <3>3. ASSUME NEW r \in Requests, Release(r) PROVE Balance(u)' <= Capacity[u]
      <4>1. /\ stage[r] = "admitted" /\ sess[r] \in Sessions
            /\ tier[r] \in Tiers /\ tier[r] # None
        BY <1>0, <3>3, AdmissionAssumption DEF Release, Placed, Out, AdmissionAssumption
      <4>2. held[sess[r]] = None \/ held[sess[r]] = tier[r]
        BY <1>0, <4>1 DEF HeldByAdmitted, OneTierPerSession
      <4>3. /\ Gains(u, held[sess[r]]) \in Int /\ Gains(u, tier[r]) \in Int
            /\ Gains(u, held[sess[r]]) <= Gains(u, tier[r])
        BY <4>1, <4>2, AdmissionAssumption DEF Gains, AdmissionAssumption
      <4>4. Balance(u)' = Balance(u) + Gains(u, held[sess[r]]) - Gains(u, tier[r])
        BY <1>0, <3>3, ReleaseBalance
      <4> QED
        BY <3>1, <4>3, <4>4
    <3> QED
      BY <1>2, <3>2, <3>3 DEF Next
  <2> QED
    BY <1>1, <2>1 DEF OverlapInv, NoSlotInvented, Balance, Users
<1>3. CASE UNCHANGED vars
  BY <1>0, <1>1, <1>3 DEF vars, OverlapInv, NoSlotInvented, At
<1> QED
  BY <1>2, <1>3

(* However the requests of sessions overlap, as long as no session is      *)
(* admitted at two tiers together the free slots of a tier, those on their *)
(* way to a waiter and its admitted requests are no more than it has.      *)
THEOREM TierSlotsAreKept == Spec => TiersKeepTheirSlots
<1>1. OverlapInv => NoSlotInvented
  BY DEF OverlapInv
<1> QED
  BY <1>1, OverlapInvInit, OverlapInvStep, PTL DEF Spec, TiersKeepTheirSlots
=============================================================================
