--------------------------- MODULE GatewayProofs ---------------------------
(***************************************************************************)
(* The gateway takes no step of the admission layer but those Admission    *)
(* allows, for every set of requests, sessions and backends.  What is      *)
(* proved of Admission therefore holds of the gateway.                     *)
(***************************************************************************)
EXTENDS Gateway, AdmissionSlotProofs

(* What the mapping needs: gate() is only called for known sessions and    *)
(* tiers.                                                                  *)
CallInv == /\ up \subseteq Backends
           /\ asking \in [Requests -> Sessions \cup {None}]

(* A request in the queue or at its backend goes to a backend of the very  *)
(* tier whose slot it waits for or has.                                    *)
Bound(r)  == stage[r] \notin Out => target[r] \in Backends /\ TierOf[target[r]] = tier[r]
TargetInv == /\ target \in [Requests -> Backends \cup {None}]
             /\ \A r \in Requests : (stage[r] \in Out => target[r] = None) /\ Bound(r)

GatewayInv == /\ CallInv /\ TargetInv /\ QueueInv
              /\ noBackend \in [Requests -> BOOLEAN]

LEMMA CallInvInit == GatewayInit => CallInv
  BY DEF GatewayInit, CallInv

(* Entering the gate changes neither the health nor the pending questions, *)
(* and is a step of the admission layer or none.                           *)
LEMMA HandleIsAdmission ==
  ASSUME CallInv, NEW r \in Requests, NEW s \in Sessions, NEW w, Handle(r, s, w)
  PROVE  Next \/ UNCHANGED vars
  <1>1. CASE HealthyIn(TierFor(w)) = {} /\ Unavailable(r)
    BY <1>1 DEF Unavailable
  <1>2. CASE \E b \in HealthyIn(TierFor(w)) : EnterGate(r, s, TierFor(w), b)
    <2> DEFINE t == TierFor(w)
    <2>1. PICK b \in HealthyIn(t) : EnterGate(r, s, t, b)
      BY <1>2
    <2>2. t \in Tiers
      BY <2>1, GatewayAssumption DEF HealthyIn, CallInv
    <2>3. \/ GateRefused(r, s, t) \/ GateQueueFull(r, s, t)
          \/ GateAtOnce(r, s, t) \/ GateWaits(r, s, t)
      BY <2>1 DEF EnterGate
    <2>4. Gate(r)
      BY <2>2, <2>3 DEF Gate
    <2> QED BY <2>4 DEF Next
  <1> QED BY <1>1, <1>2 DEF Handle

LEMMA GatewayStep ==
  ASSUME CallInv, [GatewayNext]_allVars
  PROVE  CallInv' /\ [Next]_vars
  <1>1. CASE \E b \in Backends : HealthFlips(b)
    BY <1>1 DEF HealthFlips, CallInv
  <1>2. CASE \E r \in Requests, s \in Sessions : ArriveSettled(r, s)
    <2>1. PICK r \in Requests, s \in Sessions : ArriveSettled(r, s)
      BY <1>2
    <2>2. PICK w \in Tiers \cup {AnyTier} : Handle(r, s, w)
      BY <2>1 DEF ArriveSettled
    <2>3. CallInv'
      BY <2>1 DEF ArriveSettled, CallInv
    <2> QED BY <2>2, <2>3, HandleIsAdmission
  <1>3. CASE \E r \in Requests, s \in Sessions : ArriveAsking(r, s)
    BY <1>3 DEF ArriveAsking, CallInv
  <1>4. CASE \E r \in Requests : Classified(r)
    <2>1. PICK r \in Requests : Classified(r)
      BY <1>4
    <2>2. asking[r] \in Sessions
      BY <2>1 DEF Classified, CallInv
    <2>3. PICK w \in Tiers \cup {AnyTier} : Handle(r, asking[r], w)
      BY <2>1 DEF Classified
    <2>4. CallInv'
      BY <2>1 DEF Classified, CallInv
    <2> QED BY <2>2, <2>3, <2>4, HandleIsAdmission
  <1>5. CASE \E r \in Requests : WaitTimesOut(r)
    BY <1>5 DEF WaitTimesOut, gatewayVars, CallInv, Next
  <1>6. CASE \E r \in Requests : LeavesQueue(r)
    BY <1>6 DEF LeavesQueue, gatewayVars, CallInv, Next, Resume
  <1>7. CASE \E r \in Requests : Answered(r)
    BY <1>7 DEF Answered, CallInv, Next
  <1>8. CASE UNCHANGED allVars
    BY <1>8 DEF allVars, gatewayVars, CallInv
  <1> QED BY <1>1, <1>2, <1>3, <1>4, <1>5, <1>6, <1>7, <1>8 DEF GatewayNext

(* Every behaviour of the gateway is a behaviour of the admission layer,   *)
(* whatever the router, the scheduler and the health checker do: no path   *)
(* of the handler takes, keeps or returns a slot in another way.           *)
THEOREM GatewayUsesAdmission == GatewaySpec => AdmissionAsSpecified
  <1>1. GatewayInit => Init
    BY DEF GatewayInit
  <1>2. CallInv /\ [GatewayNext]_allVars => CallInv'
    BY GatewayStep
  <1>3. CallInv /\ [GatewayNext]_allVars => [Next]_vars
    BY GatewayStep
  <1> QED BY <1>1, <1>2, <1>3, CallInvInit, PTL
          DEF GatewaySpec, Spec, AdmissionAsSpecified

(* In the gateway too, a slot is at every moment free, on its way or used: *)
(* no error path of the handler loses one, while turns do not overlap.     *)
THEOREM GatewayConservesSlots ==
  ASSUME ~Overlapping PROVE GatewaySpec => []SlotsConserved
  BY GatewayUsesAdmission, SlotsAreConserved, PTL DEF AdmissionAsSpecified

(* Nor does a path of it give a tier more than it has, as long as no       *)
(* session is admitted at two tiers together.                              *)
THEOREM GatewayKeepsTiers == GatewaySpec => TiersKeepTheirSlots
  BY GatewayUsesAdmission, TierSlotsAreKept, PTL DEF AdmissionAsSpecified

(* The handler admits in the order of arrival at the tier, and leaves no   *)
(* caller waiting beside a free slot that nobody is about to pass on.      *)
THEOREM GatewayServesInOrder == GatewaySpec => NoOvertaking
  BY GatewayUsesAdmission, NobodyOvertakes, PTL DEF AdmissionAsSpecified

THEOREM GatewayLosesNoWakeup == GatewaySpec => []NoLostWakeup
  BY GatewayUsesAdmission, NoWakeupIsLost, PTL DEF AdmissionAsSpecified

-----------------------------------------------------------------------------
(* What a request of the handler keeps while another one runs: it stays    *)
(* inside or outside the gateway, with its tier.                           *)
Keeps(q) == (stage'[q] \in Out <=> stage[q] \in Out) /\ tier'[q] = tier[q]

LEMMA KeptBound ==
  ASSUME TargetInv, NEW q \in Requests, Keeps(q), target'[q] = target[q]
  PROVE  (stage'[q] \in Out => target'[q] = None) /\ Bound(q)'
  BY DEF TargetInv, Bound, Keeps

LEMMA HandleKeepsTargets ==
  ASSUME GatewayInv, NEW r \in Requests, NEW s \in Sessions, NEW w, Handle(r, s, w)
  PROVE  TargetInv' /\ noBackend' \in [Requests -> BOOLEAN]
<1>0. TypeOK /\ TargetInv
  BY DEF GatewayInv, QueueInv
<1>1. CASE Unavailable(r)
  BY <1>1 DEF Unavailable, GatewayInv, TargetInv, Bound, vars
<1>2. CASE \E b \in HealthyIn(TierFor(w)) : EnterGate(r, s, TierFor(w), b)
  <2> DEFINE t == TierFor(w)
  <2>1. PICK b \in HealthyIn(t) : EnterGate(r, s, t, b)
    BY <1>2
  <2>2. t \in Tiers /\ b \in Backends /\ TierOf[b] = t
    BY <2>1, GatewayAssumption DEF HealthyIn, GatewayInv, CallInv
  <2> HIDE DEF t
  <2>3. noBackend' \in [Requests -> BOOLEAN]
    BY <2>1 DEF EnterGate, GatewayInv
  <2>4. CASE (GateRefused(r, s, t) \/ GateQueueFull(r, s, t)) /\ UNCHANGED target
    <3>1. stage[r] \in Out /\ stage' = [stage EXCEPT ![r] = "refused"] /\ tier' = tier
      BY <2>4 DEF GateRefused, GateQueueFull, Called
    <3>2. \A q \in Requests : Keeps(q)
      BY <1>0, <3>1 DEF Keeps, TypeOK, Out
    <3> QED BY <1>0, <2>3, <2>4, <3>2, KeptBound DEF TargetInv
  <2>5. CASE /\ GateAtOnce(r, s, t) \/ GateWaits(r, s, t)
             /\ target' = [target EXCEPT ![r] = b]
    <3>1. /\ stage'[r] \notin Out
          /\ \A q \in Requests \ {r} : stage'[q] = stage[q]
          /\ tier' = [tier EXCEPT ![r] = t]
      BY <1>0, <2>5 DEF GateAtOnce, GateWaits, TypeOK, Out
    <3>2. tier'[r] = t /\ target'[r] = b
      BY <1>0, <2>5, <3>1 DEF TypeOK, TargetInv
    <3>3. Bound(r)'
      BY <2>2, <3>2 DEF Bound
    <3>4. ASSUME NEW q \in Requests \ {r} PROVE Keeps(q) /\ target'[q] = target[q]
      BY <1>0, <2>5, <3>1 DEF Keeps, TypeOK, TargetInv
    <3>5. target' \in [Requests -> Backends \cup {None}]
      BY <1>0, <2>2, <2>5 DEF TargetInv
    <3> QED BY <1>0, <2>3, <3>1, <3>3, <3>4, <3>5, KeptBound DEF TargetInv
  <2> QED BY <2>1, <2>4, <2>5 DEF EnterGate
<1> QED BY <1>1, <1>2 DEF Handle

LEMMA LeavingKeepsTargets ==
  ASSUME GatewayInv, NEW r \in Requests, LeavesQueue(r)
  PROVE  TargetInv' /\ noBackend' \in [Requests -> BOOLEAN]
<1>0. TypeOK /\ Placed /\ TargetInv
  BY DEF GatewayInv, QueueInv
<1>1. Resume(r)
  BY DEF LeavesQueue, Resume
<1>2. /\ \A q \in Requests \ {r} :
           stage'[q] = stage[q] \/ (stage[q] = "pending" /\ stage'[q] = "granted")
      /\ \A q \in Requests \ {r} : tier'[q] = tier[q]
  <2>1. \/ tier' = tier
        \/ tier' = [tier EXCEPT ![r] = None]
    BY <1>1 DEF Resume, ResumeGranted, ResumeCancelled, ResumeRevoked, Refuse
  <2> QED BY <1>0, <1>1, <2>1, ResumeEffect DEF TypeOK
<1>3. \A q \in Requests \ {r} : Keeps(q)
  BY <1>2 DEF Keeps, Out
<1>4. noBackend' \in [Requests -> BOOLEAN]
  BY DEF LeavesQueue, gatewayVars, GatewayInv
<1>5. CASE ResumeGranted(r) /\ UNCHANGED gatewayVars
  <2>1. stage[r] = "granted" /\ stage'[r] = "admitted" /\ tier' = tier
    BY <1>0, <1>1, <1>5, ResumeEffect DEF ResumeGranted
  <2>2. Keeps(r)
    BY <2>1 DEF Keeps, Out
  <2> QED BY <1>0, <1>3, <1>4, <1>5, <2>2, KeptBound DEF TargetInv, gatewayVars
<1>6. CASE /\ ResumeCancelled(r) \/ ResumeRevoked(r)
           /\ target' = [target EXCEPT ![r] = None]
  <2>1. stage'[r] = "refused"
    BY <1>0, <1>1, <1>6, ResumeEffect DEF ResumeCancelled, ResumeRevoked
  <2>2. target'[r] = None /\ Bound(r)'
    BY <1>0, <1>6, <2>1 DEF TargetInv, Bound, Out
  <2>3. \A q \in Requests \ {r} : target'[q] = target[q]
    BY <1>0, <1>6 DEF TargetInv
  <2>4. target' \in [Requests -> Backends \cup {None}]
    BY <1>0, <1>6 DEF TargetInv
  <2> QED BY <1>0, <1>3, <1>4, <2>2, <2>3, <2>4, KeptBound DEF TargetInv
<1> QED BY <1>5, <1>6 DEF LeavesQueue

LEMMA AnswerKeepsTargets ==
  ASSUME GatewayInv, NEW r \in Requests, Answered(r)
  PROVE  TargetInv' /\ noBackend' \in [Requests -> BOOLEAN]
<1>0. TypeOK /\ Placed /\ TargetInv
  BY DEF GatewayInv, QueueInv
<1>1. /\ stage'[r] = "idle"
      /\ \A q \in Requests \ {r} :
           stage'[q] = stage[q] \/ (stage[q] = "pending" /\ stage'[q] = "granted")
  BY <1>0, ReleaseEffect DEF Answered
<1>2. \A q \in Requests \ {r} : tier'[q] = tier[q]
  BY <1>0 DEF Answered, Release, TypeOK
<1>3. \A q \in Requests \ {r} : Keeps(q) /\ target'[q] = target[q]
  BY <1>0, <1>1, <1>2 DEF Keeps, Out, Answered, TargetInv
<1>4. target'[r] = None /\ Bound(r)'
  BY <1>0, <1>1 DEF Answered, TargetInv, Bound, Out
<1>5. target' \in [Requests -> Backends \cup {None}]
  BY <1>0 DEF Answered, TargetInv
<1>6. noBackend' \in [Requests -> BOOLEAN]
  BY DEF Answered, GatewayInv
<1> QED BY <1>0, <1>3, <1>4, <1>5, <1>6, KeptBound DEF TargetInv

LEMMA GatewayInvInit == GatewayInit => GatewayInv
  BY CallInvInit, QueueInvInit
     DEF GatewayInit, Init, GatewayInv, TargetInv, Bound, Out

LEMMA GatewayInvStep == GatewayInv /\ [GatewayNext]_allVars => GatewayInv'
<1> SUFFICES ASSUME GatewayInv, [GatewayNext]_allVars PROVE GatewayInv'
  OBVIOUS
<1>0. CallInv /\ QueueInv /\ TypeOK
  BY DEF GatewayInv, QueueInv
<1>1. CallInv' /\ QueueInv'
  BY <1>0, GatewayStep, QueueInvStep
<1> SUFFICES TargetInv' /\ noBackend' \in [Requests -> BOOLEAN]
  BY <1>1 DEF GatewayInv
<1>2. ASSUME NEW b \in Backends, HealthFlips(b)
      PROVE  TargetInv' /\ noBackend' \in [Requests -> BOOLEAN]
  BY <1>2 DEF HealthFlips, GatewayInv, TargetInv, Bound, vars
<1>3. ASSUME NEW r \in Requests, NEW s \in Sessions, ArriveSettled(r, s)
      PROVE  TargetInv' /\ noBackend' \in [Requests -> BOOLEAN]
  BY <1>3, HandleKeepsTargets DEF ArriveSettled
<1>4. ASSUME NEW r \in Requests, NEW s \in Sessions, ArriveAsking(r, s)
      PROVE  TargetInv' /\ noBackend' \in [Requests -> BOOLEAN]
  BY <1>4 DEF ArriveAsking, GatewayInv, TargetInv, Bound, vars
<1>5. ASSUME NEW r \in Requests, Classified(r)
      PROVE  TargetInv' /\ noBackend' \in [Requests -> BOOLEAN]
  <2>1. asking[r] \in Sessions
    BY <1>0, <1>5 DEF Classified, CallInv
  <2> QED BY <1>5, <2>1, HandleKeepsTargets DEF Classified
<1>6. ASSUME NEW r \in Requests, WaitTimesOut(r)
      PROVE  TargetInv' /\ noBackend' \in [Requests -> BOOLEAN]
  <2>1. \A q \in Requests : Keeps(q) /\ target'[q] = target[q]
    BY <1>0, <1>6 DEF WaitTimesOut, TimerFires, Keeps, Out, TypeOK, gatewayVars
  <2> QED BY <1>6, <2>1, KeptBound DEF GatewayInv, TargetInv, WaitTimesOut, gatewayVars
<1>7. CASE UNCHANGED allVars
  BY <1>7 DEF allVars, vars, gatewayVars, GatewayInv, TargetInv, Bound
<1> QED
  BY <1>2, <1>3, <1>4, <1>5, <1>6, <1>7, LeavingKeepsTargets, AnswerKeepsTargets
     DEF GatewayNext

(* Variables have their types, and a request has a backend exactly while   *)
(* it is queued or admitted.                                               *)
THEOREM GatewayTypeCorrect == GatewaySpec => []GatewayTypeOK
<1>1. GatewayInv => GatewayTypeOK
  BY GatewayAssumption
     DEF GatewayInv, CallInv, TargetInv, Bound, QueueInv, GatewayTypeOK
<1> QED BY <1>1, GatewayInvInit, GatewayInvStep, PTL DEF GatewaySpec

(* The requests at the backends of a tier are among the users of its       *)
(* slots.                                                                  *)
LEMMA LoadIsUsers ==
  ASSUME GatewayInv, NEW t \in Tiers
  PROVE  /\ Cardinality(LoadOf(t)) \in Nat /\ Balance(t) \in Nat
         /\ Cardinality(LoadOf(t)) <= Balance(t)
<1>1. LoadOf(t) \subseteq Users(t)
  BY DEF LoadOf, Users, GatewayInv, TargetInv, Bound, At, Holding, Out
<1>2. /\ value[t] \in Nat /\ IsFiniteSet(Users(t)) /\ Cardinality(Users(t)) \in Nat
      /\ Balance(t) \in Nat
  BY BalanceIsNat DEF GatewayInv, QueueInv
<1>3. IsFiniteSet(LoadOf(t)) /\ Cardinality(LoadOf(t)) <= Cardinality(Users(t))
  BY <1>1, <1>2, FS_Subset
<1>4. Cardinality(LoadOf(t)) \in Nat
  BY <1>3, FS_CardinalityType
<1> QED
  BY <1>2, <1>3, <1>4 DEF Balance

(* As long as no session is admitted at two tiers together, no more        *)
(* requests are at the backends of a tier than these are configured for.   *)
THEOREM TierLoadHolds == GatewaySpec => TierLoadIsBounded
<1>1. GatewayInv /\ NoSlotInvented => \A t \in Tiers : Cardinality(LoadOf(t)) <= TierSize(t)
  <2> SUFFICES ASSUME GatewayInv, NoSlotInvented, NEW t \in Tiers
               PROVE  Cardinality(LoadOf(t)) <= TierSize(t)
    OBVIOUS
  <2>1. Balance(t) <= Capacity[t] /\ Capacity[t] \in Nat /\ Capacity[t] = TierSize(t)
    BY AdmissionAssumption, GatewayAssumption
       DEF NoSlotInvented, Balance, Users, AdmissionAssumption
  <2> QED BY <2>1, LoadIsUsers
<1> QED
  BY <1>1, GatewayInvInit, GatewayInvStep, GatewayKeepsTiers, PTL
     DEF GatewaySpec, TiersKeepTheirSlots, TierLoadIsBounded

-----------------------------------------------------------------------------
(* The slots of both tiers together.  A release may take a user from one   *)
(* tier and give a slot to the other; the sum does not grow.               *)
TotalInv == HeldInv /\ Balance(Big) + Balance(Small) <= Capacity[Big] + Capacity[Small]

LEMMA TotalInvStep == TotalInv /\ [Next]_vars => TotalInv'
<1> SUFFICES ASSUME TotalInv, [Next]_vars PROVE TotalInv'
  OBVIOUS
<1>0. /\ HeldInv /\ QueueInv /\ TypeOK /\ Placed
      /\ Balance(Big) + Balance(Small) <= Capacity[Big] + Capacity[Small]
  BY DEF TotalInv, HeldInv, QueueInv
<1>1. HeldInv'
  BY <1>0, HeldInvStep
<1>2. Big \in Tiers /\ Small \in Tiers /\ Capacity[Big] \in Nat /\ Capacity[Small] \in Nat
  BY AdmissionAssumption, GatewayAssumption DEF AdmissionAssumption
<1>3. Balance(Big) \in Nat /\ Balance(Small) \in Nat
  BY <1>0, <1>2, BalanceIsNat
<1> SUFFICES Balance(Big)' + Balance(Small)' <= Balance(Big) + Balance(Small)
  <2>1. Balance(Big)' \in Nat /\ Balance(Small)' \in Nat
    <3>1. Users(Big)' \in SUBSET Requests /\ Users(Small)' \in SUBSET Requests
      BY DEF Users, At
    <3>2. Cardinality(Users(Big)') \in Nat /\ Cardinality(Users(Small)') \in Nat
      BY <3>1, FS_Subset, FS_CardinalityType, AdmissionAssumption DEF AdmissionAssumption
    <3>3. value'[Big] \in Nat /\ value'[Small] \in Nat
      BY <1>1, <1>2 DEF HeldInv, QueueInv, TypeOK
    <3> QED BY <3>2, <3>3 DEF Balance
  <2> QED BY <1>0, <1>1, <1>2, <1>3, <2>1 DEF TotalInv
<1>4. CASE \E q \in Requests : Gate(q) \/ TimerFires(q) \/ Resume(q)
  <2>1. Balance(Big)' = Balance(Big) /\ Balance(Small)' = Balance(Small)
    BY <1>0, <1>2, <1>4, QueueMovesSlots, MoveConserves DEF Balance
  <2> QED BY <1>3, <2>1
<1>5. ASSUME NEW r \in Requests, Release(r)
      PROVE  Balance(Big)' + Balance(Small)' <= Balance(Big) + Balance(Small)
  <2> DEFINE h == held[sess[r]]
  <2>1. Balance(Big)' = Balance(Big) + Gains(Big, h) - Gains(Big, tier[r])
    BY <1>0, <1>2, <1>5, ReleaseBalance
  <2>2. Balance(Small)' = Balance(Small) + Gains(Small, h) - Gains(Small, tier[r])
    BY <1>0, <1>2, <1>5, ReleaseBalance
  <2>3. tier[r] \in {Big, Small}
    BY <1>0, <1>5, GatewayAssumption DEF Release, Placed, Out
  <2>4. CASE Big = Small
    <3>1. Gains(Big, tier[r]) = 1 /\ Gains(Big, h) \in {0, 1}
      BY <2>3, <2>4 DEF Gains
    <3> HIDE DEF h
    <3> QED BY <1>3, <2>1, <2>2, <2>4, <3>1
  <2>5. CASE Big # Small
    <3>1. /\ Gains(Big, tier[r]) \in {0, 1} /\ Gains(Small, tier[r]) \in {0, 1}
          /\ Gains(Big, tier[r]) + Gains(Small, tier[r]) = 1
      BY <2>3, <2>5 DEF Gains
    <3>2. /\ Gains(Big, h) \in {0, 1} /\ Gains(Small, h) \in {0, 1}
          /\ Gains(Big, h) + Gains(Small, h) <= 1
      BY <2>5 DEF Gains
    <3> HIDE DEF h
    <3> QED BY <1>3, <2>1, <2>2, <3>1, <3>2
  <2> QED BY <2>4, <2>5
<1>6. CASE UNCHANGED vars
  <2>1. Balance(Big)' = Balance(Big) /\ Balance(Small)' = Balance(Small)
    BY <1>6 DEF vars, Balance, Users, At
  <2> QED BY <1>3, <2>1
<1> QED
  BY <1>4, <1>5, <1>6 DEF Next

(* However the turns of sessions overlap, at whatever tiers, the backends  *)
(* together never get more requests than they are configured for together: *)
(* a slot may move from one tier to the other or be lost, never doubled.   *)
THEOREM TotalLoadHolds == GatewaySpec => []TotalLoadIsBounded
<1>1. Init => TotalInv
  <2> SUFFICES ASSUME Init PROVE TotalInv
    OBVIOUS
  <2>1. Big \in Tiers /\ Small \in Tiers /\ Capacity[Big] \in Nat /\ Capacity[Small] \in Nat
    BY AdmissionAssumption, GatewayAssumption DEF AdmissionAssumption
  <2>2. Balance(Big) = Capacity[Big] /\ Balance(Small) = Capacity[Small]
    BY <2>1, SlotInvInit DEF SlotInv, SlotsConserved, Balance, Users
  <2> QED BY <2>1, <2>2, OverlapInvInit DEF TotalInv, OverlapInv
<1>2. GatewayInv /\ TotalInv => TotalLoadIsBounded
  <2> SUFFICES ASSUME GatewayInv, TotalInv PROVE TotalLoadIsBounded
    OBVIOUS
  <2>1. /\ Big \in Tiers /\ Small \in Tiers
        /\ Capacity[Big] = TierSize(Big) /\ Capacity[Small] = TierSize(Small)
        /\ Capacity[Big] \in Nat /\ Capacity[Small] \in Nat
    BY AdmissionAssumption, GatewayAssumption DEF AdmissionAssumption
  <2>2. /\ Cardinality(LoadOf(Big)) \in Nat /\ Balance(Big) \in Nat
        /\ Cardinality(LoadOf(Big)) <= Balance(Big)
        /\ Cardinality(LoadOf(Small)) \in Nat /\ Balance(Small) \in Nat
        /\ Cardinality(LoadOf(Small)) <= Balance(Small)
    BY <2>1, LoadIsUsers
  <2> QED BY <2>1, <2>2 DEF TotalInv, TotalLoadIsBounded
<1>3. Spec => []TotalInv
  BY <1>1, TotalInvStep, PTL DEF Spec
<1> QED
  BY <1>2, <1>3, GatewayUsesAdmission, GatewayInvInit, GatewayInvStep, PTL
     DEF GatewaySpec, AdmissionAsSpecified

(* A request is turned away for want of a backend only while no small      *)
(* backend is healthy, whatever tier was wanted and however long the       *)
(* classifier took.                                                        *)
LEMMA TurnedAwayMeansDown ==
  ASSUME GatewayInv, NEW r \in Requests, NEW s, NEW w \in Tiers \cup {AnyTier},
         Handle(r, s, w), NEW q \in Requests, ~noBackend[q], noBackend'[q]
  PROVE  HealthyIn(Small) = {}
<1>1. CASE HealthyIn(TierFor(w)) = {} /\ Unavailable(r)
  BY <1>1 DEF TierFor, Other
<1>2. CASE \E b \in HealthyIn(TierFor(w)) : EnterGate(r, s, TierFor(w), b)
  <2>1. noBackend' = [noBackend EXCEPT ![r] = FALSE]
    BY <1>2 DEF EnterGate
  <2> QED
    BY <2>1 DEF GatewayInv
<1> QED
  BY <1>1, <1>2 DEF Handle

THEOREM OnlyOutagesTurnAway == GatewaySpec => UnavailableMeansDown
<1>1. ASSUME GatewayInv, GatewayNext, NEW q \in Requests, ~noBackend[q], noBackend'[q]
      PROVE  HealthyIn(Small) = {}
  <2>1. ASSUME NEW r \in Requests, NEW s \in Sessions, ArriveSettled(r, s)
        PROVE  HealthyIn(Small) = {}
    BY <1>1, <2>1, TurnedAwayMeansDown DEF ArriveSettled
  <2>2. ASSUME NEW r \in Requests, Classified(r)
        PROVE  HealthyIn(Small) = {}
    BY <1>1, <2>2, TurnedAwayMeansDown DEF Classified
  <2>3. ASSUME NEW r \in Requests, NEW s \in Sessions, ArriveAsking(r, s)
        PROVE  FALSE
    BY <1>1, <2>3 DEF ArriveAsking, GatewayInv
  <2>4. ASSUME NEW r \in Requests, WaitTimesOut(r) \/ LeavesQueue(r) \/ Answered(r)
        PROVE  FALSE
    BY <1>1, <2>4 DEF WaitTimesOut, LeavesQueue, Answered, gatewayVars
  <2>5. ASSUME NEW b \in Backends, HealthFlips(b)
        PROVE  FALSE
    BY <1>1, <2>5 DEF HealthFlips
  <2> QED
    BY <1>1, <2>1, <2>2, <2>3, <2>4, <2>5 DEF GatewayNext
<1>2. GatewayInv /\ [GatewayNext]_allVars =>
        [\A r \in Requests : ~noBackend[r] /\ noBackend'[r] => HealthyIn(Small) = {}]_allVars
  BY <1>1
<1> QED
  BY <1>2, GatewayInvInit, GatewayInvStep, PTL DEF GatewaySpec, UnavailableMeansDown
=============================================================================
