---------------------------- MODULE HealthProofs ----------------------------
(***************************************************************************)
(* Theorems about Health for every set of backends, every pair of          *)
(* thresholds and every number of overlapping probes; and about Failover,  *)
(* which composes it with the traffic, for every set of sessions and       *)
(* requests besides.                                                       *)
(***************************************************************************)
EXTENDS Failover, NaturalsInduction, WellFoundedInduction, TLAPS

(* Probes whose snapshot does not say "healthy": only these can fail and   *)
(* leave a HEALTHY backend in the pool.                                    *)
Stale(b) == probes[b]["degraded"] + probes[b]["down"]

(* Every failure that a HEALTHY backend has on its count used up a stale   *)
(* probe, and all of them were in flight when it became HEALTHY.           *)
PoolInv ==
  /\ TypeOK
  /\ \A b \in Backends :
       /\ InFlight(b) <= MaxOverlap[b]
       /\ status[b] = "healthy" => fails[b] + Stale(b) < MaxOverlap[b]

(* With one probe at a time every snapshot is current. *)
AgreeInv ==
  /\ PoolInv
  /\ \A b \in Backends : MaxOverlap[b] = 1 =>
       /\ \A s \in Statuses : probes[b][s] > 0 => s = status[b]
       /\ fails[b] = 0 \/ succs[b] = 0
       /\ status[b] = Verdict(b)

-----------------------------------------------------------------------------
(* The registry and the counters after a probe of b with snapshot snap. *)
LEMMA ConcludeEffect ==
  ASSUME TypeOK, NEW b \in Backends, NEW snap \in Statuses, probes[b][snap] > 0,
         NEW verdict \in Statuses, Conclude(b, snap, verdict)
  PROVE  /\ status' \in [Backends -> Statuses]
         /\ probes' \in [Backends -> [Statuses -> Nat]]
         /\ status'[b] = IF verdict # snap THEN verdict ELSE status[b]
         /\ probes'[b][snap] = probes[b][snap] - 1
         /\ \A s \in Statuses \ {snap} : probes'[b][s] = probes[b][s]
         /\ \A c \in Backends \ {b} : probes'[c] = probes[c] /\ status'[c] = status[c]
<1>1. probes[b] \in [Statuses -> Nat]
  BY DEF TypeOK
<1>2. probes[b][snap] - 1 \in Nat
  BY <1>1
<1>3. probes' = [probes EXCEPT ![b] = [probes[b] EXCEPT ![snap] = probes[b][snap] - 1]]
  BY DEF Conclude
<1>4. [probes[b] EXCEPT ![snap] = probes[b][snap] - 1] \in [Statuses -> Nat]
  BY <1>1, <1>2
<1>5. /\ probes'[b] = [probes[b] EXCEPT ![snap] = probes[b][snap] - 1]
      /\ probes' \in [Backends -> [Statuses -> Nat]]
      /\ \A c \in Backends \ {b} : probes'[c] = probes[c]
  BY <1>3, <1>4 DEF TypeOK
<1>6. /\ probes'[b][snap] = probes[b][snap] - 1
      /\ \A s \in Statuses \ {snap} : probes'[b][s] = probes[b][s]
  BY <1>1, <1>5
<1>7. /\ status' \in [Backends -> Statuses]
      /\ status'[b] = IF verdict # snap THEN verdict ELSE status[b]
      /\ \A c \in Backends \ {b} : status'[c] = status[c]
  BY DEF Conclude, TypeOK
<1> QED
  BY <1>5, <1>6, <1>7

LEMMA PoolInvInit == Init => PoolInv
BY HealthAssumption DEF HealthAssumption, Init, PoolInv, TypeOK, Statuses, InFlight, Stale

LEMMA PoolInvStep == PoolInv /\ [Next]_vars => PoolInv'
<1> SUFFICES ASSUME PoolInv, [Next]_vars PROVE PoolInv'
  OBVIOUS
<1> USE HealthAssumption DEF HealthAssumption
<1>0. TypeOK
  BY DEF PoolInv
<1>1. CASE ProbeRound
  <2>1. \A b \in Backends : status[b] \in Statuses /\ probes[b] \in [Statuses -> Nat]
    BY <1>0 DEF TypeOK
  <2>2. \A b \in Backends : probes'[b] = [probes[b] EXCEPT ![status[b]] = @ + 1]
    BY <1>1 DEF ProbeRound
  <2>3. TypeOK'
    BY <1>0, <1>1, <2>1 DEF ProbeRound, TypeOK
  <2>4. ASSUME NEW b \in Backends
        PROVE  /\ InFlight(b)' <= MaxOverlap[b]
               /\ status'[b] = "healthy" => fails'[b] + Stale(b)' < MaxOverlap[b]
    <3>1. InFlight(b) < MaxOverlap[b] /\ MaxOverlap[b] \in Nat
      BY <1>1 DEF ProbeRound
    <3>2. InFlight(b)' = InFlight(b) + 1
      <4>1. /\ probes'[b][status[b]] = probes[b][status[b]] + 1
            /\ \A s \in Statuses \ {status[b]} : probes'[b][s] = probes[b][s]
        BY <2>1, <2>2
      <4>2. /\ probes[b]["healthy"] \in Nat /\ probes[b]["degraded"] \in Nat
            /\ probes[b]["down"] \in Nat
        BY <2>1 DEF Statuses
      <4>3. status[b] \in {"healthy", "degraded", "down"}
        BY <2>1 DEF Statuses
      <4> QED
        BY <4>1, <4>2, <4>3 DEF InFlight, Statuses
    <3>3. status'[b] = "healthy" => fails'[b] + Stale(b)' = fails[b] + Stale(b)
      BY <1>1, <2>1, <2>2 DEF ProbeRound, Stale, Statuses
    <3>4. InFlight(b) \in Int
      BY <2>1 DEF InFlight, Statuses
    <3> QED
      BY <1>1, <3>1, <3>2, <3>3, <3>4 DEF PoolInv, ProbeRound
  <2> QED
    BY <2>3, <2>4 DEF PoolInv
<1>2. ASSUME NEW b \in Backends, NEW snap \in Statuses, ProbeOk(b, snap)
      PROVE  PoolInv'
  <2>1. /\ probes[b][snap] > 0
        /\ SuccessVerdict(succs[b] + 1) \in Statuses
        /\ Conclude(b, snap, SuccessVerdict(succs[b] + 1))
    BY <1>2 DEF ProbeOk, SuccessVerdict, Statuses
  <2>2. TypeOK'
    BY <1>0, <1>2, <2>1, ConcludeEffect DEF ProbeOk, TypeOK, OneMore
  <2>3. \A c \in Backends \ {b} :
          /\ probes'[c] = probes[c] /\ status'[c] = status[c] /\ fails'[c] = fails[c]
    BY <1>0, <1>2, <2>1, ConcludeEffect DEF ProbeOk, TypeOK
  <2>4. fails'[b] = 0 /\ fails[b] \in Nat
    BY <1>0, <1>2 DEF ProbeOk, TypeOK
  <2>5. /\ InFlight(b)' = InFlight(b) - 1
        /\ 0 <= Stale(b)' /\ Stale(b)' <= Stale(b)
        /\ Stale(b)' <= InFlight(b)' /\ InFlight(b) \in Int
        /\ status'[b] = status[b] \/ InFlight(b)' < MaxOverlap[b]
    <3>1. /\ probes[b]["healthy"] \in Nat /\ probes[b]["degraded"] \in Nat
          /\ probes[b]["down"] \in Nat
          /\ probes'[b]["healthy"] \in Nat /\ probes'[b]["degraded"] \in Nat
          /\ probes'[b]["down"] \in Nat
      BY <1>0, <2>2 DEF TypeOK, Statuses
    <3>2. /\ probes'[b][snap] = probes[b][snap] - 1
          /\ \A s \in Statuses \ {snap} : probes'[b][s] = probes[b][s]
      BY <1>0, <2>1, ConcludeEffect
    <3>3. InFlight(b) <= MaxOverlap[b] /\ MaxOverlap[b] \in Nat
      BY DEF PoolInv
    <3> QED
      BY <3>1, <3>2, <3>3 DEF InFlight, Stale, Statuses
  <2>6. /\ InFlight(b)' <= MaxOverlap[b]
        /\ status'[b] = "healthy" => fails'[b] + Stale(b)' < MaxOverlap[b]
    <3>1. InFlight(b) <= MaxOverlap[b] /\ MaxOverlap[b] \in Nat
      BY DEF PoolInv
    <3>2. status[b] = "healthy" => fails[b] + Stale(b) < MaxOverlap[b]
      BY DEF PoolInv
    <3>3. Stale(b) \in Int /\ Stale(b)' \in Int
      BY <1>0, <2>2 DEF Stale, TypeOK, Statuses
    <3> QED
      BY <2>4, <2>5, <3>1, <3>2, <3>3
  <2> QED
    BY <2>2, <2>3, <2>6 DEF PoolInv, InFlight, Stale
<1>3. ASSUME NEW b \in Backends, NEW snap \in Statuses, ProbeFails(b, snap)
      PROVE  PoolInv'
  <2>1. /\ probes[b][snap] > 0
        /\ FailureVerdict(fails[b] + 1) \in Statuses \ {"healthy"}
        /\ Conclude(b, snap, FailureVerdict(fails[b] + 1))
    BY <1>3 DEF ProbeFails, FailureVerdict, Statuses
  <2>2. TypeOK'
    BY <1>0, <1>3, <2>1, ConcludeEffect DEF ProbeFails, TypeOK, OneMore
  <2>3. \A c \in Backends \ {b} :
          /\ probes'[c] = probes[c] /\ status'[c] = status[c] /\ fails'[c] = fails[c]
    BY <1>0, <1>3, <2>1, ConcludeEffect DEF ProbeFails, TypeOK
  <2>4. fails'[b] \in Nat /\ fails[b] \in Nat /\ fails'[b] <= fails[b] + 1
    BY <1>0, <1>3, <2>2 DEF ProbeFails, TypeOK, OneMore
  <2>5. status'[b] = "healthy" => status[b] = "healthy" /\ snap # "healthy"
    BY <1>0, <2>1, ConcludeEffect
  <2>6. /\ InFlight(b)' = InFlight(b) - 1 /\ InFlight(b) \in Int
        /\ Stale(b) \in Int /\ Stale(b)' \in Int
        /\ snap # "healthy" => Stale(b)' = Stale(b) - 1
    <3>1. /\ probes[b]["healthy"] \in Nat /\ probes[b]["degraded"] \in Nat
          /\ probes[b]["down"] \in Nat
          /\ probes'[b]["healthy"] \in Nat /\ probes'[b]["degraded"] \in Nat
          /\ probes'[b]["down"] \in Nat
      BY <1>0, <2>2 DEF TypeOK, Statuses
    <3>2. /\ probes'[b][snap] = probes[b][snap] - 1
          /\ \A s \in Statuses \ {snap} : probes'[b][s] = probes[b][s]
      BY <1>0, <2>1, ConcludeEffect
    <3> QED
      BY <3>1, <3>2 DEF InFlight, Stale, Statuses
  <2>7. /\ InFlight(b)' <= MaxOverlap[b]
        /\ status'[b] = "healthy" => fails'[b] + Stale(b)' < MaxOverlap[b]
    <3>1. InFlight(b) <= MaxOverlap[b] /\ MaxOverlap[b] \in Nat
      BY DEF PoolInv
    <3>2. status[b] = "healthy" => fails[b] + Stale(b) < MaxOverlap[b]
      BY DEF PoolInv
    <3> QED
      BY <2>4, <2>5, <2>6, <3>1, <3>2
  <2> QED
    BY <2>2, <2>3, <2>7 DEF PoolInv, InFlight, Stale
<1>4. ASSUME NEW b \in Backends, ServerFlips(b)
      PROVE  PoolInv'
  BY <1>4 DEF ServerFlips, PoolInv, TypeOK, InFlight, Stale
<1>5. CASE UNCHANGED vars
  BY <1>5 DEF vars, PoolInv, TypeOK, InFlight, Stale
<1> QED
  BY <1>1, <1>2, <1>3, <1>4, <1>5 DEF Next, ProbeReturns

(* Statuses and counters keep their ranges. *)
THEOREM HealthTypeCorrect == Spec => []TypeOK
BY PoolInvInit, PoolInvStep, PTL DEF Spec, PoolInv

(* A backend in the pool has fewer failures in a row than probes that can  *)
(* be in flight; in particular none when probes do not overlap.            *)
THEOREM PoolFailuresAreFew == Spec => []FewFailuresInPool
<1>1. PoolInv => FewFailuresInPool
  <2> SUFFICES ASSUME PoolInv, NEW b \in Backends, status[b] = "healthy"
               PROVE  fails[b] < MaxOverlap[b]
    BY DEF FewFailuresInPool
  <2>1. fails[b] + Stale(b) < MaxOverlap[b] /\ MaxOverlap[b] \in Nat
    BY HealthAssumption DEF PoolInv, HealthAssumption
  <2>2. Stale(b) \in Nat /\ fails[b] \in Nat
    BY DEF PoolInv, TypeOK, Stale, Statuses
  <2> QED
    BY <2>1, <2>2
<1> QED
  BY <1>1, PoolInvInit, PoolInvStep, PTL DEF Spec

-----------------------------------------------------------------------------
LEMMA AgreeInvInit == Init => AgreeInv
BY PoolInvInit, HealthAssumption
   DEF HealthAssumption, Init, AgreeInv, Verdict, Statuses

(* What a returning probe does when no other one is in flight: the write   *)
(* is skipped only if the registry already holds the verdict.              *)
LEMMA LoneProbe ==
  ASSUME TypeOK, NEW b \in Backends, InFlight(b) <= 1,
         NEW snap \in Statuses, probes[b][snap] > 0, snap = status[b],
         NEW verdict \in Statuses, Conclude(b, snap, verdict)
  PROVE  status'[b] = verdict /\ \A s \in Statuses : probes'[b][s] = 0
<1>1. /\ status'[b] = IF verdict # snap THEN verdict ELSE status[b]
      /\ probes'[b][snap] = probes[b][snap] - 1
      /\ \A s \in Statuses \ {snap} : probes'[b][s] = probes[b][s]
  BY ConcludeEffect
<1>2. /\ probes[b]["healthy"] \in Nat /\ probes[b]["degraded"] \in Nat
      /\ probes[b]["down"] \in Nat
  BY DEF TypeOK, Statuses
<1>3. probes[b][snap] = 1 /\ \A s \in Statuses \ {snap} : probes[b][s] = 0
  <2>1. probes[b]["healthy"] + probes[b]["degraded"] + probes[b]["down"] <= 1
    BY DEF InFlight
  <2>2. CASE snap = "healthy"
    BY <1>2, <2>1, <2>2 DEF Statuses
  <2>3. CASE snap = "degraded"
    BY <1>2, <2>1, <2>3 DEF Statuses
  <2>4. CASE snap = "down"
    BY <1>2, <2>1, <2>4 DEF Statuses
  <2> QED
    BY <2>2, <2>3, <2>4 DEF Statuses
<1> QED
  BY <1>1, <1>3

LEMMA AgreeInvStep == AgreeInv /\ [Next]_vars => AgreeInv'
<1> SUFFICES ASSUME AgreeInv, [Next]_vars PROVE AgreeInv'
  OBVIOUS
<1> USE HealthAssumption DEF HealthAssumption
<1> DEFINE Agrees(b) == /\ \A s \in Statuses : probes[b][s] > 0 => s = status[b]
                        /\ fails[b] = 0 \/ succs[b] = 0
                        /\ status[b] = Verdict(b)
<1>0. PoolInv /\ TypeOK /\ PoolInv'
  BY PoolInvStep DEF AgreeInv, PoolInv
<1>1. SUFFICES ASSUME NEW b \in Backends, MaxOverlap[b] = 1, Agrees(b)
               PROVE  Agrees(b)'
  BY <1>0 DEF AgreeInv
<1>2. CASE ProbeRound
  <2>1. InFlight(b) < 1
    BY <1>1, <1>2 DEF ProbeRound
  <2>2. \A s \in Statuses : probes[b][s] = 0
    <3>1. /\ probes[b]["healthy"] \in Nat /\ probes[b]["degraded"] \in Nat
          /\ probes[b]["down"] \in Nat
      BY <1>0 DEF TypeOK, Statuses
    <3>2. probes[b]["healthy"] + probes[b]["degraded"] + probes[b]["down"] < 1
      BY <2>1 DEF InFlight
    <3>3. probes[b]["healthy"] = 0 /\ probes[b]["degraded"] = 0 /\ probes[b]["down"] = 0
      BY <3>1, <3>2
    <3> QED
      BY <3>3 DEF Statuses
  <2>3. probes'[b] = [probes[b] EXCEPT ![status[b]] = @ + 1]
    BY <1>2 DEF ProbeRound
  <2>4. \A s \in Statuses : probes'[b][s] > 0 => s = status[b]
    BY <1>0, <2>2, <2>3 DEF TypeOK
  <2>5. status'[b] = status[b] /\ fails'[b] = fails[b] /\ succs'[b] = succs[b]
    BY <1>2 DEF ProbeRound
  <2> QED
    BY <1>1, <2>4, <2>5 DEF Verdict
<1>3. ASSUME NEW c \in Backends, NEW snap \in Statuses,
             ProbeOk(c, snap) \/ ProbeFails(c, snap), c # b
      PROVE  Agrees(b)'
  <2>1. probes'[b] = probes[b] /\ status'[b] = status[b]
    BY <1>0, <1>3 DEF ProbeOk, ProbeFails, Conclude, TypeOK
  <2>2. fails'[b] = fails[b] /\ succs'[b] = succs[b]
    BY <1>0, <1>3 DEF ProbeOk, ProbeFails, TypeOK
  <2> QED
    BY <1>1, <2>1, <2>2 DEF Verdict
<1>4. ASSUME NEW snap \in Statuses, ProbeOk(b, snap)
      PROVE  Agrees(b)'
  <2>1. /\ probes[b][snap] > 0 /\ snap = status[b] /\ InFlight(b) <= 1
        /\ SuccessVerdict(succs[b] + 1) \in Statuses
        /\ Conclude(b, snap, SuccessVerdict(succs[b] + 1))
    BY <1>0, <1>1, <1>4 DEF ProbeOk, SuccessVerdict, Statuses, PoolInv
  <2>2. /\ status'[b] = SuccessVerdict(succs[b] + 1)
        /\ \A s \in Statuses : probes'[b][s] = 0
    BY <1>0, <2>1, LoneProbe
  <2>3. fails'[b] = 0 /\ succs'[b] = OneMore(succs[b], SuccessesToUp)
    BY <1>0, <1>4 DEF ProbeOk, TypeOK
  <2>4. succs[b] \in 0..SuccessesToUp
    BY <1>0 DEF TypeOK
  <2>5. SuccessVerdict(succs[b] + 1) = Verdict(b)'
    BY <2>3, <2>4 DEF SuccessVerdict, Verdict, OneMore
  <2> QED
    BY <2>2, <2>3, <2>5
<1>5. ASSUME NEW snap \in Statuses, ProbeFails(b, snap)
      PROVE  Agrees(b)'
  <2>1. /\ probes[b][snap] > 0 /\ snap = status[b] /\ InFlight(b) <= 1
        /\ FailureVerdict(fails[b] + 1) \in Statuses
        /\ Conclude(b, snap, FailureVerdict(fails[b] + 1))
    BY <1>0, <1>1, <1>5 DEF ProbeFails, FailureVerdict, Statuses, PoolInv
  <2>2. /\ status'[b] = FailureVerdict(fails[b] + 1)
        /\ \A s \in Statuses : probes'[b][s] = 0
    BY <1>0, <2>1, LoneProbe
  <2>3. succs'[b] = 0 /\ fails'[b] = OneMore(fails[b], FailuresToDown)
    BY <1>0, <1>5 DEF ProbeFails, TypeOK
  <2>4. fails[b] \in 0..FailuresToDown
    BY <1>0 DEF TypeOK
  <2>5. FailureVerdict(fails[b] + 1) = Verdict(b)'
    BY <2>3, <2>4 DEF FailureVerdict, Verdict, OneMore
  <2> QED
    BY <2>2, <2>3, <2>5
<1>6. ASSUME NEW c \in Backends, ServerFlips(c)
      PROVE  Agrees(b)'
  BY <1>1, <1>6 DEF ServerFlips, Verdict
<1>7. CASE UNCHANGED vars
  BY <1>1, <1>7 DEF vars, Verdict
<1> QED
  BY <1>2, <1>3, <1>4, <1>5, <1>6, <1>7 DEF Next, ProbeReturns

(* A backend whose probes do not overlap always has the status hysteresis  *)
(* prescribes, although writes are skipped against a snapshot.             *)
THEOREM RegistryIsCurrent == Spec => []RegistryAgrees
<1>1. AgreeInv => RegistryAgrees
  BY DEF AgreeInv, RegistryAgrees
<1> QED
  BY <1>1, AgreeInvInit, AgreeInvStep, PTL DEF Spec

-----------------------------------------------------------------------------
(* The composition.  Traffic reads the registry and never writes it, so    *)
(* every step is one of the health checker or leaves its variables alone.  *)
LEMMA FailoverStep == [FailoverNext]_allVars => [Next]_vars
<1> SUFFICES ASSUME [FailoverNext]_allVars PROVE [Next]_vars
  OBVIOUS
<1>1. CASE HealthStep
  BY <1>1 DEF HealthStep, Next
<1>2. CASE Tick
  BY <1>2 DEF Tick
<1>3. ASSUME NEW s \in Sessions, TurnElsewhere(s) \/ \E r \in Requests : Turn(r, s)
      PROVE  UNCHANGED vars
  BY <1>3 DEF TurnElsewhere, Turn
<1>4. ASSUME NEW r \in Requests, LeavesQueue(r) \/ Answered(r)
      PROVE  UNCHANGED vars
  BY <1>4 DEF LeavesQueue, Answered
<1>5. CASE UNCHANGED allVars
  BY <1>5 DEF allVars
<1> QED
  BY <1>1, <1>2, <1>3, <1>4, <1>5 DEF FailoverNext

(* Under any traffic, the health checker behaves as Health says ...        *)
THEOREM FailoverUsesHealth == FailoverSpec => Spec
<1>1. FailoverInit => Init
  BY DEF FailoverInit
<1> QED
  BY <1>1, FailoverStep, PTL DEF FailoverSpec, Spec

(* ... so a turn never goes to a backend with as many failures in a row as *)
(* probes may be in flight.                                                *)
THEOREM FailoverPoolFailuresAreFew == FailoverSpec => []FewFailuresInPool
BY FailoverUsesHealth, PoolFailuresAreFew, PTL

(* Rendezvous hashing picks one of the candidates: the scores of a session *)
(* are bounded, so one of them is highest.                                 *)
LEMMA WinnerIsCandidate ==
  ASSUME NEW s \in Sessions, NEW candidates \in SUBSET Backends, candidates # {}
  PROVE  HRW!Winner(s, candidates) \in candidates
<1> DEFINE Gap(b) == MaxScore - Score[s][b]
           Gaps   == {Gap(b) : b \in candidates}
<1>1. \A b \in candidates : Score[s][b] \in 0..MaxScore /\ Gap(b) \in Nat
  BY FailoverAssumption DEF FailoverAssumption
<1>2. Gaps \subseteq Nat /\ Gaps # {}
  BY <1>1
<1>3. PICK b \in candidates : \A y \in Gaps : <<y, Gap(b)>> \notin OpToRel(<, Nat)
  <2>1. \E x \in Gaps : \A y \in Gaps : <<y, x>> \notin OpToRel(<, Nat)
    <3> HIDE DEF Gaps
    <3> QED
      BY <1>2, WFMin, NatLessThanWellFounded
  <2> QED
    BY <2>1
<1>4. ASSUME NEW c \in candidates PROVE Score[s][c] <= Score[s][b]
  <2>1. Gap(c) \in Nat /\ Gap(b) \in Nat /\ <<Gap(c), Gap(b)>> \notin OpToRel(<, Nat)
    BY <1>1, <1>3
  <2>2. ~(Gap(c) < Gap(b))
    <3> HIDE DEF Gap
    <3> QED
      BY <2>1 DEF OpToRel
  <2>3. Score[s][c] \in Int /\ Score[s][b] \in Int /\ MaxScore \in Int
    BY <1>1, FailoverAssumption DEF FailoverAssumption
  <2> QED
    BY <2>2, <2>3
<1>5. HRW!Wins(s, b, candidates)
  BY <1>4 DEF HRW!Wins
<1> QED
  BY <1>5 DEF HRW!Winner

(* A binding, and a request, gets a backend of this tier or Elsewhere, and *)
(* a request has a backend exactly while it is in the gateway.             *)
FailoverInv == PoolInv /\ FailoverTypeOK

LEMMA FailoverInvInit == FailoverInit => FailoverInv
BY PoolInvInit DEF FailoverInit, FailoverInv, FailoverTypeOK, PoolInv

LEMMA ChosenIsBackend ==
  ASSUME NEW s \in Sessions, Candidates # {}
  PROVE  Chosen(s) \in Backends
<1>1. Candidates \in SUBSET Backends
  BY DEF Candidates
<1>2. HRW!Winner(s, Candidates) \in Candidates
  BY <1>1, WinnerIsCandidate
<1> QED
  BY <1>1, <1>2 DEF Chosen, Usable

LEMMA BindKeepsTypes ==
  ASSUME FailoverTypeOK, NEW s \in Sessions, NEW b \in Backends \cup {Elsewhere}, Bind(s, b)
  PROVE  sticky' \in [Sessions -> Entries \cup {None}]
<1>1. [backend |-> b, left |-> Ttl] \in Entries
  BY FailoverAssumption DEF FailoverAssumption, Entries
<1> QED
  BY <1>1 DEF Bind, FailoverTypeOK

LEMMA FailoverInvStep == FailoverInv /\ [FailoverNext]_allVars => FailoverInv'
<1> SUFFICES ASSUME FailoverInv, [FailoverNext]_allVars PROVE FailoverInv'
  OBVIOUS
<1> USE FailoverAssumption DEF FailoverAssumption
<1>0. PoolInv' /\ TypeOK'
  BY FailoverStep, PoolInvStep DEF FailoverInv, PoolInv
<1> USE DEF FailoverInv, FailoverTypeOK
<1>1. CASE HealthStep
  BY <1>0, <1>1 DEF HealthStep, traffic
<1>2. CASE Tick
  <2>1. ASSUME NEW s \in Sessions
        PROVE  (IF Live(s) THEN [sticky[s] EXCEPT !.left = @ - 1] ELSE sticky[s])
                 \in Entries \cup {None}
    <3>1. CASE Live(s)
      <4>1. sticky[s] \in Entries /\ sticky[s].left > 0
        BY <3>1 DEF Live
      <4>2. /\ sticky[s].backend \in Backends \cup {Elsewhere}
            /\ sticky[s].left - 1 \in 0..Ttl
            /\ [sticky[s] EXCEPT !.left = @ - 1]
                 = [backend |-> sticky[s].backend, left |-> sticky[s].left - 1]
        BY <4>1 DEF Entries
      <4>3. [sticky[s] EXCEPT !.left = @ - 1] \in Entries
        BY <4>2 DEF Entries
      <4> QED
        BY <3>1, <4>3
    <3> QED
      BY <3>1
  <2> QED
    BY <1>0, <1>2, <2>1 DEF Tick
<1>3. ASSUME NEW s \in Sessions, TurnElsewhere(s) PROVE FailoverInv'
  BY <1>0, <1>3, BindKeepsTypes DEF TurnElsewhere
<1>4. ASSUME NEW s \in Sessions, NEW r \in Requests, Turn(r, s) PROVE FailoverInv'
  <2>1. Chosen(s) \in Backends /\ Bind(s, Chosen(s))
    BY <1>4, ChosenIsBackend DEF Turn
  <2>2. sticky' \in [Sessions -> Entries \cup {None}]
    BY <2>1, BindKeepsTypes
  <2>3. CASE UNCHANGED <<stage, target>>
    BY <1>0, <2>2, <2>3
  <2>4. CASE /\ \E where \in {"queued", "sent"} : stage' = [stage EXCEPT ![r] = where]
             /\ target' = [target EXCEPT ![r] = Chosen(s)]
    BY <1>0, <2>1, <2>2, <2>4
  <2> QED
    BY <1>4, <2>3, <2>4 DEF Turn
<1>5. ASSUME NEW r \in Requests, LeavesQueue(r) \/ Answered(r) PROVE FailoverInv'
  BY <1>0, <1>5 DEF LeavesQueue, Answered
<1>6. CASE UNCHANGED allVars
  BY <1>0, <1>6 DEF allVars, traffic
<1> QED
  BY <1>1, <1>2, <1>3, <1>4, <1>5, <1>6 DEF FailoverNext

THEOREM FailoverTypeCorrect == FailoverSpec => []FailoverTypeOK
BY FailoverInvInit, FailoverInvStep, PTL DEF FailoverSpec, FailoverInv
=============================================================================
