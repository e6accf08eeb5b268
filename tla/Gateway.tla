------------------------------ MODULE Gateway ------------------------------
(***************************************************************************)
(* The handler of POST /v1/chat/completions (gateway/routes/chat.py) over  *)
(* the admission layer: route, pick a backend, gate, call the backend,     *)
(* release.  It extends Admission; its steps carry the admission steps out *)
(* in the order and at the moments the handler does.                       *)
(*                                                                         *)
(* The handler suspends at three places: the classifier's HTTP call, the   *)
(* queue, and the backend's HTTP call.  What lies between two of them is   *)
(* one action, in particular all of the code from the router's result to   *)
(* the semaphore.                                                          *)
(*                                                                         *)
(* Router and scheduler appear through what Routing and Affinity show of   *)
(* them: any tier may be wanted, and the backend is any of the candidates. *)
(***************************************************************************)
EXTENDS Admission, FiniteSetsExt

CONSTANTS
  Big, Small,   \* the two tiers
  AnyTier,      \* Tier.AUTO, which the classifier may reply and no backend has
  Backends,     \* the configured backends
  TierOf,       \* TierOf[b]: BackendInfo.tier
  MaxInflight   \* MaxInflight[b]: BackendInfo.max_inflight

(* _total_inflight, and the size of the queue it gives. *)
TierTotal(t) == MapThenSumSet(LAMBDA b : MaxInflight[b], {b \in Backends : TierOf[b] = t})
TierSize(t)  == IF TierTotal(t) = 0 THEN 1 ELSE TierTotal(t)

ASSUME GatewayAssumption ==
  /\ Tiers = {Big, Small}
  /\ AnyTier \notin Tiers
  /\ None \notin Backends
  /\ TierOf \in [Backends -> Tiers]
  /\ MaxInflight \in [Backends -> Nat]
  /\ \A t \in Tiers : Capacity[t] = TierSize(t)

VARIABLES
  up,        \* the backends the registry reports HEALTHY
  asking,    \* asking[r]: the session of r while it awaits the classifier, or None
  target,    \* target[r]: the backend of r while it is queued or admitted, or None
  noBackend  \* noBackend[r]: the last request of handle r was turned away for
             \* want of a backend (BackendUnavailableException)

gatewayVars == <<up, asking, target, noBackend>>
allVars     == <<vars, gatewayVars>>

GatewayTypeOK ==
  /\ TypeOK
  /\ up \subseteq Backends
  /\ asking \in [Requests -> Sessions \cup {None}]
  /\ target \in [Requests -> Backends \cup {None}]
  /\ \A r \in Requests : target[r] = None <=> stage[r] \in Out
  /\ noBackend \in [Requests -> BOOLEAN]

(* Start of the gateway: every backend is configured HEALTHY, and the      *)
(* queues are sized by what is healthy then.                               *)
GatewayInit ==
  /\ Init
  /\ up = Backends
  /\ asking = [r \in Requests |-> None]
  /\ target = [r \in Requests |-> None]
  /\ noBackend = [r \in Requests |-> FALSE]

HealthyIn(t) == {b \in up : TierOf[b] = t}

(* The health checker changes its mind about b. *)
HealthFlips(b) ==
  /\ up' = IF b \in up THEN up \ {b} ELSE up \cup {b}
  /\ UNCHANGED <<vars, asking, target, noBackend>>

-----------------------------------------------------------------------------
Other(w) == IF w = Small THEN Big ELSE Small

(* Mutation of TierFor: no fallback. *)
TierForAsWanted(w) == w

(* The tier of the decision, when w is wanted: see Routing!Settled. *)
TierFor(w) == IF HealthyIn(w) = {} THEN IF HealthyIn(Other(w)) = {} THEN w ELSE Other(w)
                                   ELSE w

(* The request ends inside the handler with nothing acquired. *)
Unavailable(r) ==
  /\ noBackend' = [noBackend EXCEPT ![r] = TRUE]
  /\ UNCHANGED <<vars, target>>

(* gate() is called for tier t and the backend b that was picked.  It      *)
(* returns, raises, or leaves the request queued.                          *)
EnterGate(r, s, t, b) ==
  /\ \/ /\ GateRefused(r, s, t) \/ GateQueueFull(r, s, t)
        /\ UNCHANGED target
     \/ /\ GateAtOnce(r, s, t) \/ GateWaits(r, s, t)
        /\ target' = [target EXCEPT ![r] = b]
  /\ noBackend' = [noBackend EXCEPT ![r] = FALSE]

(* Mutation of Handle: the slot is taken on the tier first wanted. *)
HandleOnWantedTier(r, s, w) ==
  LET t == TierFor(w)
  IN  \/ HealthyIn(t) = {} /\ Unavailable(r)
      \/ \E b \in HealthyIn(t) : EnterGate(r, s, IF w = AnyTier THEN t ELSE w, b)

(* chat_completions from the router's result, which wanted tier w, to the  *)
(* end or the queue.                                                       *)
Handle(r, s, w) ==
  LET t == TierFor(w)
  IN  \/ HealthyIn(t) = {} /\ Unavailable(r)
      \/ \E b \in HealthyIn(t) : EnterGate(r, s, t, b)

(* Handle r has no request in the gateway. *)
Free(r) == asking[r] = None /\ stage[r] \in Out

(* Unless sessions overlap, a client sends one turn at a time. *)
MayCall(s) == Overlapping \/ \A q \in Requests : s \notin {sess[q], asking[q]}

(* A request whose tier a rule or the classifier's cache settles at once.  *)
ArriveSettled(r, s) ==
  /\ Free(r) /\ MayCall(s)
  /\ \E w \in Tiers \cup {AnyTier} : Handle(r, s, w)
  /\ UNCHANGED <<up, asking>>

(* A request for which a small backend is asked. *)
ArriveAsking(r, s) ==
  /\ Free(r) /\ MayCall(s)
  /\ HealthyIn(Small) # {}
  /\ asking' = [asking EXCEPT ![r] = s]
  /\ noBackend' = [noBackend EXCEPT ![r] = FALSE]
  /\ UNCHANGED <<vars, up, target>>

(* The classifier's call returns or fails. *)
Classified(r) ==
  /\ asking[r] # None
  /\ \E w \in Tiers \cup {AnyTier} : Handle(r, asking[r], w)
  /\ asking' = [asking EXCEPT ![r] = None]
  /\ UNCHANGED up

WaitTimesOut(r) == TimerFires(r) /\ UNCHANGED gatewayVars

(* Mutation of LeavesQueue: a refused request keeps its backend. *)
LeavesQueueBound(r) ==
  \/ ResumeGranted(r) /\ UNCHANGED gatewayVars
  \/ (ResumeCancelled(r) \/ ResumeRevoked(r)) /\ UNCHANGED gatewayVars

(* The request leaves the queue: on to its backend, or refused. *)
LeavesQueue(r) ==
  \/ ResumeGranted(r) /\ UNCHANGED gatewayVars
  \/ /\ ResumeCancelled(r) \/ ResumeRevoked(r)
     /\ target' = [target EXCEPT ![r] = None]
     /\ UNCHANGED <<up, asking, noBackend>>

(* Mutation of Answered: an upstream error skips the release. *)
AnsweredUnreleased(r) ==
  /\ stage[r] = "admitted"
  /\ \/ Release(r)
     \/ /\ stage' = [stage EXCEPT ![r] = "idle"]
        /\ sess' = [sess EXCEPT ![r] = None]
        /\ tier' = [tier EXCEPT ![r] = None]
        /\ UNCHANGED <<value, ahead, queued, held>>
  /\ target' = [target EXCEPT ![r] = None]
  /\ UNCHANGED <<up, asking, noBackend>>

(* The backend's answer ends, well or with an error: _complete and _stream *)
(* release the slot in either case.                                        *)
Answered(r) ==
  /\ Release(r)
  /\ target' = [target EXCEPT ![r] = None]
  /\ UNCHANGED <<up, asking, noBackend>>

GatewayNext ==
  \/ \E b \in Backends : HealthFlips(b)
  \/ \E r \in Requests :
       \/ \E s \in Sessions : ArriveSettled(r, s) \/ ArriveAsking(r, s)
       \/ Classified(r) \/ WaitTimesOut(r) \/ LeavesQueue(r) \/ Answered(r)

GatewaySpec == GatewayInit /\ [][GatewayNext]_allVars

(* The event loop runs what is ready; the calls to the classifier and to   *)
(* the backends end because their HTTP clients have timeouts.              *)
GatewayFairness ==
  \A r \in Requests : /\ WF_allVars(Classified(r))
                      /\ WF_allVars(LeavesQueue(r))
                      /\ WF_allVars(Answered(r))

GatewayFairSpec == GatewaySpec /\ GatewayFairness
-----------------------------------------------------------------------------
(* Properties *)

InflightAt(b) == {r \in Requests : stage[r] = "admitted" /\ target[r] = b}

LoadOf(t) == {r \in Requests : stage[r] = "admitted" /\ TierOf[target[r]] = t}

(* As long as no session has turns at two tiers together, the requests at  *)
(* the backends of a tier never exceed what these backends are configured  *)
(* to take together, across fallbacks, waits in the queue and changes of   *)
(* health.  The condition is needed: see TiersKeepTheirSlots of Admission. *)
TierLoadIsBounded ==
  []OneTierPerSession => [](\A t \in Tiers : Cardinality(LoadOf(t)) <= TierSize(t))

(* And without any condition on the sessions: the requests at all backends *)
(* never exceed what all are configured to take together.  A slot that     *)
(* release() gives back to the wrong tier is gone from the right one, so   *)
(* it moves from one tier to the other, or is lost, but is never doubled.  *)
TotalLoadIsBounded ==
  Cardinality(LoadOf(Big)) + Cardinality(LoadOf(Small)) <= TierSize(Big) + TierSize(Small)

(* A request is turned away for want of a backend only at a moment when no *)
(* small backend is healthy, although the classifier was awaited between   *)
(* the arrival and the choice.                                             *)
UnavailableMeansDown ==
  [][\A r \in Requests :
       ~noBackend[r] /\ noBackend'[r] => HealthyIn(Small) = {}]_allVars

(* Whatever the handler does, the admission layer only takes its own       *)
(* steps: a slot is taken and given back as Admission says.                *)
AdmissionAsSpecified == Spec

(* Every request is answered in the end: classified, admitted or refused,  *)
(* and released, even if no timer of the queue ever fires.  Holds as long  *)
(* as no two turns of a session overlap; the slots that are lost otherwise *)
(* leave a waiter to its timer.                                            *)
EveryRequestIsAnswered ==
  []OnePerSession => \A r \in Requests : ~Free(r) ~> Free(r)

(* docs/configuration.md:38: max_inflight is the "maximum concurrent       *)
(* requests the gateway will send to this backend".                        *)
BackendLimitIsKept ==
  \A b \in Backends : Cardinality(InflightAt(b)) <= MaxInflight[b]
=============================================================================
