---------------------------- MODULE RoutingProofs ----------------------------
(***************************************************************************)
(* Theorems about the router for every number of callers and keys and      *)
(* every TTL of the classifier's cache.                                    *)
(***************************************************************************)
EXTENDS Routing, TLAPS

(* A key without a live entry was last answered for a TTL ago, or never:   *)
(* the classifier may be asked for it.                                     *)
Aged == \A k \in Keys : ~Live(k) => age[k] = Ttl

(* CacheIsFresh says what a live entry is, Aged what the lack of one means. *)
RoutingInv == TypeOK /\ CacheIsFresh /\ Aged

-----------------------------------------------------------------------------
LEMMA SettledIsDecision ==
  ASSUME NEW t \in Tier, NEW why \in Reasons
  PROVE  Settled(t, why) \in Decisions
BY DEF Settled, Opposite, Decisions, Tier, Reasons

(* Every decision of a step is a tier settled on, for one of the reasons. *)
LEMMA EveryDecisionIsSettled ==
  ASSUME TypeOK, Next
  PROVE  \/ decided' = decided
         \/ \E c \in Callers, t \in Tier, why \in Reasons : Decide(c, t, why)
<1>1. CASE Tick \/ \E t \in Serving, up \in BOOLEAN : SetHealthy(t, up)
  BY <1>1 DEF Tick, SetHealthy
<1>2. ASSUME NEW c \in Callers, Route(c)
      PROVE  \/ decided' = decided
             \/ \E t \in Tier, why \in Reasons : Decide(c, t, why)
  <2>1. PICK hint \in Hints, followup \in Serving \cup {None}, long \in BOOLEAN :
          \/ RouteByHint(c, hint)
          \/ RouteByFollowup(c, hint, followup)
          \/ RouteByLength(c, hint, followup, long)
          \/ \E k \in Keys : RouteFromCache(c, k) \/ RouteUnasked(c, k) \/ AskClassifier(c, k)
    BY <1>2 DEF Route
  <2>2. CASE RouteByHint(c, hint)
    BY <2>2 DEF RouteByHint, Hints, Reasons
  <2>3. CASE RouteByFollowup(c, hint, followup)
    BY <2>3 DEF RouteByFollowup, FollowupFires, Serving, Reasons
  <2>4. CASE RouteByLength(c, hint, followup, long)
    BY <2>4 DEF RouteByLength, Tier, Reasons
  <2>5. ASSUME NEW k \in Keys, RouteFromCache(c, k)
        PROVE  \E t \in Tier, why \in Reasons : Decide(c, t, why)
    BY <2>5 DEF RouteFromCache, Live, TypeOK, Entries, Reasons
  <2>6. ASSUME NEW k \in Keys, RouteUnasked(c, k)
        PROVE  \E t \in Tier, why \in Reasons : Decide(c, t, why)
    BY <2>6 DEF RouteUnasked, Tier, Reasons
  <2>7. ASSUME NEW k \in Keys, AskClassifier(c, k)
        PROVE  decided' = decided
    BY <2>7 DEF AskClassifier
  <2> QED
    BY <2>1, <2>2, <2>3, <2>4, <2>5, <2>6, <2>7
<1>3. ASSUME NEW c \in Callers, NEW reply \in Replies, ClassifierReplies(c, reply)
      PROVE  \E t \in Tier, why \in Reasons : Decide(c, t, why)
  BY <1>3 DEF ClassifierReplies, Parsed, Tier, Reasons
<1> QED
  BY <1>1, <1>2, <1>3 DEF Next

-----------------------------------------------------------------------------
LEMMA RoutingInvInit == Init => RoutingInv
<1> SUFFICES ASSUME Init PROVE RoutingInv
  OBVIOUS
<1>1. TypeOK
  BY RoutingAssumption DEF Init, TypeOK, EmptyCache, RoutingAssumption, Serving, Tier
<1>2. \A k \in Keys : ~Live(k)
  BY DEF Init, EmptyCache, Live
<1>3. CacheIsFresh /\ Aged
  BY <1>2 DEF Init, CacheIsFresh, Aged
<1> QED
  BY <1>1, <1>3 DEF RoutingInv

(* The ways a step may change what the cache and its history say of a key: *)
(* not at all, an entry that is not live is dropped, a tick passes, or the *)
(* classifier has replied.                                                 *)
Unchanged(k) == cache'[k] = cache[k] /\ age'[k] = age[k] /\ said'[k] = said[k]
Dropped(k)   == ~Live(k) /\ cache'[k] = None /\ age'[k] = age[k] /\ said'[k] = said[k]
Replied(k)   == \E t \in Tier : /\ cache'[k] = [tier |-> t, left |-> Ttl]
                                /\ age'[k] = 0 /\ said'[k] = t

LEMMA KeysChange ==
  ASSUME TypeOK, Next, ~Tick, NEW k \in Keys
  PROVE  Unchanged(k) \/ Dropped(k) \/ Replied(k)
<1>1. CASE \E t \in Serving, up \in BOOLEAN : SetHealthy(t, up)
  BY <1>1 DEF SetHealthy, Unchanged, history
<1>2. ASSUME NEW c \in Callers, Route(c)
      PROVE  Unchanged(k) \/ Dropped(k)
  <2>1. age' = age /\ said' = said
    BY <1>2 DEF Route, RouteByHint, RouteByFollowup, RouteByLength, RouteFromCache,
                RouteUnasked, AskClassifier, history
  <2>2. cache' = cache \/ \E q \in Keys : Miss(q)
    BY <1>2 DEF Route, RouteByHint, RouteByFollowup, RouteByLength, RouteFromCache,
                RouteUnasked, AskClassifier
  <2> QED
    BY <2>1, <2>2 DEF Miss, Unchanged, Dropped, TypeOK
<1>3. ASSUME NEW c \in Callers, NEW reply \in Replies, ClassifierReplies(c, reply)
      PROVE  Unchanged(k) \/ Replied(k)
  <2>1. /\ Parsed(reply) \in Tier /\ asking[c] \in Keys
        /\ cache' = [cache EXCEPT ![asking[c]] = [tier |-> Parsed(reply), left |-> Ttl]]
        /\ age' = [age EXCEPT ![asking[c]] = 0]
        /\ said' = [said EXCEPT ![asking[c]] = Parsed(reply)]
    BY <1>3 DEF ClassifierReplies, Remember, Parsed, Tier, TypeOK
  <2> QED
    BY <2>1 DEF Unchanged, Replied, TypeOK
<1> QED
  BY <1>1, <1>2, <1>3 DEF Next

LEMMA RoutingTypeStep ==
  ASSUME TypeOK, Next
  PROVE  TypeOK'
<1> USE RoutingAssumption DEF RoutingAssumption
<1>1. decided' \in [Callers -> Decisions \cup {None}]
  BY EveryDecisionIsSettled, SettledIsDecision DEF Decide, TypeOK
<1>2. CASE Tick
  BY <1>1, <1>2 DEF Tick, TypeOK, Entries
<1>3. CASE \E t \in Serving, up \in BOOLEAN : SetHealthy(t, up)
  BY <1>1, <1>3 DEF SetHealthy, TypeOK, history
<1>4. ASSUME NEW c \in Callers, Route(c)
      PROVE  TypeOK'
  <2>1. healthy' = healthy /\ age' = age /\ said' = said
    BY <1>4 DEF Route, RouteByHint, RouteByFollowup, RouteByLength, RouteFromCache,
                RouteUnasked, AskClassifier, history
  <2>2. cache' = cache \/ \E q \in Keys : Miss(q)
    BY <1>4 DEF Route, RouteByHint, RouteByFollowup, RouteByLength, RouteFromCache,
                RouteUnasked, AskClassifier
  <2>3. asking' = asking \/ \E q \in Keys : asking' = [asking EXCEPT ![c] = q]
    BY <1>4 DEF Route, RouteByHint, RouteByFollowup, RouteByLength, RouteFromCache,
                RouteUnasked, AskClassifier
  <2> QED
    BY <1>1, <2>1, <2>2, <2>3 DEF Miss, TypeOK
<1>5. ASSUME NEW c \in Callers, NEW reply \in Replies, ClassifierReplies(c, reply)
      PROVE  TypeOK'
  <2>1. Parsed(reply) \in Tier /\ Ttl \in 0..Ttl /\ 0 \in 0..Ttl
    BY DEF Parsed, Tier
  <2> QED
    BY <1>1, <1>5, <2>1 DEF ClassifierReplies, Remember, TypeOK, Entries
<1> QED
  BY <1>2, <1>3, <1>4, <1>5 DEF Next

LEMMA RoutingInvStep == RoutingInv /\ [Next]_vars => RoutingInv'
<1> SUFFICES ASSUME RoutingInv, [Next]_vars PROVE RoutingInv'
  OBVIOUS
<1> USE RoutingAssumption DEF RoutingAssumption
<1>0. TypeOK /\ CacheIsFresh /\ Aged
  BY DEF RoutingInv
<1>1. CASE Tick
  <2>1. TypeOK'
    BY <1>0, <1>1, RoutingTypeStep DEF Next
  <2>2. ASSUME NEW k \in Keys, Live(k)
        PROVE  /\ Live(k)' => cache'[k].tier = said'[k] /\ age'[k] + cache'[k].left = Ttl
               /\ ~Live(k)' => age'[k] = Ttl
    <3>1. /\ cache[k] \in [tier : Tier, left : 0..Ttl] /\ cache[k].left > 0
          /\ age[k] \in 0..Ttl /\ age[k] + cache[k].left = Ttl /\ cache[k].tier = said[k]
      BY <1>0, <2>2 DEF Live, TypeOK, Entries, CacheIsFresh
    <3>2. /\ cache'[k] = [cache[k] EXCEPT !.left = @ - 1]
          /\ age'[k] = age[k] + 1 /\ said'[k] = said[k]
      BY <1>1, <2>2, <3>1 DEF Tick, Live
    <3>3. cache'[k].left = cache[k].left - 1 /\ cache'[k].tier = cache[k].tier
      BY <3>1, <3>2
    <3>4. cache'[k] \in Entries
      BY <3>1, <3>2 DEF Entries
    <3> QED
      BY <3>1, <3>2, <3>3, <3>4 DEF Live
  <2>3. ASSUME NEW k \in Keys, ~Live(k)
        PROVE  ~Live(k)' /\ age'[k] = Ttl
    BY <1>0, <1>1, <2>3 DEF Tick, Live, Aged
  <2> QED
    BY <2>1, <2>2, <2>3 DEF RoutingInv, CacheIsFresh, Aged
<1>2. CASE Next /\ ~Tick
  <2>1. TypeOK'
    BY <1>0, <1>2, RoutingTypeStep
  <2>2. ASSUME NEW k \in Keys
        PROVE  /\ Live(k)' => cache'[k].tier = said'[k] /\ age'[k] + cache'[k].left = Ttl
               /\ ~Live(k)' => age'[k] = Ttl
    <3>1. CASE Unchanged(k)
      BY <1>0, <3>1 DEF Unchanged, Live, CacheIsFresh, Aged
    <3>2. CASE Dropped(k)
      BY <1>0, <3>2 DEF Dropped, Live, Aged
    <3>3. CASE Replied(k)
      <4>1. PICK t \in Tier : /\ cache'[k] = [tier |-> t, left |-> Ttl]
                              /\ age'[k] = 0 /\ said'[k] = t
        BY <3>3 DEF Replied
      <4>2. cache'[k] # None /\ cache'[k].tier = t /\ cache'[k].left = Ttl
        BY <4>1 DEF Entries
      <4> QED
        BY <4>1, <4>2 DEF Live
    <3> QED
      BY <1>0, <1>2, <3>1, <3>2, <3>3, KeysChange
  <2> QED
    BY <2>1, <2>2 DEF RoutingInv, CacheIsFresh, Aged
<1>3. CASE UNCHANGED vars
  BY <1>0, <1>3 DEF vars, table, history, RoutingInv, TypeOK, CacheIsFresh, Aged, Live
<1> QED
  BY <1>1, <1>2, <1>3

-----------------------------------------------------------------------------
(* The router never leaves its types: no tier but the three is cached,     *)
(* decided or remembered, whatever the classifier replies.                 *)
THEOREM RoutingTypeCorrect == Spec => []TypeOK
BY RoutingInvInit, RoutingInvStep, PTL DEF Spec, RoutingInv

(* A live entry repeats the classifier's last reply and is younger than    *)
(* the TTL, for any number of calls that cross each other.                 *)
THEOREM CacheStaysFresh == Spec => []CacheIsFresh
BY RoutingInvInit, RoutingInvStep, PTL DEF Spec, RoutingInv

(* The classifier is asked for a key only when its last reply, or failure, *)
(* is at least a TTL old.                                                  *)
THEOREM ClassifierIsSpared == Spec => AsksOncePerTtl
<1>1. ASSUME RoutingInv, Next, NEW c \in Callers, asking[c] = None, asking'[c] # None
      PROVE  age[asking'[c]] = Ttl
  <2>0. TypeOK /\ Aged
    BY <1>1 DEF RoutingInv
  <2>1. \E k \in Keys : AskClassifier(c, k)
    <3>1. CASE Tick \/ \E t \in Serving, up \in BOOLEAN : SetHealthy(t, up)
      BY <1>1, <3>1 DEF Tick, SetHealthy
    <3>2. ASSUME NEW q \in Callers, Route(q)
          PROVE  asking' = asking \/ \E k \in Keys : AskClassifier(q, k)
      BY <3>2 DEF Route, RouteByHint, RouteByFollowup, RouteByLength, RouteFromCache,
                  RouteUnasked
    <3>3. ASSUME NEW q \in Callers, NEW k \in Keys, AskClassifier(q, k)
          PROVE  q = c
      BY <1>1, <2>0, <3>3 DEF AskClassifier, TypeOK
    <3>4. ASSUME NEW q \in Callers, NEW reply \in Replies, ClassifierReplies(q, reply)
          PROVE  FALSE
      BY <1>1, <2>0, <3>4 DEF ClassifierReplies, TypeOK
    <3> QED
      BY <1>1, <3>1, <3>2, <3>3, <3>4 DEF Next
  <2>2. PICK k \in Keys : AskClassifier(c, k)
    BY <2>1
  <2>3. asking'[c] = k /\ ~Live(k)
    BY <2>0, <2>2 DEF AskClassifier, Miss, TypeOK
  <2> QED
    BY <2>0, <2>3 DEF Aged
<1>2. RoutingInv /\ [Next]_vars =>
        [\A c \in Callers : asking[c] = None /\ asking'[c] # None => age[asking'[c]] = Ttl]_vars
  BY <1>1
<1> QED
  BY <1>2, RoutingInvInit, RoutingInvStep, PTL DEF Spec, AsksOncePerTtl
=============================================================================
