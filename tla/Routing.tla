------------------------------ MODULE Routing ------------------------------
(***************************************************************************)
(* The TierRouter: rules first (routing/rules.py), then a classifier model *)
(* behind a cache (routing/classifier.py), then a fallback to the other    *)
(* tier if the chosen one has no healthy backend (routing/router.py).      *)
(*                                                                         *)
(* route() suspends at one place, the HTTP call of the classifier.  Other  *)
(* calls, health changes and the clock go on meanwhile.  Of the registry   *)
(* the router only asks whether a tier has a healthy backend.  The age of  *)
(* a cache entry is modelled by the ticks left until it expires.           *)
(***************************************************************************)
EXTENDS Integers

CONSTANTS
  Callers,        \* tasks that may be inside route() together
  Keys,           \* cache keys: agent and fingerprint of the last messages
  Ttl,            \* routing.classifier_cache_ttl_seconds, in ticks
  FollowupStays,  \* routing.tool_followup_stays_same_tier
  None            \* no entry, no call, no tier

(* Tier: "auto" is the hint that leaves the choice to the router. *)
Tier    == {"big", "small", "auto"}
Serving == Tier \ {"auto"}
Reasons == {"tier_hint", "tool_followup", "prompt_length", "classifier", "fallback"}

(* What the classifier's model may reply: a tier's name, something else,   *)
(* or no usable answer at all (timeout, HTTP error, malformed JSON).       *)
Replies == Tier \cup {"other", "failure"}

(* What a caller may hint; _build_session takes any other word for "auto". *)
Hints == Tier

Decisions == [tier : Tier, reason : Reasons]

(* A cached answer of the classifier, and the ticks until it expires. *)
Entries == [tier : Tier, left : 0..Ttl]

ASSUME RoutingAssumption ==
  /\ Ttl \in Nat
  /\ FollowupStays \in BOOLEAN
  /\ None \notin Keys \cup Tier
  /\ None \notin Entries

VARIABLES
  healthy,  \* the tiers that have a healthy backend
  cache,    \* ClassifierRouter._cache
  asking,   \* asking[c]: the key caller c awaits the classifier for, or None
  decided,  \* decided[c]: the last RoutingDecision of caller c, or None
  (* history, read by properties only *)
  age,      \* age[k]: ticks since the classifier last replied, up to Ttl
  said      \* said[k]: what route() made of that reply, or None

table   == <<healthy, cache, asking, decided>>
history == <<age, said>>
vars    == <<table, history>>

TypeOK ==
  /\ healthy \subseteq Serving
  /\ cache   \in [Keys -> Entries \cup {None}]
  /\ asking  \in [Callers -> Keys \cup {None}]
  /\ decided \in [Callers -> Decisions \cup {None}]
  /\ age     \in [Keys -> 0..Ttl]
  /\ said    \in [Keys -> Tier \cup {None}]

(* ClassifierRouter starts with an empty cache. *)
EmptyCache == [k \in Keys |-> None]

Init ==
  /\ healthy = Serving
  /\ cache   = EmptyCache
  /\ asking  = [c \in Callers |-> None]
  /\ decided = [c \in Callers |-> None]
  /\ age     = [k \in Keys |-> Ttl]
  /\ said    = [k \in Keys |-> None]

SetHealthy(t, up) ==
  /\ healthy' = IF up THEN healthy \cup {t} ELSE healthy \ {t}
  /\ UNCHANGED <<history, cache, asking, decided>>

Tick ==
  /\ cache' = [k \in Keys |-> IF cache[k] # None /\ cache[k].left > 0
                              THEN [cache[k] EXCEPT !.left = @ - 1] ELSE cache[k]]
  /\ age' = [k \in Keys |-> IF age[k] < Ttl THEN age[k] + 1 ELSE Ttl]
  /\ UNCHANGED <<healthy, asking, decided, said>>

-----------------------------------------------------------------------------
(* TierRouter.route, after the tier is chosen *)

Opposite(t) == IF t = "small" THEN "big" ELSE "small"

Settled(t, why) ==
  IF t \notin healthy /\ Opposite(t) \in healthy
  THEN [tier |-> Opposite(t), reason |-> "fallback"]
  ELSE [tier |-> t, reason |-> why]

Decide(c, t, why) == decided' = [decided EXCEPT ![c] = Settled(t, why)]

-----------------------------------------------------------------------------
(* RuleBasedRouter.select_tier: hint is the caller's, followup the tier of *)
(* the backend a tool result belongs to or None, long is set for a prompt  *)
(* above the threshold.                                                    *)

FollowupFires(hint, followup) == hint = "auto" /\ FollowupStays /\ followup # None

NoRule(hint, followup, long) ==
  hint = "auto" /\ ~FollowupFires(hint, followup) /\ ~long

RouteByHint(c, hint) ==
  /\ hint # "auto"
  /\ Decide(c, hint, "tier_hint")
  /\ UNCHANGED <<history, healthy, cache, asking>>

RouteByFollowup(c, hint, followup) ==
  /\ FollowupFires(hint, followup)
  /\ Decide(c, followup, "tool_followup")
  /\ UNCHANGED <<history, healthy, cache, asking>>

RouteByLength(c, hint, followup, long) ==
  /\ hint = "auto" /\ ~FollowupFires(hint, followup) /\ long
  /\ Decide(c, "big", "prompt_length")
  /\ UNCHANGED <<history, healthy, cache, asking>>

-----------------------------------------------------------------------------
(* ClassifierRouter.classify, for a request without a rule *)

Live(k) == cache[k] # None /\ cache[k].left > 0

(* Mutation of RouteFromCache: a hit extends the life of the entry. *)
RouteFromCacheSliding(c, k) ==
  /\ Live(k)
  /\ Decide(c, cache[k].tier, "classifier")
  /\ cache' = [cache EXCEPT ![k].left = Ttl]
  /\ UNCHANGED <<history, healthy, asking>>

RouteFromCache(c, k) ==
  /\ Live(k)
  /\ Decide(c, cache[k].tier, "classifier")
  /\ UNCHANGED <<history, healthy, cache, asking>>

(* _cache_get removes an entry that has expired. *)
Miss(k) == ~Live(k) /\ cache' = [cache EXCEPT ![k] = None]

(* No backend to ask: small, and nothing is cached. *)
RouteUnasked(c, k) ==
  /\ Miss(k)
  /\ "small" \notin healthy
  /\ Decide(c, "small", "classifier")
  /\ UNCHANGED <<history, healthy, asking>>

AskClassifier(c, k) ==
  /\ Miss(k)
  /\ "small" \in healthy
  /\ asking' = [asking EXCEPT ![c] = k]
  /\ UNCHANGED <<history, healthy, decided>>

(* Mutation of Parsed: the name is not looked up among the tiers. *)
ParsedRaw(reply) == IF reply = "failure" THEN "small" ELSE reply

(* Anything but a tier's name means small. *)
Parsed(reply) == IF reply \in Tier THEN reply ELSE "small"

(* Mutation of Remember: a failed call is not cached. *)
RememberAnswers(k, reply) ==
  cache' = IF reply = "failure" THEN cache
           ELSE [cache EXCEPT ![k] = [tier |-> Parsed(reply), left |-> Ttl]]

(* _cache_put, also after a failure. *)
Remember(k, reply) ==
  cache' = [cache EXCEPT ![k] = [tier |-> Parsed(reply), left |-> Ttl]]

(* The call of the classifier ends, its tier is cached, and route goes on. *)
ClassifierReplies(c, reply) ==
  /\ asking[c] # None
  /\ asking' = [asking EXCEPT ![c] = None]
  /\ Remember(asking[c], reply)
  /\ Decide(c, Parsed(reply), "classifier")
  /\ age'  = [age EXCEPT ![asking[c]] = 0]
  /\ said' = [said EXCEPT ![asking[c]] = Parsed(reply)]
  /\ UNCHANGED healthy

Route(c) ==
  /\ asking[c] = None
  /\ \E hint \in Hints, followup \in Serving \cup {None}, long \in BOOLEAN :
       \/ RouteByHint(c, hint)
       \/ RouteByFollowup(c, hint, followup)
       \/ RouteByLength(c, hint, followup, long)
       \/ /\ NoRule(hint, followup, long)
          /\ \E k \in Keys : \/ RouteFromCache(c, k)
                             \/ RouteUnasked(c, k)
                             \/ AskClassifier(c, k)

Next ==
  \/ Tick
  \/ \E t \in Serving, up \in BOOLEAN : SetHealthy(t, up)
  \/ \E c \in Callers : Route(c) \/ \E reply \in Replies : ClassifierReplies(c, reply)

Spec == Init /\ [][Next]_vars
-----------------------------------------------------------------------------
(* Properties *)

(* The cache repeats the classifier's last answer for a key, and for less  *)
(* than a TTL after it was given, however often it is used and whatever    *)
(* calls for the same key cross each other.                                *)
CacheIsFresh ==
  \A k \in Keys : Live(k) => cache[k].tier = said[k] /\ age[k] + cache[k].left = Ttl

(* The classifier is not called for a key within a TTL of its last reply,  *)
(* be that an error: a broken classifier does not cost every request its   *)
(* timeout.                                                                *)
AsksOncePerTtl ==
  [][\A c \in Callers :
       asking[c] = None /\ asking'[c] # None => age[asking'[c]] = Ttl]_vars
=============================================================================
