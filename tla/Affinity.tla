------------------------------ MODULE Affinity ------------------------------
(***************************************************************************)
(* The AffinityScheduler (affinity/scheduler.py): a table that pins each   *)
(* session to a backend for as long as the session stays active and the    *)
(* backend stays among the candidates.                                     *)
(*                                                                         *)
(* The class is written for callers on several threads.  A call reads the  *)
(* healthy backends from the registry first (the candidates of             *)
(* select_backend, the survivors of on_backend_down) and takes the lock    *)
(* afterwards, so what it read may be out of date when it works on the     *)
(* table.  Each call is therefore two steps.                               *)
(*                                                                         *)
(* An expiry time is modelled by the ticks left until it, which a tick of  *)
(* the clock decrements: expires_at > now is left > 0.                     *)
(***************************************************************************)
EXTENDS Rendezvous, FiniteSets

CONSTANTS
  Tiers,     \* Tier.BIG and Tier.SMALL
  TierOf,    \* TierOf[b]: the tier of backend b
  Ttl,       \* affinity.sticky_ttl_seconds, in ticks
  Callers,   \* threads that may be inside the scheduler together
  None       \* no entry, no call, no backend

VARIABLES
  healthy,   \* the backends the registry reports HEALTHY
  sticky,    \* sticky[s]: the _StickyEntry of session s, or None
  call,      \* call[c]: what caller c has read before taking the lock
  (* history, read by properties only *)
  last,      \* last[s]: the backend of the last turn of s, or None
  idle,      \* idle[s]: ticks since the last turn of s, up to Ttl or a move
  moved      \* moved[s]: the binding was migrated or dropped since then

table   == <<healthy, sticky, call>>
history == <<last, idle, moved>>
vars    == <<table, history>>

Entries == [backend : Backends, tier : Tiers, left : 0..Ttl]

ASSUME AffinityAssumption ==
  /\ TierOf \in [Backends -> Tiers]
  /\ Ttl \in Nat
  /\ None \notin Backends
  /\ None \notin Entries

Calls   ==
  [op : {"select"}, who : Sessions, tier : Tiers, read : SUBSET Backends]
    \cup [op : {"down"}, who : Backends, tier : Tiers, read : SUBSET Backends]

TypeOK ==
  /\ healthy \subseteq Backends
  /\ sticky \in [Sessions -> Entries \cup {None}]
  /\ call   \in [Callers -> Calls \cup {None}]
  /\ last   \in [Sessions -> Backends \cup {None}]
  /\ idle   \in [Sessions -> 0..Ttl]
  /\ moved  \in [Sessions -> BOOLEAN]

Init ==
  /\ healthy = Backends
  /\ sticky = [s \in Sessions |-> None]
  /\ call   = [c \in Callers |-> None]
  /\ last   = [s \in Sessions |-> None]
  /\ idle   = [s \in Sessions |-> 0]
  /\ moved  = [s \in Sessions |-> FALSE]

(* Mutation of HealthyIn: the registry ignores the tier. *)
HealthyAnywhere(t) == {b \in healthy : t \in Tiers}

(* BackendRegistry.get_healthy_backends *)
HealthyIn(t) == {b \in healthy : TierOf[b] = t}

-----------------------------------------------------------------------------
(* The registry and the clock *)

SetHealthy(b, up) ==
  /\ healthy' = IF up THEN healthy \cup {b} ELSE healthy \ {b}
  /\ UNCHANGED <<history, sticky, call>>

Tick ==
  /\ sticky' = [s \in Sessions |->
                  IF sticky[s] # None /\ sticky[s].left > 0
                  THEN [sticky[s] EXCEPT !.left = @ - 1] ELSE sticky[s]]
  /\ idle' = [s \in Sessions |->
                IF idle[s] < Ttl /\ last[s] # None /\ ~moved[s]
                THEN idle[s] + 1 ELSE idle[s]]
  /\ UNCHANGED <<healthy, call, last, moved>>

-----------------------------------------------------------------------------
(* select_backend *)

(* The caller reads the candidates for a turn of s on tier t. *)
ReadCandidates(c, s, t) ==
  /\ call[c] = None
  /\ call' = [call EXCEPT ![c] =
                [op |-> "select", who |-> s, tier |-> t, read |-> HealthyIn(t)]]
  /\ UNCHANGED <<history, healthy, sticky>>

(* No candidates: BackendUnavailableException. *)
SelectFails(c) ==
  /\ call[c] # None /\ call[c].op = "select"
  /\ call[c].read = {}
  /\ call' = [call EXCEPT ![c] = None]
  /\ UNCHANGED <<history, healthy, sticky>>

(* The turn of session s goes to backend b. *)
Return(c, s, b) ==
  /\ call'   = [call EXCEPT ![c] = None]
  /\ last'   = [last EXCEPT ![s] = b]
  /\ idle'   = [idle EXCEPT ![s] = 0]
  /\ moved'  = [moved EXCEPT ![s] = FALSE]
  /\ UNCHANGED healthy

(* The binding of s is live and its backend is a candidate. *)
Live(s) == sticky[s] # None /\ sticky[s].left > 0

Usable(s, ids) == Live(s) /\ sticky[s].backend \in ids

(* Mutation of SelectHits: a hit does not slide the expiry forward. *)
SelectHitsFixedTtl(c) ==
  /\ call[c] # None /\ call[c].op = "select"
  /\ LET s == call[c].who
     IN  /\ Usable(s, call[c].read)
         /\ sticky' = sticky
         /\ Return(c, s, sticky[s].backend)

SelectHits(c) ==
  /\ call[c] # None /\ call[c].op = "select"
  /\ LET s == call[c].who
     IN  /\ Usable(s, call[c].read)
         /\ sticky' = [sticky EXCEPT ![s].left = Ttl]
         /\ Return(c, s, sticky[s].backend)

(* Mutation of SelectMisses: the new entry lives a tick too long. *)
SelectMissesLonger(c) ==
  /\ call[c] # None /\ call[c].op = "select"
  /\ LET s   == call[c].who
         new == Winner(s, call[c].read)
     IN  /\ call[c].read # {}
         /\ ~Usable(s, call[c].read)
         /\ sticky' = [sticky EXCEPT ![s] =
                         [backend |-> new, tier |-> call[c].tier, left |-> Ttl + 1]]
         /\ Return(c, s, new)

(* Missing, expired or no candidate any more: hash and bind anew. *)
SelectMisses(c) ==
  /\ call[c] # None /\ call[c].op = "select"
  /\ LET s   == call[c].who
         new == Winner(s, call[c].read)
     IN  /\ call[c].read # {}
         /\ ~Usable(s, call[c].read)
         /\ sticky' = [sticky EXCEPT ![s] =
                         [backend |-> new, tier |-> call[c].tier, left |-> Ttl]]
         /\ Return(c, s, new)

-----------------------------------------------------------------------------
(* invalidate *)
Invalidate(s) ==
  /\ sticky' = [sticky EXCEPT ![s] = None]
  /\ moved'  = [moved EXCEPT ![s] = TRUE]
  /\ idle'   = [idle EXCEPT ![s] = 0]
  /\ UNCHANGED <<healthy, call, last>>

-----------------------------------------------------------------------------
(* on_backend_down *)

(* Mutation of ReadSurvivors: the backend that went down is not left out. *)
ReadSurvivorsAll(c, b) ==
  /\ call[c] = None
  /\ call' = [call EXCEPT ![c] = [op   |-> "down", who |-> b, tier |-> TierOf[b],
                                  read |-> HealthyIn(TierOf[b])]]
  /\ UNCHANGED <<history, healthy, sticky>>

(* The caller reports that b, a backend of tier TierOf[b], went down; the  *)
(* registry may call it HEALTHY still.                                     *)
ReadSurvivors(c, b) ==
  /\ call[c] = None
  /\ call' = [call EXCEPT ![c] = [op   |-> "down", who |-> b, tier |-> TierOf[b],
                                  read |-> HealthyIn(TierOf[b]) \ {b}]]
  /\ UNCHANGED <<history, healthy, sticky>>

Affected(b, t) ==
  {s \in Sessions : sticky[s] # None /\ sticky[s].backend = b /\ sticky[s].tier = t}

(* Every affected session is hashed over the survivors, its expiry kept;   *)
(* without survivors its binding is dropped.                               *)
Migrate(c) ==
  /\ call[c] # None /\ call[c].op = "down"
  /\ LET hit == Affected(call[c].who, call[c].tier)
     IN  /\ sticky' = [s \in Sessions |->
                         IF s \notin hit THEN sticky[s]
                         ELSE IF call[c].read = {} THEN None
                         ELSE [sticky[s] EXCEPT !.backend = Winner(s, call[c].read)]]
         /\ moved' = [s \in Sessions |-> moved[s] \/ s \in hit]
         /\ idle'  = [s \in Sessions |-> IF s \in hit THEN 0 ELSE idle[s]]
  /\ call' = [call EXCEPT ![c] = None]
  /\ UNCHANGED <<healthy, last>>

-----------------------------------------------------------------------------
Next ==
  \/ Tick
  \/ \E b \in Backends, up \in BOOLEAN : SetHealthy(b, up)
  \/ \E s \in Sessions : Invalidate(s)
  \/ \E c \in Callers :
       \/ \E s \in Sessions, t \in Tiers : ReadCandidates(c, s, t)
       \/ SelectFails(c) \/ SelectHits(c) \/ SelectMisses(c)
       \/ \E b \in Backends : ReadSurvivors(c, b)
       \/ Migrate(c)

Spec == Init /\ [][Next]_vars
-----------------------------------------------------------------------------
(* Properties *)

(* An entry's tier is the tier of the backend it names, whatever tiers the *)
(* turns of a session go to and whatever is migrated: otherwise            *)
(* on_backend_down, which compares both, would overlook it.                *)
EntriesKeepTheirTier ==
  \A s \in Sessions : sticky[s] # None => TierOf[sticky[s].backend] = sticky[s].tier

(* Caller c completes a select_backend for session s in this step; it      *)
(* returns affinity_hit = Usable(s, call[c].read).                         *)
Selects(c, s) == /\ call[c] # None /\ call[c].op = "select" /\ call[c].who = s
                 /\ call'[c] = None /\ call[c].read # {}

(* A session that keeps taking turns less than a TTL apart stays on its    *)
(* backend and gets a hit each time, for ever, unless its binding was      *)
(* migrated or dropped or the backend left the candidates.                 *)
StickyAcrossTurns ==
  [][\A c \in Callers, s \in Sessions :
       /\ Selects(c, s)
       /\ last[s] # None /\ ~moved[s] /\ idle[s] < Ttl
       /\ last[s] \in call[c].read
       => last'[s] = last[s] /\ Usable(s, call[c].read)]_vars

(* When on_backend_down has worked, no session at all is pinned to the     *)
(* backend it was called for: "Must re-assign all sessions pinned to it"   *)
(* (affinity/protocols.py:36), whichever tier the entries are marked with, *)
(* whatever the registry says of the backend, and whatever was bound since *)
(* the survivors were read.  A call that read its candidates before may    *)
(* pin a session to it again; the next turn then finds out.                *)
NobodyStaysBehind ==
  [][\A c \in Callers :
       call[c] # None /\ call[c].op = "down" /\ call'[c] = None =>
         \A s \in Sessions : sticky'[s] # None => sticky'[s].backend # call[c].who]_vars
=============================================================================
