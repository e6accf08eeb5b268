------------------------------ MODULE Failover ------------------------------
(***************************************************************************)
(* How the traffic of one tier follows the health of its backends: the     *)
(* HealthChecker and its registry (Health), the table of the               *)
(* AffinityScheduler, and the part of the chat handler that joins them     *)
(* (gateway/routes/chat.py:69-105).                                        *)
(*                                                                         *)
(* The handler reads the candidates and calls select_backend without an    *)
(* await in between, so a selection is one step.  It then waits for a slot *)
(* and sends the request to the backend it chose before the wait.  Nothing *)
(* in the gateway calls on_backend_down or invalidate: a binding to a      *)
(* backend that went away is found out by the next turn of the session.    *)
(*                                                                         *)
(* Turns of a session may overlap: a client that gives up on an answer     *)
(* sends its next turn while the gateway still works on the last one.      *)
(* Turns that are routed to the other tier matter only because they take   *)
(* the session's one binding away; the backends there are one Elsewhere.   *)
(***************************************************************************)
EXTENDS Health, FiniteSets

CONSTANTS
  Requests,   \* handles of HTTP requests; a handle is used again and again
  Sessions,   \* values of x_session_id
  Elsewhere,  \* a backend of the other tier
  Ttl,        \* affinity.sticky_ttl_seconds, in ticks
  MaxScore,   \* see Rendezvous
  Score,      \* see Rendezvous
  None        \* no entry, no backend

HRW == INSTANCE Rendezvous

ASSUME FailoverAssumption ==
  /\ Ttl \in Nat
  /\ Elsewhere \notin Backends
  /\ None \notin Backends \cup {Elsewhere}
  /\ MaxScore \in Nat
  /\ Score \in [Sessions -> [Backends -> 0..MaxScore]]

VARIABLES
  sticky,  \* sticky[s]: the binding of session s and the ticks left to it, or None
  stage,   \* stage[r]: "idle", "queued" for a slot, or "sent" to its backend
  target   \* target[r]: the backend chosen for request r, or None

traffic == <<sticky, stage, target>>
allVars == <<vars, traffic>>

Entries == [backend : Backends \cup {Elsewhere}, left : 0..Ttl]

FailoverTypeOK ==
  /\ TypeOK
  /\ sticky \in [Sessions -> Entries \cup {None}]
  /\ stage  \in [Requests -> {"idle", "queued", "sent"}]
  /\ target \in [Requests -> Backends \cup {None}]
  /\ \A r \in Requests : target[r] = None <=> stage[r] = "idle"

FailoverInit ==
  /\ Init
  /\ sticky = [s \in Sessions |-> None]
  /\ stage  = [r \in Requests |-> "idle"]
  /\ target = [r \in Requests |-> None]

-----------------------------------------------------------------------------
(* select_backend *)

Candidates == {b \in Backends : status[b] = "healthy"}

Live(s) == sticky[s] # None /\ sticky[s].left > 0

(* Mutation of Usable: the candidates are not consulted. *)
UsableWhenLive(s) == Live(s) /\ sticky[s].backend # Elsewhere

(* The binding decides the turn: affinity_hit. *)
Usable(s) == Live(s) /\ sticky[s].backend \in Candidates

Chosen(s) == IF Usable(s) THEN sticky[s].backend ELSE HRW!Winner(s, Candidates)

(* Mutation of Bind: the table keeps the backend that wins when all are up. *)
BindFavourite(s, b) ==
  sticky' = [sticky EXCEPT ![s] =
    [backend |-> IF b = Elsewhere THEN b ELSE HRW!Winner(s, Backends), left |-> Ttl]]

(* A hit slides the expiry of the binding forward, a miss binds anew. *)
Bind(s, b) == sticky' = [sticky EXCEPT ![s] = [backend |-> b, left |-> Ttl]]

-----------------------------------------------------------------------------
(* The chat handler *)

(* A turn of s is routed to this tier.  It is refused by gate(), waits for *)
(* a slot, or gets one at once; the binding is made in any case.           *)
Turn(r, s) ==
  /\ stage[r] = "idle"
  /\ Candidates # {}
  /\ Bind(s, Chosen(s))
  /\ \/ UNCHANGED <<stage, target>>
     \/ /\ \E where \in {"queued", "sent"} : stage' = [stage EXCEPT ![r] = where]
        /\ target' = [target EXCEPT ![r] = Chosen(s)]
  /\ UNCHANGED vars

(* A turn of s is routed to the other tier, by choice or because this one  *)
(* has no candidate.                                                       *)
TurnElsewhere(s) ==
  /\ Bind(s, Elsewhere)
  /\ UNCHANGED <<vars, stage, target>>

(* Mutation of LeavesQueue: the request that timed out keeps its backend. *)
LeavesQueueBound(r) ==
  /\ stage[r] = "queued"
  /\ \E where \in {"idle", "sent"} : stage' = [stage EXCEPT ![r] = where]
  /\ UNCHANGED <<vars, sticky, target>>

(* The request leaves the queue: gate() returns and the request is sent to *)
(* the backend chosen before, whatever became of it; or it times out.      *)
LeavesQueue(r) ==
  /\ stage[r] = "queued"
  /\ \/ /\ stage' = [stage EXCEPT ![r] = "sent"]
        /\ UNCHANGED target
     \/ /\ stage' = [stage EXCEPT ![r] = "idle"]
        /\ target' = [target EXCEPT ![r] = None]
  /\ UNCHANGED <<vars, sticky>>

(* The call to the backend ends, well or with an error.  Errors are told   *)
(* to the client only: they are not reported to registry or scheduler.     *)
Answered(r) ==
  /\ stage[r] = "sent"
  /\ stage'  = [stage EXCEPT ![r] = "idle"]
  /\ target' = [target EXCEPT ![r] = None]
  /\ UNCHANGED <<vars, sticky>>

Tick ==
  /\ \E s \in Sessions : Live(s)
  /\ sticky' = [s \in Sessions |->
                  IF Live(s) THEN [sticky[s] EXCEPT !.left = @ - 1] ELSE sticky[s]]
  /\ UNCHANGED <<vars, stage, target>>

HealthStep ==
  /\ \/ ProbeRound
     \/ \E b \in Backends : ProbeReturns(b) \/ ServerFlips(b)
  /\ UNCHANGED traffic

FailoverNext ==
  \/ HealthStep
  \/ Tick
  \/ \E s \in Sessions : TurnElsewhere(s) \/ \E r \in Requests : Turn(r, s)
  \/ \E r \in Requests : LeavesQueue(r) \/ Answered(r)

FailoverSpec == FailoverInit /\ [][FailoverNext]_allVars

(* The probe loop goes on and its probes end (Health); nobody waits for a  *)
(* slot for ever (Admission!NoStarvation); calls to backends have a        *)
(* timeout.  Clients need not send anything.                               *)
FailoverFairness ==
  /\ WF_allVars(ProbeRound /\ UNCHANGED traffic)
  /\ \A b \in Backends : WF_allVars(ProbeReturns(b) /\ UNCHANGED traffic)
  /\ \A r \in Requests : WF_allVars(LeavesQueue(r)) /\ WF_allVars(Answered(r))

FailoverFairSpec == FailoverSpec /\ FailoverFairness
-----------------------------------------------------------------------------
(* Properties *)

(* A backend that stays unreachable gets no request any more in the end,   *)
(* although nobody tells the scheduler about it (affinity/protocols.py:36) *)
(* and requests that were queued for it are still sent to it.              *)
DeadBackendIsLeft ==
  \A b \in Backends :
    <>[]~reachable[b] => <>[](\A r \in Requests : stage[r] = "sent" => target[r] # b)

(* Once every backend either stays up or stays down, sessions settle: from *)
(* some time on, every turn of a session whose binding to this tier has    *)
(* not expired goes to that binding, so no session is moved again and      *)
(* again (docs/affinity.md:24-28).                                         *)
SessionsSettle ==
  (\A b \in Backends : <>[]reachable[b] \/ <>[]~reachable[b])
    => <>[][\A s \in Sessions :
              /\ \E r \in Requests : Turn(r, s)
              /\ Live(s) /\ sticky[s].backend # Elsewhere
              => Usable(s)]_allVars
=============================================================================
