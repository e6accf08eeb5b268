------------------------------- MODULE Health -------------------------------
(***************************************************************************)
(* The HealthChecker (backends/health.py) and the statuses it keeps in the *)
(* BackendRegistry (backends/registry.py).                                 *)
(*                                                                         *)
(* Every probe interval one task per backend is started; it carries the    *)
(* BackendInfo the registry returned at that moment, awaits GET /health,   *)
(* and writes the registry only if its verdict differs from the status in  *)
(* that snapshot.  A round does not wait for the probes of the rounds      *)
(* before it (the HTTP timeouts are per operation), so several probes of a *)
(* backend may be in flight, with different snapshots.                     *)
(***************************************************************************)
EXTENDS Integers

CONSTANTS
  Backends,         \* ids of the configured backends
  FailuresToDown,   \* health.failures_to_mark_down
  SuccessesToUp,    \* health.successes_to_mark_up
  MaxOverlap        \* MaxOverlap[b]: bound on the probes of b in flight

ASSUME HealthAssumption ==
  /\ FailuresToDown \in Nat \ {0}
  /\ SuccessesToUp \in Nat \ {0}
  /\ MaxOverlap \in [Backends -> Nat \ {0}]

VARIABLES
  reachable,  \* reachable[b]: would GET /health of b return 200 now?
  status,     \* status[b]: BackendInfo.status in the registry
  fails,      \* fails[b]: consecutive_failures, saturated at FailuresToDown
  succs,      \* succs[b]: consecutive_successes, saturated at SuccessesToUp
  probes      \* probes[b][s]: probes of b in flight whose snapshot says s

vars == <<reachable, status, fails, succs, probes>>

Statuses == {"healthy", "degraded", "down"}

TypeOK ==
  /\ reachable \in [Backends -> BOOLEAN]
  /\ status \in [Backends -> Statuses]
  /\ fails  \in [Backends -> 0..FailuresToDown]
  /\ succs  \in [Backends -> 0..SuccessesToUp]
  /\ probes \in [Backends -> [Statuses -> Nat]]

(* load_config: every backend starts HEALTHY; no probe has run. *)
Init ==
  /\ reachable \in [Backends -> BOOLEAN]
  /\ status = [b \in Backends |-> "healthy"]
  /\ fails  = [b \in Backends |-> 0]
  /\ succs  = [b \in Backends |-> 0]
  /\ probes = [b \in Backends |-> [s \in Statuses |-> 0]]

(* A counter that only ever is compared with cap. *)
OneMore(n, cap) == IF n < cap THEN n + 1 ELSE cap

InFlight(b) == probes[b]["healthy"] + probes[b]["degraded"] + probes[b]["down"]

-----------------------------------------------------------------------------
(* Mutations of the verdicts. *)
SuccessExactly(n)  == IF n = SuccessesToUp THEN "healthy" ELSE "degraded"
SuccessUp(n)       == IF n >= SuccessesToUp THEN "up" ELSE "degraded"
FailureTolerant(n) == IF n >= FailuresToDown THEN "down" ELSE "healthy"
FailureExactly(n)  == IF n = FailuresToDown THEN "down" ELSE "degraded"

(* _BackendHealthState: the verdict of a probe that makes it the n-th      *)
(* success, or the n-th failure, in a row.                                 *)
SuccessVerdict(n) == IF n >= SuccessesToUp THEN "healthy" ELSE "degraded"
FailureVerdict(n) == IF n >= FailuresToDown THEN "down" ELSE "degraded"

(* The end of _probe_one: the probe leaves, and the registry is written    *)
(* only if the verdict differs from the probe's own snapshot.              *)
Conclude(b, snap, verdict) ==
  /\ probes' = [probes EXCEPT ![b][snap] = @ - 1]
  /\ status' = IF verdict # snap THEN [status EXCEPT ![b] = verdict] ELSE status

(* One round of _probe_loop: a probe of every backend, with the status the *)
(* registry holds now.                                                     *)
ProbeRound ==
  /\ \A b \in Backends : InFlight(b) < MaxOverlap[b]
  /\ probes' = [b \in Backends |-> [probes[b] EXCEPT ![status[b]] = @ + 1]]
  /\ UNCHANGED <<reachable, status, fails, succs>>

(* A probe with snapshot snap gets its 200. *)
ProbeOk(b, snap) ==
  /\ probes[b][snap] > 0
  /\ reachable[b]
  /\ fails' = [fails EXCEPT ![b] = 0]
  /\ succs' = [succs EXCEPT ![b] = OneMore(@, SuccessesToUp)]
  /\ Conclude(b, snap, SuccessVerdict(succs[b] + 1))
  /\ UNCHANGED reachable

(* Mutation of ProbeFails: the successes are not reset. *)
ProbeFailsNoReset(b, snap) ==
  /\ probes[b][snap] > 0
  /\ ~reachable[b]
  /\ fails' = [fails EXCEPT ![b] = OneMore(@, FailuresToDown)]
  /\ Conclude(b, snap, FailureVerdict(fails[b] + 1))
  /\ UNCHANGED <<reachable, succs>>

(* A probe times out, is refused, or gets another status code. *)
ProbeFails(b, snap) ==
  /\ probes[b][snap] > 0
  /\ ~reachable[b]
  /\ succs' = [succs EXCEPT ![b] = 0]
  /\ fails' = [fails EXCEPT ![b] = OneMore(@, FailuresToDown)]
  /\ Conclude(b, snap, FailureVerdict(fails[b] + 1))
  /\ UNCHANGED reachable

(* The server of b goes away or comes back. *)
ServerFlips(b) ==
  /\ reachable' = [reachable EXCEPT ![b] = ~@]
  /\ UNCHANGED <<status, fails, succs, probes>>

ProbeReturns(b) == \E snap \in Statuses : ProbeOk(b, snap) \/ ProbeFails(b, snap)

Next == \/ ProbeRound
        \/ \E b \in Backends : ProbeReturns(b) \/ ServerFlips(b)

Spec == Init /\ [][Next]_vars

(* The loop wakes up after every interval, and every probe ends because    *)
(* its HTTP operations have timeouts.                                      *)
Fairness == WF_vars(ProbeRound) /\ \A b \in Backends : WF_vars(ProbeReturns(b))

FairSpec == Spec /\ Fairness
-----------------------------------------------------------------------------
(* Properties *)

(* The status that hysteresis prescribes for the probes seen so far. *)
Verdict(b) == IF succs[b] >= SuccessesToUp      THEN "healthy"
              ELSE IF fails[b] >= FailuresToDown THEN "down"
              ELSE IF fails[b] + succs[b] = 0    THEN "healthy"
              ELSE "degraded"

(* While the probes of a backend do not overlap, the registry always shows *)
(* what hysteresis prescribes: skipping the write when the verdict equals  *)
(* the snapshot never leaves the registry behind (health.py:83).           *)
RegistryAgrees ==
  \A b \in Backends : MaxOverlap[b] = 1 => status[b] = Verdict(b)

(* However many probes overlap, a backend in the pool has fewer failures   *)
(* in a row than probes that can be in flight: each failure that left it   *)
(* HEALTHY was reported by a probe started before the recovery.            *)
FewFailuresInPool ==
  \A b \in Backends : status[b] = "healthy" => fails[b] < MaxOverlap[b]

(* A server that stays unreachable is DOWN in the end and stays so, and    *)
(* one that stays reachable is back in the pool, stale snapshots or not.   *)
OutageIsDetected ==
  \A b \in Backends : <>[]~reachable[b] => <>[](status[b] = "down")
RecoveryIsDetected ==
  \A b \in Backends : <>[]reachable[b] => <>[](status[b] = "healthy")

(* docs/architecture.md:95: a backend is removed from the pool after       *)
(* FailuresToDown consecutive failures.                                    *)
LeavesPoolOnlyAfterFailures ==
  [][\A b \in Backends : status[b] = "healthy" /\ status'[b] # "healthy"
                           => fails'[b] >= FailuresToDown]_vars
=============================================================================
