# Agent-Serve: a TLA+ model of the gateway and its clients

Agent-Serve is an LLM gateway in Python (FastAPI, asyncio). It accepts chat
completions, chooses a tier of models (big or small), pins each session to a
backend so that its prefix cache stays warm, limits the load per tier and the
tokens per agent, and passes the request on. This directory models its logic
in TLA+, checks the models with TLC and proves theorems about them with TLAPS.

Paths below are relative to the repository; `agent_serve/` stands for
`gateway/src/agent_serve/`.

## 1. Inventory

### How a request flows

```
client -> chat_completions (gateway/routes/chat.py)
            |  route()            TierRouter: rules, classifier + cache, fallback   [awaits HTTP]
            |  get_healthy_backends(tier)          BackendRegistry <- HealthChecker (own tasks)
            |  select_backend()   AffinityScheduler
            |  gate()             AdmissionController: TokenAccountant, registry, queue [awaits a slot]
            |  call()/stream()    BackendProxy                                      [awaits HTTP]
            v  release()          AdmissionController, in a finally block
```

All handlers, probes and the snapshot loop are tasks of one asyncio event loop:
what runs between two awaits is atomic, and what was read before an await may
be stale after it. `AffinityScheduler`, `BackendRegistry` and the windows of
`TokenAccountant` carry locks of their own, for callers on several threads.

### Components

| Component | State it keeps | Operations | Hard behaviour | What makes it correct |
|---|---|---|---|---|
| Admission (`agent_serve/admission/`) | a semaphore, `_queued` per tier, `_held` per session | `gate`, `release`, `acquire` | waiters, wake-ups and timers interleave; release finds its tier by session | slots conserved, tiers within their limits, bounded queue, FIFO, nobody stranded |
| Health (`backends/health.py`, `registry.py`) | status per backend, two counters | a probe round, the end of a probe, `mark_status` | probes overlap, each with its own snapshot | the registry follows hysteresis; outages and recoveries are noticed |
| Affinity (`affinity/scheduler.py`) | binding per session: backend, tier, expiry | `select_backend`, `invalidate`, `on_backend_down` | candidates and survivors are read before the lock | sessions stick; only candidates are returned; nobody stays on a backend that was reported; minimal disruption |
| Accounting (`accounting/`) | entries per agent, snapshot file | check, debit, save, restore, stop | crash during a write, failing writes, restart, other clock after a reboot | a window counts what it should; what is saved survives; debits are saved in the end |
| Routing (`routing/`) | classifier cache | `route`, `select_tier`, `classify` | the cache is consulted before and filled after an await; health changes meanwhile | cache true and young; a broken classifier is spared |
| Chat handler (`gateway/routes/chat.py`) | the request's tier, backend, slot | one handler with three awaits | everything above may change at each await; the backend is chosen before the wait for a slot; nobody tells the scheduler that a backend is down | load bounded; no needless 503; every request answered; dead backends are left |
| Load generator (`loadgen/`) | slots, sessions, rows, result file | closed loop, open loop, replay, writing | sessions fail on their own; concurrent collection of rows; writing truncates first and may fail | concurrency kept; rows whole; the run ends |
| Load study (`studies/run_study.py`) | rows per profile, drill rows, the container, `summary.json` | load runs, read back, drill, summary | files of earlier studies, turns that were not answered with 200, a docker that fails, death between stop and start | the summary tells this study |
| Demo agent (`demo_agent/`) | conversation, pending tool calls, results | ask, run tools, next session, write | one failure ends all sessions; tool calls in the last turn; writing truncates first and may fail | every call answered; results whole; client closed |
| Endpoints, telemetry, configuration | - | - | none: read-only or wiring | not modelled, see section 7 |

`PROJECT.json` lists the components with their sources, and under "hazards"
every place where this code is hard to test, with the properties aimed at it.

## 2. Modules

| Module | Models | Extends / instances |
|---|---|---|
| `SlotPool` | abstract: a pool of slots per tier | |
| `Admission` | `AdmissionController`, `BackpressureQueue`, `asyncio.Semaphore` under `wait_for` | instance of `SlotPool` (refinement) |
| `Health` | `HealthChecker`, statuses of `BackendRegistry` | |
| `Rendezvous` | `_hrw_score`, `_select_by_hrw` | |
| `Affinity` | `AffinityScheduler` | extends `Rendezvous` |
| `Accounting` | `TokenAccountant`, `SnapshotManager` | |
| `Routing` | `TierRouter`, `RuleBasedRouter`, `ClassifierRouter` | |
| `Gateway` | `chat_completions`, `_complete`, `_stream` | extends `Admission` |
| `Failover` | the scheduler and the handler of one tier under a registry that probes write | extends `Health`, instance of `Rendezvous` |
| `LoadGen` | `LoadGenerator`, `SessionRunner`, `replay` | |
| `Study` | `run_study.py` | extends `LoadGen` |
| `DemoAgent` | `Agent.run_task`, `_run_sessions` | |
| `Clients` | the choice of the program that is run | extends `Study`, `DemoAgent` |
| `MC*` | constants of the TLC runs | extend the module they check |
| `*Proofs` | theorems and proofs | extend the module they prove about, and `TLAPS`; `HealthProofs` is about `Failover` too |

### Admission

A request handle `r` is in a `stage`: outside (`idle`, `refused`), inside
`acquire()` (`pending`, `granted`, `cancelled`, `revoked`) or `admitted`. The
stages between `pending` and the resumption of the task are the ones the event
loop makes possible: `_wake_up_next()` has completed the future (`granted`), the
timer has cancelled it (`cancelled`), or the timer came after the grant
(`revoked`, in which case `Semaphore.acquire` gives the slot back). `value` is
`Semaphore._value`, `ahead[r]` the order of `Semaphore._waiters`, `queued` and
`held` are `_queued` and `_held`. An action is the code between two awaits:
`GateAtOnce`, `GateWaits`, `GateRefused`, `GateQueueFull` are the ways through
the first part of `gate`, `ResumeX` the ways out of the queue, `Release` the
`finally` block. `asyncio` is not part of the repository and is modelled as
CPython implements it (marked external in the map).

The constant `Overlapping` says whether two requests of a session may be in
flight together. The code does not prevent it, and its own clients do it:
`replay` sends the rows of a recording concurrently, and a load generator's
session whose client gave up after 300 s sends its next turn while the gateway
may still be at work on the last one (30 s in the queue and 300 s at the
backend). Without such timeouts the sessions of the load generator and of the
demo agent do not overlap. Slot conservation and the refinement of `SlotPool`
hold without overlaps only. With them the types, the queue bound, the order of
service and the absence of lost wake-ups still hold, and each tier keeps to its
slots as long as no session has turns at two tiers together
(`OneTierPerSession`). When a session has, `release` gives back a slot of the
tier that `_held` names, which may be the wrong one; what is left then is the
bound on all tiers together (`TotalLoadIsBounded` of `Gateway`).

### Health

`ProbeRound` starts a probe for every backend with the status the registry
shows at that moment; `ProbeOk`/`ProbeFails` are the end of `_probe_one`, which
compares its verdict with that snapshot. `probes[b][s]` counts the probes in
flight by snapshot, so probes may end in any order. The counters are saturated
at their thresholds, as they are only compared with them.

### Affinity and Rendezvous

Each call is two steps, because it reads the registry before it takes the lock.
An expiry time is the number of ticks left. `Score` is any injective score per
session; SHA-256 is not computed. The variables `last`, `idle` and `moved` are
history: what the last turn of a session got, how long ago, and whether the
binding was migrated or dropped since.

### Accounting

Time is a count of ticks; `monotonic` is the time since the boot of the host,
which is what `time.monotonic()` shows. Opening the snapshot file and finishing
it are two steps with a possible crash in between. The other way a last save
can go wrong, refused before the file is opened, has the effect of a crash and
is covered by it. `ledger`, `covered`, `saved` and `lost` are history: every debit,
those the file accounts for now, those the last snapshot written to its end
accounted for, and those a death of the process wiped out. Opening the file
truncates it (`Torn`), and it stays so if the write fails. Entries name
their debit, so the properties can say which debits a window counts and not
only how many tokens.

### Routing

`Route` is the part of `route()` up to the classifier's HTTP call or to the
decision, `ClassifierReplies` the rest. Of the registry the router only asks
whether a tier has a healthy backend, so health is a set of tiers. The replies
of the classifier are a tier, `auto` (which is a member of `Tier` and passes the
test in `classifier.py:92`), something else, or a failure.

### Gateway

Extends `Admission`: its actions perform admission steps in the order of the
handler and add the routing wait, the choice of the backend and the backend's
answer. Router and scheduler are reduced to what `Routing` and `Affinity` say of
them: any tier may be wanted, any candidate may be chosen.

### Failover

`Gateway` lets any candidate be chosen; `Failover` looks at what that choice
does over time. It extends `Health`, so candidates come and go with probes that
overlap, and adds the table of the scheduler as the gateway uses it:
`select_backend` runs right after the candidates are read, with no await in
between, hence in one step (`Turn`); it binds even if `gate` refuses the request
afterwards; the request may wait and is then sent to the backend chosen before
(`LeavesQueue`); an error of the backend is told to nobody (`Answered`).
`on_backend_down` and `invalidate` do not occur, because nothing calls them. A
turn that is routed to the other tier (`TurnElsewhere`) takes the session's only
binding away. The queue is reduced to what `Admission` says of it: a request
that waits gets its slot or times out.

### Study, DemoAgent, Clients

`Study` runs `LoadGen` once per profile; `NextProfile` makes a new load run whose
file may exist already, `ReadBack` keeps what was read of it: the rows with
status 200 of this run, or of an earlier study with the same `--run-id`, or
nothing. The history variable `got` is what the run has measured, taken from its
sessions and not from its file: which turns of sessions that did not fail were
answered with 200, and whether there was any turn at all. The drill adds a row
for every request, whatever comes of it; `docker` may fail without a trace and
the script may die at any point, and does if writing a CSV raised. `DemoAgent` follows a conversation: the
messages with their roles, the calls of the last reply that are still to be run,
the number of requests. `OpenResults` truncates the output file, `WriteResults`
writes it, to its end or, if it raises, up to some row. The text of messages, the
output of tools and percentiles are left out. `Clients` puts the programs side by side: a
behaviour is a run of one of them.

### LoadGen

Sessions are admitted by the semaphore (closed loop), started one per interval
(open loop), or are single requests of a recording (replay). `TurnBreaks` is a
reply that `ResultRow` rejects, which ends the session with an exception;
`served` has the turns that were answered with 200. When the run is over and has
rows, `OpenFile` truncates the result file, or raises; `WriteRows` writes the rows,
to the end or, if it raises, some of the first. `writer` tells how far writing is.

## 3. Runs

| Run | Module, cfg | Checks | Bounds |
|---|---|---|---|
| `admission_serial` | MCAdmission | types, slots conserved, queue bounded, no lost wake-up, no overtaking, refinement of `SlotPool`, no starvation | 4 requests, 3 sessions, tiers of 1 and 2 slots, queue of 2 |
| `admission_leak` | MCAdmission | violation: idle means all slots free | 2 requests |
| `health` | MCHealth | types, registry agrees with hysteresis, few failures in the pool, outage and recovery detected | one backend without, one with up to 3 overlapping probes, thresholds 3 and 2 |
| `health_pool` | MCHealth | violation: leaves the pool only after 3 failures | same |
| `affinity` | MCAffinity | types, entries keep their tier, stickiness, nobody stays on a backend that was reported | 2 sessions, 3 backends in 2 tiers, 2 concurrent callers, TTL 2 |
| `accounting` | MCAccounting | types, counted exactly, saved debits survive, budget truthful, every debit saved | 2 agents, 2 debits, 4 ticks, window 2 |
| `accounting_reboot` | MCAccounting | violation: nothing stale | 5 ticks |
| `routing` | MCRouting | types, cache fresh, one question per TTL | 2 callers, 2 keys, TTL 2, symmetry |
| `gateway` | MCGateway | types, load of all tiers bounded, load of each tier while no session is at two together, 503 means down, admission as specified, without overlaps every request answered | 3 requests of 2 sessions that may overlap, 2 backends with one slot each, queue of 1 |
| `gateway_limit` | MCGateway | violation: one backend's limit | 2 requests, 2 small backends |
| `failover` | MCFailover | types, dead backends are left, sessions settle | 1 session with 2 requests in flight, 2 backends, one with 2 overlapping probes, thresholds 2 and 2, TTL 1 |
| `load_gen` | MCClients | types, concurrency kept, rows whole, summary tells this study, tool calls answered, results whole, every program ends | 2 sessions (or rows) of 1 or 2 turns, concurrency 1, all three modes, with and without think time; 2 profiles and a drill of 1 and 2 requests; 2 agent sessions of at most 3 requests with at most 2 tool calls |

### Why the bounds are enough

* Admission: the smallest tier has one slot, so with four requests there are
  up to two waiters behind an admitted one and a fourth request to be refused or
  to overtake: every pair of wake-up, timer and newcomer occurs. The tier of two
  slots adds the case of two releases before one resumption. Queue length 2 is
  reached.
* Health: three overlapping probes carry all three snapshots at once, and the
  thresholds are those of `configs/gateway.yaml`.
* Affinity: two callers are enough for a call to work on a list that the other
  call and the registry have overtaken; the small tier has two backends that the
  two sessions rank differently; TTL 2 has a tick inside the window, on its edge
  and beyond it.
* Accounting: `MaxDebits` and `Horizon` bound a behaviour; a window of two
  ticks within four lets a debit be made, saved, restored and expire.
* Routing: two callers can await the classifier for the same key at once.
* Gateway: three requests are one more than both backends and fill a tier and its
  queue; two sessions have turns that overlap, at one tier or at both, beside the
  turn of the other session, and, where they do not, a turn that waits for the slot
  of the other one. Waiting with more callers is left to Admission, whose steps
  these are.
* Failover: sessions share nothing but the health of the backends, so one is
  enough; its two requests make a turn that rebinds while an older one waits for
  the backend left. With thresholds of two a backend passes through DEGRADED on
  its way out and on its way back, and two overlapping probes bring verdicts on
  stale snapshots.
* Clients: one slot for two sessions makes one wait, while the open loop and replay
  run them together; two profiles make a run that follows another, and two sessions
  a run in which one fails and the other does not; three requests per agent session reach the cap (`MaxTurns`,
  8 in the code) with and without an answer.

State is not bounded elsewhere. Deadlock is checked in every run but `load_gen`:
its programs end. That each of them ends as it should is `EveryProgramEnds`.

### Fairness

Only what the code's scheduling gives:

* Admission, Gateway: weak fairness of the resumption of a ready task (the event
  loop runs every ready task) and of the end of a backend's or classifier's
  call (their HTTP clients have timeouts, `proxy.py:12`, `classifier.py:87`).
  Nothing is assumed of the timers of `wait_for` or of clients.
* Health: weak fairness of the probe round (`health.py:61` sleeps a fixed
  interval) and of the end of each probe (`health.py:94`).
* Accounting: weak fairness of the start of a save, strong fairness of its
  success: the file system does not refuse every write.
* Failover: weak fairness of the probe round and of the end of each probe, as
  in Health; of a request leaving the queue, which is `NoStarvation` of
  Admission; and of the backend's call. Turns, health of the servers and the
  clock are free: a session may never come back.
* Clients: weak fairness of the program as a whole (`GoesOn`). A program goes on
  while it can: its requests have timeouts (`generator.py:148`, `replay.py:30`,
  `agent.py:118`, `run_study.py:169`), its sleeps end, and an exception nobody
  catches ends it. That a study dies of anything else (`Dies` at any other point)
  is possible and not assumed.

## 4. What the checks show

* **Admission.** Without overlapping turns, slots are neither lost nor given
  twice, whichever way releases, timers and resumptions interleave; a late timer
  gives the slot on; the queue length is exact; callers are served in order; and
  no caller is stranded even if no timer ever fires. With overlapping turns of a
  session slots are lost. If such turns are at two tiers together, a tier may
  take more requests than it has slots, as a slot of that tier is given back for a
  user of the other; if they stay on one tier, no tier ever does (proved,
  section 5).
* **Health.** Writes that are skipped because of a stale snapshot never leave
  the registry behind for good. A backend that is HEALTHY in the registry has
  fewer failures in a row than probes that can be in flight.
* **Affinity.** Stale reads cost nothing but a rebind: a session whose backend stays
  a candidate stays on it, and when `on_backend_down` is done nobody is pinned to
  the backend it was called for, although the survivors were read before. It may
  move a session to a survivor that went down after they were read.
* **Failover.** Although `on_backend_down` is never called, and requests that
  were queued for a backend are sent to it after it died, a backend that stays
  dead gets no request any more in the end: the bindings to it are replaced as
  its sessions come back. Once every backend stays up or stays down, no session
  is moved again and again: a turn whose binding is alive is a hit.
* **Accounting.** While the file is whole a restart costs at most the debits
  since the last complete snapshot. Once the file has been opened again that
  snapshot is gone: a crash before another write succeeds costs the windows of all
  agents, whether it comes in the middle of the write or long after a write that
  failed. Failing writes delay saving but do not stop it.
* **Routing.** Calls of the classifier that cross each other never make the
  cache disagree with the latest reply, and a broken classifier is asked once
  per TTL and key. That a decision falls back to a tier that can serve, the reply
  `auto` aside (below), is seen in the gateway, as `UnavailableMeansDown`.
* **Gateway.** The requests at all backends never exceed what these are
  configured for together. Those at the backends of one tier never exceed the
  limit of the tier as long as no session has turns at two tiers together; if one
  has, they may (see Admission). Both hold across fallback, queueing and changes of
  health. A request is turned away only while no small backend is healthy.
  Everyone is answered; with overlaps, after a slot is lost, that may take the timer
  of the queue.
* **LoadGen.** A failing session loses its own rows only, and the slot it had
  is used again; the rows that are collected are whole sessions, and the file has
  all of them unless writing raised, in which case what an earlier run left is gone
  and some of the rows may be there.
* **Study.** A summary counts, for every profile, exactly the turns that its own load
  run had answered with 200, with one exception that the property names: a run
  without a row of any status leaves the file of an earlier study, which is then
  read. A run whose requests all failed is read as nothing. A load run whose file is
  cut short ends the script, so its rows never enter a summary. The container runs
  again unless docker failed. Not so if the script dies between stop and start: there
  is no `finally` block. The exit code of `docker stop` is not looked at, so a drill
  that is complete may have measured a gateway that lost nothing; no property
  excludes it.
* **DemoAgent.** Every tool call, of an unknown tool too, is answered in its
  place before the model is asked again; the output file is written only if all
  sessions have a result, and is whole if the script ends well; a write that fails
  leaves the first rows of it, and the script with an exception; the client is closed
  on every path. One failing request costs the results of all sessions before it.

Violated claims (each run finds a counterexample to one statement):

* `admission_leak`: two requests of one session in flight; the second
  overwrites `_held[session]`, and the first release pops it, so the other gives
  nothing back. The slot is lost until the gateway restarts
  (`controller.py:66,75`, against `admission/protocols.py:15`). If the first was at
  big and the second at small, the first to end gives a slot of small back while the
  second may still be at its backend, and small takes one request too many: this is
  why `TierLoadIsBounded` has a condition, without which TLC finds that trace. A
  recording that is replayed does this, and so does a load generator after its
  timeout.
* `health_pool`: one failed probe makes a HEALTHY backend DEGRADED, and so
  does the first *successful* one after start, since one success is fewer than
  two (`health.py:29,36`). Only HEALTHY backends are used, so the backend leaves
  the pool at once, and right after the start every backend is out of the pool
  for a probe interval (against `docs/architecture.md:95`).
* `accounting_reboot`: after a reboot of the host, timestamps of the previous
  boot are compared with the new monotonic clock and count for too long
  (`snapshot.py:66`, against `snapshot.py:17`).
* `gateway_limit`: `max_inflight` limits the sum over a tier; one backend may
  get all of it (`controller.py:47`, against `docs/configuration.md:38`).

Divergences seen while reading, without a run of their own:
`debit` is never called, so budgets are never used up
(`docs/architecture.md:101`); `on_backend_down` is never called
(`affinity/protocols.py:36`) and migrates bindings where `docs/affinity.md` says
it removes them; `affinity.enabled` is never read; the tool-followup rule cannot
fire because `assigned_backend_id` is never set, precedes the length rule and
keeps the tier, where `docs/routing.md` has it second and going to small; a full
queue answers 429 per tier, where `docs/configuration.md:52` says 503 and global;
the classifier's failures go to small, where `routing/protocols.py:11` says big,
and its reply `auto` can lead to a 503 while the big tier is healthy;
`BackendProxy` does not retry (`proxy.py:10`).

## 5. What is proved

All theorems hold for every value of the constants that satisfies the named
assumptions of the modules.

| Theorem | States |
|---|---|
| `AdmissionProofs!TypeCorrect`, `QueueBoundHolds`, `WakeUpFindsTheFirst`, `NobodyOvertakes`, `NoWakeupIsLost` | `TypeOK`, `QueueIsBounded`, `OneIsNext`, `NoOvertaking`, `NoLostWakeup`, with or without overlaps |
| `AdmissionSlotProofs!SlotsAreConserved`, `PoolIsImplemented`, `IdleGatewayIsFree` | `SlotsConserved`, the refinement of `SlotPool` and `IdleMeansAllFree`, assuming `~Overlapping` |
| `AdmissionSlotProofs!TierSlotsAreKept` | `TiersKeepTheirSlots`: turns may overlap, and if no session is at two tiers together no tier has more users and free slots than it was given |
| `HealthProofs!HealthTypeCorrect`, `PoolFailuresAreFew`, `RegistryIsCurrent` | `TypeOK`, `FewFailuresInPool`, `RegistryAgrees` |
| `HealthProofs!FailoverUsesHealth`, `FailoverPoolFailuresAreFew`, `FailoverTypeCorrect` | every step of `Failover` is one of `Health` or a stutter, so `FewFailuresInPool` holds under any traffic; `FailoverTypeOK` |
| `AffinityProofs!WinnerWins`, `MinimalDisruption` | the rendezvous winner exists, and removing another candidate does not change it |
| `AffinityProofs!TableTypeCorrect`, `TiersAreKept`, `ActiveSessionsStick`, `EverybodyMoves` | `TypeOK`, `EntriesKeepTheirTier`, `StickyAcrossTurns`, `NobodyStaysBehind` |
| `AccountingProofs!AccountingTypeCorrect`, `WindowsAreExact`, `SavedDebitsAreKept`, `ChecksAreTruthful` | `TypeOK`, `CountedExactly`, `SavedDebitsSurvive`, `BudgetIsTruthful`, across crashes, restarts and reboots |
| `RoutingProofs!RoutingTypeCorrect`, `CacheStaysFresh`, `ClassifierIsSpared` | `TypeOK`, `CacheIsFresh`, `AsksOncePerTtl` |
| `GatewayProofs!GatewayUsesAdmission`, `GatewayConservesSlots`, `GatewayKeepsTiers`, `GatewayServesInOrder`, `GatewayLosesNoWakeup` | every handler step is an admission step or a stutter, and so `SlotsConserved` (assuming `~Overlapping`), `TiersKeepTheirSlots`, `NoOvertaking` and `NoLostWakeup` hold of the gateway |
| `GatewayProofs!GatewayTypeCorrect`, `TierLoadHolds`, `TotalLoadHolds`, `OnlyOutagesTurnAway` | `GatewayTypeOK`, `TierLoadIsBounded` (whose condition is in the property), `TotalLoadIsBounded`, `UnavailableMeansDown`, with or without overlaps |
| `ClientsProofs!ClientsTypeCorrect`, `ConcurrencyHolds`, `RowsComeWhole`, `SummaryIsTruthful`, `CallsGetAnswers`, `ResultsComeWhole` | `ClientsTypeOK`, `ConcurrencyIsKept`, `RowsAreWholeSessions`, `SummaryTellsThisStudy`, `EveryCallIsAnswered`, `ResultsAreWhole` |

The arguments:

* *Queue* (`QueueInv`). `QueueIsBounded` is not inductive alone: that the counter
  drops by one when a request leaves needs the request to be counted under its
  own tier. `Placed` adds that a request has a tier and a session exactly while
  it is inside, and lemmas on cardinalities show that each action changes
  `At(t, InDeque)` by at most one request.
* *Slots* (`SlotInv`). A release gives back the tier found under the session. The
  inductive invariant therefore adds that the sessions of requests inside are
  different (`OnePerSession`) and that `held[sess[r]]` is the tier of an admitted
  `r` (`HeldMatches`); from it a release returns the slot to the tier that lost
  it. Without the assumption that turns do not
  overlap this fails, which is what `admission_leak` shows. `SetAndWake`, the
  common part of all steps that free a slot, has a lemma of its own.
* *Overlaps* (`HeldInv`, `OverlapInv`). With overlaps an entry of `held` is not
  that of the request that ends. But it is always the tier at which some request of
  the session is admitted (`HeldByAdmitted`): whichever of them ends first takes the
  entry away. If all of them are at one tier, the slot that `release` gives back is
  therefore of the tier at which a user has just left, and free slots and users of a
  tier (`Balance`) never grow beyond what it has. The condition is needed of the
  state before each step only, so the theorem takes `[]OneTierPerSession` as the
  hypothesis of a temporal implication. For all tiers together no condition is needed
  (`TotalInv`): a release takes one user away and gives at most one slot back,
  whichever tier it names.
* *Idle.* When nobody is inside, `At(t, Holding)` is empty and slot conservation
  leaves `value[t] = Capacity[t]`.
* *Order* (`OrderInv`). `ahead[r]` stands for the part of `_waiters` before `r`. The
  invariant says that it orders the callers inside `acquire()` of a tier strictly and
  totally, and that nobody who was woken has left a pending caller in front of it
  (`WokenInTurn`). The line moves in three ways only, which `LineMoves` reads off the
  actions: nobody comes or goes, somebody joins at its end, or somebody leaves from
  anywhere in it. Two consequences: the scan of `_wake_up_next` finds exactly one
  caller whenever anybody is pending (`OneIsNext`; a finite set with a strict total
  order has a first element), and nobody overtakes. Neither needs that turns do not overlap.
* *Wake-ups* (`WakeupInv`). A step that frees a slot of a tier hands it to the next caller
  there, or nobody is pending (`WakeLosesNone`); every other step leaves the callers that were
  woken on their way. That there is a next caller whenever somebody is pending,
  without which the model would have no step where the code has one, is `OneIsNext`.
* *Affinity.* `EntriesKeepTheirTier` needs that what every caller has read is
  of the tier of its call (candidates and survivors alike), which is an
  invariant of `call`, and that the winner is one of the candidates. `NobodyStaysBehind`
  needs it too, as `on_backend_down` passes over entries of another tier, and that
  survivors never include the backend that is reported (`DownCalls`).
* *Routing* (`RoutingInv`). `CacheIsFresh` speaks of live entries only; whether the
  classifier may be asked depends on keys without one. `Aged` adds that their last
  reply is a TTL old. `KeysChange` lists what a step can do to a key: nothing, drop
  an entry that has expired, or write the reply that has just come. The module
  assumes that `None` is not an entry of the cache, which the model value of the
  run satisfies.
* *Gateway* (`GatewayInv`). Since handler steps are admission steps, the invariants and
  the order of service of `Admission` carry over; the load bounds follow from those on slots and
  an invariant that ties the tier of an admitted request to that of its backend.
  A request that is turned away was either asking for a tier whose fallback is small, or for
  small itself; the choice looks at the health of the moment it is made, not of the arrival.
* *Stickiness* (`StickyInv`). The property speaks of the ticks a session has been idle, the
  code of the ticks left to its entry. `Remembered` ties them: while nobody
  touched the binding of a session, the entry names the backend of its last turn
  and the two numbers add up to the TTL, so an active session's entry is live when it returns, and
  a caller that read before another one's turn still finds the backend that turn left. The module
  assumes that `None` is not an entry.
* *Windows* (`AccountingInv`). `CountedExactly` compares the windows with a ledger that no
  part of the program has, so the invariant says what each entry stands for, in memory
  (`WindowInv`) and in the file for the debits that the file accounts for (`FileInv`). An entry is
  `Genuine` if its debit is of the agent, is not lost, and was made no earlier than
  the entry says and no later than that plus `boot`, since a reboot sets the clock of the
  code back. From the first bound a debit that is due is never evicted; from the second, with
  `boot = 0`, nothing that is not due is counted. The module assumes that the two
  values standing for unreadable files are not windows.
* *Saved debits.* `FileInv` says of a file that is not torn that its windows have the
  debits of the last complete snapshot, and `WindowInv` that memory has what is not
  lost; a death loses only what the file does not have. `SavedDebitsSurvive` follows,
  as `Genuine` entries are not evicted while their debits are recent.
* *Budget.* `BudgetIsTruthful` compares two sums: over the entries of a window and over
  the debits that are due. From `CountedExactly` there is a one-to-one map from the debits to entries of the same
  tokens, and without a reboot one back, since then the timestamp of an entry is the time
  of its debit. What is left is a fact about sums, `TotalAtMost`. The fold of the community modules
  is opened down to the function it recurs on, and its laws (it exists, it is
  unique, any element may be taken out first) are proved by minimal counterexamples, from the
  well-foundedness of the subset ordering, instead of an induction theorem.
* *Clients* (`ClientsInv`, one part per program; the other two programs stand still).
  LoadGen: tasks not created yet are absent, the rows of a session that is done are one
  block, and rows are appended a session at a time, so a block never splits.
  Study: the rows that are collected are the turns of the sessions that did not fail
  (`RowsAreTurns`), and a file that was closed has all of them (`FileInv`), so what is
  read back is what was measured (`FileTellsRun`); besides, the number of drill rows at
  each part of the script, which `summary` alone does not tell. DemoAgent: while the tools of a reply run, the answers so far follow that reply
  and the calls left are the rest (`IsAnswering`), and the number of replies equals the
  number of requests made, which bounds `turns`. LoadGen assumes that the file of an
  earlier run is not a sequence of rows of this one.
* *Failover* (`FailoverInv`). Traffic reads the registry and never writes it, so the
  invariants of `Health` carry over. That a selection finds a backend whenever there is a
  candidate rests on the bounded scores of rendezvous hashing.

Only model-checked:

* liveness, out of reach of the prover: `NoStarvation`, `OutageIsDetected`,
  `RecoveryIsDetected`, `EveryDebitIsSaved`, `EveryRequestIsAnswered`,
  `DeadBackendIsLeft`, `SessionsSettle`, `EveryProgramEnds`.

## 6. How to run

`tlc -config AdmissionSerial.cfg MCAdmission.tla` for a run, `tlapm
AdmissionProofs.tla` for proofs. Every property has, in `PROJECT.json`, a mutated
definition of the model that breaks it; the mutated forms stand above the
definitions they replace, marked "Mutation of".

## 7. Not modelled

* Status endpoints, telemetry, configuration and data classes: read-only views,
  counters and parsing. Settings are the constants.
* The tools of the demo agent and its corpus: text processing without state.
* Percentiles, rates and prints of the study.
* SHA-256 and the fingerprint of messages: an injective score, a set of keys.
* Bytes of answers, headers, prompts, timings. `BackendProxy` is a call that ends
  well or not; of the start and stop of the gateway only the order of restore,
  start and stop and the sizing of the queues matter, which `Accounting` and
  `Gateway` have.
* The requests of the classifier at a small backend: they take no slot and are
  not counted (hazard at `classifier.py:75`).
* Facts of the wiring that no step of a model shows: `debit` is never called and the
  tool-followup rule cannot fire (section 4).
* What the code allows and nothing in the repository denies: the sticky table is
  never pruned, a request may be sent to a backend that went down while it waited, a
  retried first turn counts as a hit. These are listed under "hazards" with the
  reason why no property covers them.

## 8. Plan

Order of work: admission first, since every request depends on it; then health
and affinity, whose state the handler reads; then accounting, routing, the
composed gateway, the load generator; then the composition of health, scheduler
and handler (`Failover`) and the other client programs. All of these exist. Left:

1. Model: the composition of the load generator with the affinity table across
   two runs (first turns that are hits, `generator.py:165`).
2. Prove: that a turn of `Failover` is a `select_backend` of
   `Affinity` with one caller; safety parts of the liveness properties (what a step towards them may not undo).
