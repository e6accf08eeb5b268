----------------------------- MODULE Accounting -----------------------------
(***************************************************************************)
(* Token accounting: the sliding windows of TokenAccountant                *)
(* (accounting/accountant.py) and the SnapshotManager that carries them    *)
(* over a restart of the gateway (accounting/snapshot.py).                 *)
(*                                                                         *)
(* Time is counted in ticks.  now is the real time; the code reads         *)
(* time.monotonic(), which counts from the boot of the host, so it shows   *)
(* now - boot.  Entries carry that reading, and a snapshot file keeps it.  *)
(*                                                                         *)
(* Nothing else runs on the event loop while a snapshot is written, but    *)
(* the process or the host may die meanwhile: opening the file for writing *)
(* and finishing it are two steps.                                         *)
(***************************************************************************)
EXTENDS Integers, Sequences, FiniteSetsExt

CONSTANTS
  Agents,     \* values of agent_id
  Amounts,    \* token counts of a debit, and estimates of a check
  Budget,     \* admission.default_token_budget
  Window,     \* admission.budget_window_seconds, in ticks
  Missing,    \* no snapshot file
  Torn,       \* a snapshot file that is truncated or half written
  Horizon,    \* bound: last tick of a behaviour
  MaxDebits   \* bound: debits of a behaviour

ASSUME AccountingAssumption ==
  /\ Amounts \subseteq Nat
  /\ Budget \in Nat
  /\ Window \in Nat
  /\ Horizon \in Nat
  /\ MaxDebits \in Nat

VARIABLES
  mode,      \* what the gateway process does
  loop,      \* the snapshot-loop task is running
  now,       \* real time
  boot,      \* when the host booted
  entries,   \* entries[a]: _WindowState._entries of agent a
  file,      \* the snapshot on disk
  (* history, read by properties only *)
  ledger,    \* every debit ever made
  covered,   \* debits the file on disk accounts for
  saved,     \* debits the last snapshot written to its end accounts for
  lost       \* debits forgotten because the process died

process == <<mode, loop, entries>>
history == <<ledger, covered, saved, lost>>
vars    == <<process, now, boot, file, history>>

(* An entry names its debit, which has the tokens, and its own timestamp.  *)
Ids        == 1..MaxDebits
EntrySets  == SUBSET [id : Ids, ts : 0..Horizon]
Windows    == [Agents -> EntrySets]
Debits     == [agent : Agents, tokens : Amounts, at : 0..Horizon]
IdsOf(seq) == 1..Len(seq)

(* A file that cannot be read shows no windows. *)
ASSUME UnreadableAssumption == Missing \notin Windows /\ Torn \notin Windows

TypeOK ==
  /\ mode \in {"up", "saving", "stopping", "down"}
  /\ loop \in BOOLEAN
  /\ now \in 0..Horizon /\ boot \in 0..now
  /\ entries \in Windows
  /\ file \in Windows \cup {Missing, Torn}
  /\ ledger \in Seq(Debits) /\ Len(ledger) <= MaxDebits
  /\ covered \subseteq Ids
  /\ saved \subseteq Ids
  /\ lost \subseteq Ids

NoEntries == [a \in Agents |-> {}]

Init ==
  /\ mode = "up" /\ loop = TRUE
  /\ now = 0 /\ boot = 0
  /\ entries = NoEntries
  /\ file = Missing
  /\ ledger = << >> /\ covered = {} /\ saved = {} /\ lost = {}

Tick ==
  /\ now < Horizon
  /\ now' = now + 1
  /\ UNCHANGED <<process, boot, file, history>>

-----------------------------------------------------------------------------
(* _WindowState *)

monotonic == now - boot

(* _evict_expired *)
Kept(S) == {e \in S : e.ts >= monotonic - Window}

(* current_usage *)
Usage(a) == MapThenSumSet(LAMBDA e : ledger[e.id].tokens, Kept(entries[a]))

(* Mutation of HasBudget: a request that just fits is refused. *)
HasBudgetStrictly(a, estimated) == Usage(a) + estimated < Budget

(* has_budget *)
HasBudget(a, estimated) == Usage(a) + estimated <= Budget

(* check_budget and get_usage evict what expired. *)
Check(a) ==
  /\ mode = "up"
  /\ entries' = [entries EXCEPT ![a] = Kept(@)]
  /\ UNCHANGED <<mode, loop, now, boot, file, history>>

(* debit *)
Debit(a, n) ==
  /\ mode = "up"
  /\ Len(ledger) < MaxDebits
  /\ ledger' = Append(ledger, [agent |-> a, tokens |-> n, at |-> now])
  /\ entries' = [entries EXCEPT ![a] =
                   Kept(@) \cup {[id |-> Len(ledger) + 1, ts |-> monotonic]}]
  /\ UNCHANGED <<mode, loop, now, boot, file, covered, saved, lost>>

-----------------------------------------------------------------------------
(* SnapshotManager *)

(* _save opens the file, which truncates what was there. *)
OpenFile(next) ==
  /\ mode' = next
  /\ file' = Torn
  /\ covered' = {}
  /\ UNCHANGED <<entries, now, boot, ledger, saved, lost>>

(* The interval of the loop has passed. *)
SaveBegins ==
  /\ mode = "up" /\ loop
  /\ OpenFile("saving")
  /\ UNCHANGED loop

(* stop cancels the loop and saves once more. *)
StopBegins ==
  /\ mode = "up"
  /\ OpenFile("stopping")
  /\ loop' = FALSE

(* The process ends: its memory is gone, and with it every debit that the  *)
(* file does not account for.                                              *)
End(cov) ==
  /\ mode' = "down" /\ loop' = FALSE
  /\ entries' = NoEntries
  /\ lost' = IdsOf(ledger) \ cov

(* A save is over, the file accounting for the debits cov: the loop goes   *)
(* on, a stopping process ends.                                            *)
SaveOver(cov) ==
  /\ covered' = cov
  /\ \/ /\ mode = "saving"
        /\ mode' = "up"
        /\ UNCHANGED <<loop, entries, lost>>
     \/ mode = "stopping" /\ End(cov)
  /\ UNCHANGED <<now, boot, ledger>>

(* Mutation of SaveEnds: the snapshot has the window of one agent only. *)
SaveEndsPartial ==
  /\ file' = [a \in Agents |-> IF a = CHOOSE b \in Agents : TRUE THEN entries[a] ELSE {}]
  /\ saved' = IdsOf(ledger) \ lost
  /\ SaveOver(saved')

SaveEnds ==
  /\ file' = entries
  /\ saved' = IdsOf(ledger) \ lost
  /\ SaveOver(saved')

(* Mutation of SaveFails: the exception ends the task. *)
SaveFailsUncaught ==
  /\ mode = "saving"
  /\ mode' = "up" /\ loop' = FALSE
  /\ UNCHANGED <<covered, saved, file, entries, now, boot, ledger, lost>>

(* Writing raises; the exception is logged. *)
SaveFails ==
  /\ UNCHANGED <<file, saved>>
  /\ SaveOver(covered)

(* The process is killed; or it stops and its last save is refused before  *)
(* the file is opened.                                                     *)
Crash ==
  /\ mode # "down"
  /\ End(covered)
  /\ UNCHANGED <<now, boot, file, ledger, covered, saved>>

(* The host reboots while the gateway is down. *)
Reboot ==
  /\ mode = "down"
  /\ boot' = now
  /\ UNCHANGED <<process, now, file, history>>

(* Mutation of Restored: an entry as old as the window is discarded. *)
RestoredStrictly ==
  IF file \in {Missing, Torn} THEN NoEntries
  ELSE [a \in Agents |-> {e \in file[a] : e.ts > monotonic - Window}]

(* restore: a missing or unreadable file gives empty windows. *)
Restored ==
  IF file \in {Missing, Torn} THEN NoEntries
  ELSE [a \in Agents |-> Kept(file[a])]

(* Mutation of Start: the file is taken as it is. *)
StartTrusting ==
  /\ mode = "down"
  /\ mode' = "up" /\ loop' = TRUE
  /\ entries' = file
  /\ UNCHANGED <<now, boot, file, history>>

(* The gateway starts (lifespan): restore, then start. *)
Start ==
  /\ mode = "down"
  /\ mode' = "up" /\ loop' = TRUE
  /\ entries' = Restored
  /\ UNCHANGED <<now, boot, file, history>>

Next ==
  \/ Tick \/ Reboot
  \/ \E a \in Agents : Check(a) \/ \E n \in Amounts : Debit(a, n)
  \/ SaveBegins \/ StopBegins \/ SaveEnds \/ SaveFails
  \/ Crash \/ Start

Spec == Init /\ [][Next]_vars

(* The loop wakes up again and again, and the file system does not refuse  *)
(* every write.                                                            *)
Fairness == WF_vars(SaveBegins) /\ SF_vars(SaveEnds)

FairSpec == Spec /\ Fairness
-----------------------------------------------------------------------------
(* Properties *)

(* The debits of agent a that a correct window counts now: those of the    *)
(* last Window ticks that no death of the process wiped out.               *)
Due(a) == {i \in IdsOf(ledger) \ lost :
             ledger[i].agent = a /\ now - ledger[i].at <= Window}

(* While the gateway runs, the window of an agent misses no debit it       *)
(* should count, across evictions, snapshots, crashes and restarts, and as *)
(* long as the host has not been rebooted it counts no other one: none of  *)
(* another agent, none too old.  What a death of the process wiped out is  *)
(* not due; SavedDebitsSurvive says what it may not wipe out.              *)
CountedExactly ==
  mode \in {"up", "saving"} =>
    \A a \in Agents : LET counted == {e.id : e \in Kept(entries[a])}
                      IN  Due(a) \subseteq counted /\ (boot = 0 => counted = Due(a))

(* A debit that a complete snapshot accounts for is counted, while it is   *)
(* recent, however often the process dies and starts again, unless the     *)
(* file has been opened for writing since and not been written to its end. *)
(* Then the file is torn, whether the write is in progress, failed, or was *)
(* cut off by a death, and a death loses the windows of all agents.        *)
SavedDebitsSurvive ==
  mode = "up" /\ file # Torn =>
    \A i \in saved : now - ledger[i].at <= Window =>
      \E e \in Kept(entries[ledger[i].agent]) : e.id = i

(* check_budget lets a request through only if the debits due and its      *)
(* estimate stay within the budget, and then it does, reboots aside.       *)
BudgetIsTruthful ==
  mode = "up" =>
    \A a \in Agents, n \in Amounts :
      LET fits == MapThenSumSet(LAMBDA i : ledger[i].tokens, Due(a)) + n <= Budget
      IN  /\ HasBudget(a, n) => fits
          /\ boot = 0 /\ fits => HasBudget(a, n)

(* Each debit ends up in a snapshot or in a death of the process, although *)
(* writes may fail again and again.                                        *)
EveryDebitIsSaved ==
  \A i \in Ids : i \in IdsOf(ledger) ~> i \in covered \cup lost

(* snapshot.py:17: a restored window holds nothing older than the window.  *)
NothingStale ==
  mode = "up" =>
    \A a \in Agents : \A e \in Kept(entries[a]) : now - ledger[e.id].at <= Window
=============================================================================
