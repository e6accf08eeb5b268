------------------------------ MODULE LoadGen ------------------------------
(***************************************************************************)
(* The load generator (loadgen/generator.py): one run of LoadGenerator     *)
(* with its SessionRunners, or one run of replay (loadgen/replay.py).  A   *)
(* closed loop creates the tasks of all sessions at once and lets a        *)
(* semaphore admit them; an open loop creates one task per interval and    *)
(* lets it run.  A session sends its turns one after the other and hands   *)
(* its rows over when it has them all.  A replay creates one task per row  *)
(* of a recorded file, a semaphore admits them, and each sends one         *)
(* request; its tasks are "sessions" here although several of them may     *)
(* belong to one session of the recording.                                 *)
(*                                                                         *)
(* A task suspends at the semaphore, at the HTTP call and in the think     *)
(* time.  The lock around all_rows is never contended, because nothing is  *)
(* awaited under it, so handing over belongs to the step that ends the     *)
(* last turn.                                                              *)
(*                                                                         *)
(* The result file is truncated first and then written; either may raise,  *)
(* and what is flushed by then is left in the file.  Which rows are        *)
(* flushed in between is not followed: nobody reads the file meanwhile.    *)
(***************************************************************************)
EXTENDS Integers, SequencesExt

CONSTANTS
  Total,        \* total_sessions, or rows of the recording
  Concurrency,  \* concurrency, the size of the semaphore
  Turns,        \* the numbers of turns randint(min_turns, max_turns) may give
  Earlier       \* a result file of an earlier run, with a row of status 200

ASSUME LoadGenAssumption ==
  /\ Total \in Nat
  /\ Concurrency \in Nat \ {0}
  /\ Turns \subseteq Nat \ {0}

Sessions == 1..Total

VARIABLES
  mode,     \* ProfileConfig.mode, or "replay"
  think,    \* think_time_seconds > 0
  spawned,  \* how many tasks have been created
  stage,    \* stage[i]: where the task of session i stands
  plan,     \* plan[i]: n_turns of session i, 0 before it starts
  turn,     \* turn[i]: rows session i has collected
  slots,    \* Semaphore._value
  served,   \* the rows with status_code 200 among those of all sessions
  rows,     \* all_rows
  writer,   \* where _write_csv stands
  file      \* the CSV at output_path

vars == <<mode, think, spawned, stage, plan, turn, slots, served, rows, writer, file>>

(* waiting: at the semaphore; asking: a request is in flight; failed: the  *)
(* runner raised, which gather(return_exceptions=True) keeps to itself.    *)
Stages == {"absent", "waiting", "asking", "thinking", "done", "failed"}
Row    == Sessions \X Nat

Writers == {"not yet", "open", "closed", "raised"}

(* So a study can tell an earlier file from one of its own. *)
ASSUME EarlierAssumption == Earlier \notin Seq(Row)

(* LoadMode, and the program that replays. *)
Modes == {"closed_loop", "open_loop", "replay"}

TypeOK ==
  /\ mode \in Modes /\ think \in BOOLEAN
  /\ spawned \in 0..Total
  /\ stage \in [Sessions -> Stages]
  /\ plan  \in [Sessions -> Turns \cup {0}]
  /\ turn  \in [Sessions -> Nat]
  /\ slots \in 0..Concurrency
  /\ rows \in Seq(Row) /\ served \subseteq Row
  /\ writer \in Writers
  /\ file = Earlier \/ file \in Seq(Row)

(* An empty file stands for none, too, and for one in which no row counts. *)
Init ==
  /\ mode \in Modes /\ think \in BOOLEAN
  /\ mode = "replay" => ~think
  /\ spawned = 0
  /\ stage = [i \in Sessions |-> "absent"]
  /\ plan  = [i \in Sessions |-> 0]
  /\ turn  = [i \in Sessions |-> 0]
  /\ slots = Concurrency
  /\ rows  = << >> /\ served = {}
  /\ writer = "not yet"
  /\ file \in {Earlier, << >>}

(* SessionRunner.run starts: it draws n_turns and sends the first turn. *)
Begin(i) ==
  /\ stage' = [stage EXCEPT ![i] = "asking"]
  /\ \E n \in Turns : plan' = [plan EXCEPT ![i] = n]
  /\ UNCHANGED <<mode, think, turn, served, rows, writer, file>>

(* _closed_loop creates every task. *)
SpawnAll ==
  /\ mode = "closed_loop" /\ spawned = 0
  /\ spawned' = Total
  /\ stage' = [i \in Sessions |-> "waiting"]
  /\ UNCHANGED <<mode, think, plan, turn, slots, served, rows, writer, file>>

(* replay creates one task per row. *)
ReplayAll ==
  /\ mode = "replay" /\ spawned = 0
  /\ spawned' = Total
  /\ stage' = [i \in Sessions |-> "waiting"]
  /\ UNCHANGED <<mode, think, plan, turn, slots, served, rows, writer, file>>

(* _open_loop creates the next one. *)
SpawnNext ==
  /\ mode = "open_loop" /\ spawned < Total
  /\ spawned' = spawned + 1
  /\ Begin(spawned + 1)
  /\ UNCHANGED slots

(* Mutation of Enter: the session starts without waiting for a slot. *)
EnterUnchecked(i) ==
  /\ mode = "closed_loop"
  /\ stage[i] = "waiting"
  /\ slots' = slots - 1
  /\ Begin(i)
  /\ UNCHANGED spawned

(* The semaphore admits session i. *)
Enter(i) ==
  /\ mode = "closed_loop"
  /\ stage[i] = "waiting" /\ slots > 0
  /\ slots' = slots - 1
  /\ Begin(i)
  /\ UNCHANGED spawned

(* Mutation of GiveBack: an exception leaves the slot taken. *)
GiveBackOnSuccess(how) ==
  slots' = IF mode = "closed_loop" /\ how = "done" THEN slots + 1 ELSE slots

GiveBack(how) == slots' = IF mode = "closed_loop" THEN slots + 1 ELSE slots

(* What session i has collected: rows of its turns 0 .. n-1. *)
Collected(i, n) == [k \in 1..n |-> <<i, k - 1>>]

(* Mutation of HandOver: a session's last row is still missing. *)
HandOverEarly(i) == rows' = rows \o Collected(i, turn[i])

HandOver(i) == rows' = rows \o Collected(i, turn'[i])

(* The next turn of session i is sent, or its rows are handed over. *)
Proceed(i) ==
  \/ /\ turn'[i] < plan[i]
     /\ stage' = [stage EXCEPT ![i] = "asking"]
     /\ UNCHANGED <<slots, rows>>
  \/ /\ turn'[i] = plan[i]
     /\ stage' = [stage EXCEPT ![i] = "done"]
     /\ HandOver(i)
     /\ GiveBack("done")

(* The request of session i ends, with a reply of status 200 or not, or    *)
(* with an exception of the client: _single_turn makes a row of it either  *)
(* way.                                                                    *)
TurnEnds(i) ==
  /\ mode # "replay"
  /\ stage[i] = "asking"
  /\ served' \in {served, served \cup {<<i, turn[i]>>}}
  /\ turn' = [turn EXCEPT ![i] = @ + 1]
  /\ \/ think /\ stage' = [stage EXCEPT ![i] = "thinking"] /\ UNCHANGED <<slots, rows>>
     \/ ~think /\ Proceed(i)
  /\ UNCHANGED <<mode, think, spawned, plan, writer, file>>

(* The reply holds a value that ResultRow rejects: the runner raises, and  *)
(* the rows the session had are lost.                                      *)
TurnBreaks(i) ==
  /\ mode # "replay"
  /\ stage[i] = "asking"
  /\ stage' = [stage EXCEPT ![i] = "failed"]
  /\ GiveBack("failed")
  /\ UNCHANGED <<mode, think, spawned, plan, turn, served, rows, writer, file>>

ThinkTimeEnds(i) ==
  /\ stage[i] = "thinking"
  /\ UNCHANGED turn
  /\ Proceed(i)
  /\ UNCHANGED <<mode, think, spawned, plan, served, writer, file>>

(* replay_one: the semaphore admits row i and its request is sent. *)
ReplayStarts(i) ==
  /\ mode = "replay"
  /\ stage[i] = "waiting" /\ slots > 0
  /\ stage' = [stage EXCEPT ![i] = "asking"]
  /\ slots' = slots - 1
  /\ UNCHANGED <<mode, think, spawned, plan, turn, served, rows, writer, file>>

(* The request of row i ends, well or with an exception, which is logged. *)
ReplayEnds(i) ==
  /\ mode = "replay"
  /\ stage[i] = "asking"
  /\ stage' = [stage EXCEPT ![i] = "done"]
  /\ slots' = slots + 1
  /\ UNCHANGED <<mode, think, spawned, plan, turn, served, rows, writer, file>>

Over == spawned = Total /\ \A i \in Sessions : stage[i] \in {"done", "failed"}

RunIsOver == Over /\ writer = "not yet"

(* Mutation of OpenFile: gather passes a session's exception on. *)
OpenFileUnlessFailed ==
  /\ RunIsOver
  /\ IF rows = << >> \/ \E i \in Sessions : stage[i] = "failed"
     THEN writer' = "closed" /\ UNCHANGED file
     ELSE writer' = "open" /\ file' = << >>
  /\ UNCHANGED <<mode, think, spawned, stage, plan, turn, slots, served, rows>>

(* gather returns; _write_csv leaves the file alone if no row came, and    *)
(* opens it for writing otherwise, which may fail.  A replay, which        *)
(* collects no rows, returns without writing.                              *)
OpenFile ==
  /\ RunIsOver
  /\ \/ rows = << >> /\ writer' = "closed" /\ UNCHANGED file
     \/ rows # << >> /\ writer' = "open" /\ file' = << >>
     \/ rows # << >> /\ writer' = "raised" /\ UNCHANGED file
  /\ UNCHANGED <<mode, think, spawned, stage, plan, turn, slots, served, rows>>

WriteRows ==
  /\ writer = "open"
  /\ \/ writer' = "closed" /\ file' = rows
     \/ writer' = "raised" /\ \E n \in 0..Len(rows) : file' = SubSeq(rows, 1, n)
  /\ UNCHANGED <<mode, think, spawned, stage, plan, turn, slots, served, rows>>

Step(i) == \/ Enter(i) \/ TurnEnds(i) \/ TurnBreaks(i) \/ ThinkTimeEnds(i)
           \/ ReplayStarts(i) \/ ReplayEnds(i)

Next == SpawnAll \/ ReplayAll \/ SpawnNext \/ (\E i \in Sessions : Step(i))
        \/ OpenFile \/ WriteRows

Spec == Init /\ [][Next]_vars

-----------------------------------------------------------------------------
(* Properties *)

Running == {i \in Sessions : stage[i] \in {"asking", "thinking"}}

(* A closed loop never has more sessions running than its concurrency, and *)
(* a session that fails makes room for another one; so it is for the       *)
(* requests of a replay (replay.py:19).                                    *)
ConcurrencyIsKept ==
  mode # "open_loop" => slots + Cardinality(Running) = Concurrency

(* However the sessions interleave, the rows of a session are complete, in *)
(* the order of its turns and next to each other, and a session that is    *)
(* not done, or failed, has none, however many turns it had.               *)
RowsAreWholeSessions ==
  \A i \in Sessions :
    LET mine == {p \in 1..Len(rows) : rows[p][1] = i}
    IN  IF stage[i] = "done"
        THEN \E o \in 0..Len(rows) :
               /\ mine = (o + 1)..(o + plan[i])
               /\ \A k \in 1..plan[i] : rows[o + k] = <<i, k - 1>>
        ELSE mine = {}
=============================================================================
