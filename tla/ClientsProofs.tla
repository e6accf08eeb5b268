---------------------------- MODULE ClientsProofs ----------------------------
(***************************************************************************)
(* Theorems about the client programs, for every number of sessions,       *)
(* turns, slots, profiles, requests of the drill and tool calls.           *)
(***************************************************************************)
EXTENDS Clients, TLAPS, FiniteSetTheorems, SequenceTheorems

USE LoadGenAssumption, StudyAssumption, AgentAssumption

(* The result file: nothing is written before all sessions are over; the   *)
(* file of a run without rows is an earlier one or none, and that of a run *)
(* with rows holds them once it is closed.                                 *)
FileInv ==
  /\ writer # "not yet" => Over
  /\ rows = << >> => file \in {Earlier, << >>}
  /\ writer = "closed" /\ rows # << >> => file = rows

(* The load generator: tasks that are not created yet are absent, the rows *)
(* of a replay have no turns, and the slots of the semaphore and the       *)
(* running sessions add up.                                                *)
LoadInv ==
  /\ TypeOK
  /\ \A i \in Sessions : i > spawned => stage[i] = "absent"
  /\ mode = "replay" => \A i \in Sessions : stage[i] # "thinking" /\ plan[i] = 0
  /\ ConcurrencyIsKept
  /\ RowsAreWholeSessions
  /\ FileInv

(* The study: what it has so far, at each of its parts. *)
DrillIs(n) ==
  /\ Len(drill) = n
  /\ \A i \in 1..n : drill[i].phase = "before_kill" <=> i <= Before

Faithful(found, measured) == found = measured.good \/ (found = Earlier /\ ~measured.any)

ReadInv ==
  /\ Len(got) = Len(read)
  /\ \A k \in 1..Len(read) : Faithful(read[k], got[k])
  /\ part \notin {"load", "died"} => Len(read) = Profiles

DrillInv ==
  /\ summary => part = "ended"
  /\ part = "load"     => drill = << >> /\ server
  /\ part = "baseline" => server /\ \E n \in 0..Before : DrillIs(n)
  /\ part = "outage"   => \E n \in Before..Before + After : DrillIs(n)
  /\ part = "restart"  => DrillIs(Before + After)
  /\ part \in {"report", "ended"} =>
       (drill = << >> \/ DrillIs(Before + After)) /\ (docker => server)

StudyInv == StudyTypeOK /\ ReadInv /\ DrillInv

(* The agent: the answers to the calls of message i follow it. *)
Answers(i) ==
  LET n == messages[i].calls
  IN  /\ n > 0
      /\ i + n <= Len(messages)
      /\ \A k \in 1..n : messages[i + k] = [role |-> "tool", calls |-> k]

(* The answers to the first calls of message i follow it, and end the      *)
(* conversation; the other calls are still to be run, in their order.      *)
IsAnswering(i) ==
  LET n    == messages[i].calls
      done == Len(messages) - i
  IN  /\ n > 0 /\ done + Len(calls) = n
      /\ \A k \in 1..done : messages[i + k] = [role |-> "tool", calls |-> k]
      /\ \A k \in 1..Len(calls) : calls[k] = done + k

ConversationInv ==
  /\ phase \in {"ready", "asking"} => \A i \in Turned : Answers(i)
  /\ phase = "tools" =>
       \E last \in Turned : IsAnswering(last) /\ \A i \in Turned \ {last} : Answers(i)

ResultsInv ==
  /\ phase \in {"ready", "asking", "tools", "finished"} => Len(results) < AgentSessions
  /\ phase = "ready" => Cardinality(Turned) = asked /\ asked < MaxTurns
  /\ phase = "asking" => Cardinality(Turned) + 1 = asked
  /\ phase \in {"tools", "finished"} => Cardinality(Turned) = asked /\ asked > 0
  /\ \A i \in 1..Len(results) : results[i].session = i /\ results[i].turns > 0
  /\ phase \in {"closing", "writing", "over"} => Len(results) = AgentSessions /\ ~client
  /\ csv # << >> =>
       /\ phase \in {"over", "raised"} /\ ~client /\ Len(results) = AgentSessions
       /\ \E n \in 0..Len(results) : csv = SubSeq(results, 1, n)
  /\ phase = "over" => csv \in {<< >>, results}
  /\ phase = "next" /\ results # << >> => (Last(results).passed => answered \/ ~keywords)

AgentInv == AgentTypeOK /\ ConversationInv /\ ResultsInv

ClientsInv == program \in Programs /\ LoadInv /\ StudyInv /\ AgentInv

-----------------------------------------------------------------------------
(* Load generator and replay *)

LEMMA PlanIsNat ==
  ASSUME TypeOK, NEW i \in Sessions PROVE plan[i] \in Nat
<1>1. plan[i] \in Turns \cup {0}
  BY DEF TypeOK
<1>2. \A n \in Turns \cup {0} : n \in Nat
  OBVIOUS
<1> QED
  BY <1>1, <1>2

LEMMA CollectedRows ==
  ASSUME NEW i \in Sessions, NEW n \in Nat
  PROVE  /\ Collected(i, n) \in Seq(Row) /\ Len(Collected(i, n)) = n
         /\ \A k \in 1..n : Collected(i, n)[k] = <<i, k - 1>>
<1>1. \A k \in 1..n : <<i, k - 1>> \in Row
  BY DEF Row
<1> QED
  BY <1>1, IsASeq DEF Collected

(* The rows of a session come after those that were there. *)
LEMMA RowsGrow ==
  ASSUME NEW rs \in Seq(Row), NEW i \in Sessions, NEW n \in Nat
  PROVE  /\ rs \o Collected(i, n) \in Seq(Row)
         /\ Len(rs \o Collected(i, n)) = Len(rs) + n
         /\ \A p \in 1..Len(rs) : (rs \o Collected(i, n))[p] = rs[p]
         /\ \A k \in 1..n : (rs \o Collected(i, n))[Len(rs) + k] = <<i, k - 1>>
<1>1. /\ Collected(i, n) \in Seq(Row) /\ Len(Collected(i, n)) = n
      /\ \A k \in 1..n : Collected(i, n)[k] = <<i, k - 1>>
  BY CollectedRows
<1>2. Len(rs) \in Nat
  BY LenProperties
<1>3. /\ rs \o Collected(i, n) \in Seq(Row)
      /\ Len(rs \o Collected(i, n)) = Len(rs) + n
      /\ \A p \in 1..Len(rs) + n :
           (rs \o Collected(i, n))[p] =
             IF p <= Len(rs) THEN rs[p] ELSE Collected(i, n)[p - Len(rs)]
  BY <1>1, ConcatProperties
<1>4. ASSUME NEW k \in 1..n PROVE (rs \o Collected(i, n))[Len(rs) + k] = <<i, k - 1>>
  <2>1. Len(rs) + k \in 1..Len(rs) + n /\ ~(Len(rs) + k <= Len(rs)) /\ Len(rs) + k - Len(rs) = k
    BY <1>2
  <2> QED
    BY <1>1, <1>3, <2>1
<1> QED
  BY <1>2, <1>3, <1>4

(* Sessions that start and sessions that end, one at a time. *)
LEMMA RunningCounts ==
  /\ Cardinality(Running) \in Nat
  /\ \A i \in Sessions \ Running : Running' = Running \cup {i} =>
       Cardinality(Running') = Cardinality(Running) + 1
  /\ \A i \in Running : Running' = Running \ {i} =>
       Cardinality(Running') = Cardinality(Running) - 1 /\ Cardinality(Running) > 0
<1>1. IsFiniteSet(Running)
  <2>1. IsFiniteSet(Sessions)
    BY FS_Interval DEF Sessions
  <2> QED
    BY <2>1, FS_Subset DEF Running
<1>2. ASSUME NEW i \in Sessions \ Running, Running' = Running \cup {i}
      PROVE  Cardinality(Running') = Cardinality(Running) + 1
  BY <1>1, <1>2, FS_AddElement
<1>3. ASSUME NEW i \in Running, Running' = Running \ {i}
      PROVE  Cardinality(Running') = Cardinality(Running) - 1 /\ Cardinality(Running) > 0
  <2>1. Cardinality(Running \ {i}) = Cardinality(Running) - 1
    BY <1>1, FS_RemoveElement
  <2>2. Cardinality(Running) # 0
    BY <1>1, FS_EmptySet
  <2> QED
    BY <1>1, <1>3, <2>1, <2>2, FS_CardinalityType
<1> QED
  BY <1>1, <1>2, <1>3, FS_CardinalityType

(* The invariant on rows in terms of these. *)
RowsOf(rs, i) == {p \in 1..Len(rs) : rs[p][1] = i}

WholeIn(rs, i, n) ==
  \E o \in 0..Len(rs) :
    /\ RowsOf(rs, i) = (o + 1)..(o + n)
    /\ \A k \in 1..n : rs[o + k] = <<i, k - 1>>

RowsAre(rs, i) == IF stage[i] = "done" THEN WholeIn(rs, i, plan[i]) ELSE RowsOf(rs, i) = {}

LEMMA RowsAreWhole == RowsAreWholeSessions <=> \A i \in Sessions : RowsAre(rows, i)
BY DEF RowsAreWholeSessions, RowsAre, RowsOf, WholeIn

LEMMA RowsWillBeWhole == RowsAreWholeSessions' <=> \A i \in Sessions : RowsAre(rows, i)'
BY DEF RowsAreWholeSessions, RowsAre, RowsOf, WholeIn

(* Rows stay whole while no session becomes done. *)
LEMMA RowsStayWhole ==
  ASSUME RowsAreWholeSessions, rows' = rows,
         \A i \in Sessions : stage'[i] = "done" <=> stage[i] = "done",
         \A i \in Sessions : stage[i] = "done" => plan'[i] = plan[i]
  PROVE  RowsAreWholeSessions'
BY RowsAreWhole, RowsWillBeWhole DEF RowsAre

(* A session that becomes done hands over all it has. *)
LEMMA WholeSessionsHandOver ==
  ASSUME TypeOK, RowsAreWholeSessions, NEW i \in Sessions, stage[i] # "done",
         stage' = [stage EXCEPT ![i] = "done"], plan' = plan,
         rows' = rows \o Collected(i, plan[i])
  PROVE  rows' \in Seq(Row) /\ RowsAreWholeSessions'
<1> DEFINE n == plan[i]
           l == Len(rows)
<1>1. n \in Nat /\ l \in Nat /\ rows \in Seq(Row)
  <2>1. rows \in Seq(Row)
    BY DEF TypeOK
  <2> QED
    BY <2>1, PlanIsNat, LenProperties
<1>2. /\ rows' \in Seq(Row)
      /\ Len(rows') = l + n
      /\ \A p \in 1..l : rows'[p] = rows[p]
      /\ \A k \in 1..n : rows'[l + k] = <<i, k - 1>>
  <2> HIDE DEF n
  <2>1. rows' = rows \o Collected(i, n)
    BY DEF n
  <2>2. /\ rows \o Collected(i, n) \in Seq(Row)
        /\ Len(rows \o Collected(i, n)) = Len(rows) + n
        /\ \A p \in 1..Len(rows) : (rows \o Collected(i, n))[p] = rows[p]
        /\ \A k \in 1..n : (rows \o Collected(i, n))[Len(rows) + k] = <<i, k - 1>>
    BY <1>1, RowsGrow
  <2> QED
    BY <2>1, <2>2
<1> HIDE DEF n, l
<1>3. ASSUME NEW p \in 1..l + n, p \notin 1..l PROVE rows'[p][1] = i
  <2>1. PICK k \in 1..n : p = l + k
    <3>1. p - l \in 1..n /\ p = l + (p - l)
      BY <1>1, <1>3
    <3> QED
      BY <3>1
  <2>2. rows'[p] = <<i, k - 1>>
    BY <1>2, <2>1
  <2> QED
    BY <2>2
<1>4. RowsOf(rows', i) = (l + 1)..(l + n)
  <2>1. RowsOf(rows, i) = {}
    BY RowsAreWhole DEF RowsAre
  <2>2. ASSUME NEW p \in (l + 1)..(l + n) PROVE p \in RowsOf(rows', i)
    <3>1. p \in 1..l + n /\ p \notin 1..l
      BY <1>1
    <3>2. p \in 1..Len(rows') /\ rows'[p][1] = i
      BY <1>2, <1>3, <3>1
    <3> QED
      BY <3>2 DEF RowsOf
  <2>3. ASSUME NEW p \in RowsOf(rows', i) PROVE p \in (l + 1)..(l + n)
    <3>1. p \in 1..l + n /\ rows'[p][1] = i
      BY <1>2 DEF RowsOf
    <3>2. p \notin 1..l
      BY <1>2, <2>1, <3>1 DEF RowsOf, l
    <3> QED
      BY <1>1, <3>1, <3>2
  <2> QED
    BY <2>2, <2>3
<1>5. ASSUME NEW j \in Sessions, j # i PROVE RowsOf(rows', j) = RowsOf(rows, j)
  BY <1>1, <1>2, <1>3, <1>5 DEF RowsOf, l
<1>6. stage'[i] = "done" /\ \A j \in Sessions \ {i} : stage'[j] = stage[j]
  BY DEF TypeOK
<1>7. ASSUME NEW j \in Sessions PROVE RowsAre(rows, j)'
  <2>1. CASE j = i
    <3>1. WholeIn(rows', i, n)
      <4>1. l \in 0..Len(rows')
        BY <1>1, <1>2
      <4> QED
        BY <1>2, <1>4, <4>1 DEF WholeIn
    <3> QED
      BY <1>6, <2>1, <3>1 DEF RowsAre, n
  <2>2. CASE j # i /\ stage[j] # "done"
    BY <1>5, <1>6, <2>2, RowsAreWhole DEF RowsAre
  <2>3. CASE j # i /\ stage[j] = "done"
    <3>1. PICK o \in 0..l : /\ RowsOf(rows, j) = (o + 1)..(o + plan[j])
                            /\ \A k \in 1..plan[j] : rows[o + k] = <<j, k - 1>>
      BY <2>3, RowsAreWhole DEF RowsAre, WholeIn, l
    <3>2. plan[j] \in Nat
      BY PlanIsNat
    <3>3. ASSUME NEW k \in 1..plan[j] PROVE rows'[o + k] = <<j, k - 1>>
      <4>1. o + k \in (o + 1)..(o + plan[j])
        BY <1>1, <3>2
      <4>2. o + k \in 1..l
        BY <3>1, <4>1 DEF RowsOf, l
      <4> QED
        BY <1>2, <3>1, <4>2
    <3>4. o \in 0..Len(rows')
      BY <1>1, <1>2
    <3>5. WholeIn(rows', j, plan[j])
      BY <1>5, <2>3, <3>1, <3>3, <3>4 DEF WholeIn
    <3> QED
      BY <1>6, <2>3, <3>5 DEF RowsAre
  <2> QED
    BY <2>1, <2>2, <2>3
<1> QED
  BY <1>2, <1>7, RowsWillBeWhole

LEMMA LoadInvInit == Init => LoadInv
<1> SUFFICES ASSUME Init PROVE LoadInv
  OBVIOUS
<1>1. Concurrency \in 0..Concurrency /\ 0 \in 0..Total
  OBVIOUS
<1>2. << >> \in Seq(Row) /\ Len(<< >>) = 0
  BY EmptySeq
<1>3. TypeOK
  BY <1>1, <1>2 DEF Init, TypeOK, Stages, Writers
<1>4. Running = {}
  BY DEF Init, Running
<1>5. ConcurrencyIsKept
  <2>1. Cardinality(Running) = 0 /\ slots = Concurrency
    BY <1>4, FS_EmptySet DEF Init
  <2> QED
    BY <2>1 DEF ConcurrencyIsKept
<1>6. RowsAreWholeSessions
  <2>1. Len(rows) = 0 /\ \A i \in Sessions : stage[i] # "done"
    BY <1>2 DEF Init
  <2> QED
    BY <2>1 DEF RowsAreWholeSessions
<1> QED
  BY <1>3, <1>5, <1>6 DEF Init, LoadInv, FileInv

(* A session that starts takes a slot, where there are slots. *)
LEMMA SessionStarts ==
  ASSUME LoadInv, TypeOK', NEW i \in Sessions, stage[i] \in {"absent", "waiting"},
         stage' = [stage EXCEPT ![i] = "asking"],
         mode # "open_loop" => slots' = slots - 1,
         \/ plan' = plan
         \/ mode # "replay" /\ \E n \in Turns : plan' = [plan EXCEPT ![i] = n],
         \A j \in Sessions : j > spawned' => j > spawned /\ j # i,
         UNCHANGED <<mode, rows, writer, file>>
  PROVE  LoadInv'
<1>1. /\ stage'[i] = "asking"
      /\ \A j \in Sessions \ {i} : stage'[j] = stage[j] /\ plan'[j] = plan[j]
  BY DEF LoadInv, TypeOK
<1>2. ConcurrencyIsKept'
  <2>1. i \in Sessions \ Running /\ Running' = Running \cup {i}
    BY <1>1 DEF Running
  <2>2. /\ Cardinality(Running) \in Nat
        /\ Cardinality(Running') = Cardinality(Running) + 1
    BY <2>1, RunningCounts
  <2> QED
    BY <2>2 DEF ConcurrencyIsKept, LoadInv, TypeOK
<1>3. RowsAreWholeSessions'
  BY <1>1, RowsStayWhole DEF LoadInv
<1>4. FileInv'
  <2>1. ~Over
    BY DEF Over
  <2> QED
    BY <2>1 DEF LoadInv, FileInv
<1> QED
  BY <1>1, <1>2, <1>3, <1>4 DEF LoadInv

(* A session that goes on keeps its slot. *)
LEMMA SessionGoesOn ==
  ASSUME LoadInv, TypeOK', NEW i \in Running, NEW t \in {"asking", "thinking"},
         stage' = [stage EXCEPT ![i] = t], mode # "replay",
         UNCHANGED <<mode, spawned, plan, slots, rows, writer, file>>
  PROVE  LoadInv'
<1>1. /\ i \in Sessions /\ stage'[i] = t /\ ~(i > spawned)
      /\ \A j \in Sessions \ {i} : stage'[j] = stage[j]
  BY DEF LoadInv, TypeOK, Running, Sessions
<1>2. Running' = Running
  BY <1>1 DEF Running
<1>3. ConcurrencyIsKept'
  BY <1>2 DEF ConcurrencyIsKept, LoadInv
<1>4. RowsAreWholeSessions'
  BY <1>1, RowsStayWhole DEF LoadInv, Running
<1>5. FileInv'
  <2>1. ~Over
    BY DEF Over, Running
  <2> QED
    BY <2>1 DEF LoadInv, FileInv
<1> QED
  BY <1>1, <1>3, <1>4, <1>5 DEF LoadInv

(* A session that ends gives its slot back; it hands its rows over unless  *)
(* it has failed.                                                          *)
LEMMA SessionEnds ==
  ASSUME LoadInv, NEW i \in Running, NEW t \in {"done", "failed"},
         stage' = [stage EXCEPT ![i] = t],
         slots' = IF mode = "open_loop" THEN slots ELSE slots + 1,
         rows' = IF t = "done" THEN rows \o Collected(i, plan[i]) ELSE rows,
         turn' \in [Sessions -> Nat], served' \subseteq Row,
         UNCHANGED <<mode, think, spawned, plan, writer, file>>
  PROVE  LoadInv'
<1>1. /\ i \in Sessions /\ stage'[i] = t /\ ~(i > spawned) /\ stage[i] # "done"
      /\ \A j \in Sessions \ {i} : stage'[j] = stage[j]
  BY DEF LoadInv, TypeOK, Running, Sessions
<1>2. rows' \in Seq(Row) /\ RowsAreWholeSessions'
  <2>1. CASE t = "done"
    BY <1>1, <2>1, WholeSessionsHandOver DEF LoadInv
  <2>2. CASE t = "failed"
    BY <1>1, <2>2, RowsStayWhole DEF LoadInv, TypeOK
  <2> QED
    BY <2>1, <2>2
<1>3. Running' = Running \ {i}
  BY <1>1 DEF Running
<1>5. /\ Cardinality(Running') = Cardinality(Running) - 1
      /\ Cardinality(Running) \in Nat /\ Cardinality(Running) > 0
  <2>1. i \in Running /\ Cardinality(Running) \in Nat
    BY RunningCounts
  <2> QED
    BY <1>3, <2>1, RunningCounts
<1>6. mode # "open_loop" => slots' \in 0..Concurrency
  BY <1>5 DEF LoadInv, ConcurrencyIsKept, TypeOK
<1>7. stage' \in [Sessions -> Stages]
  BY DEF LoadInv, TypeOK, Stages
<1>8. TypeOK'
  BY <1>2, <1>6, <1>7 DEF LoadInv, TypeOK
<1>9. ConcurrencyIsKept'
  BY <1>5 DEF LoadInv, ConcurrencyIsKept, TypeOK
<1>10. rows' = << >> => rows = << >>
  <2>1. Len(rows') >= Len(rows)
    BY <1>1, PlanIsNat, RowsGrow DEF LoadInv, TypeOK
  <2> QED
    BY <2>1, EmptySeq DEF LoadInv, TypeOK
<1>11. FileInv'
  <2>1. ~Over
    BY DEF Over, Running
  <2> QED
    BY <1>10, <2>1 DEF LoadInv, FileInv
<1> QED
  BY <1>1, <1>2, <1>8, <1>9, <1>11 DEF LoadInv

(* The tasks of a closed loop or a replay are created together. *)
LEMMA AllAreSpawned ==
  ASSUME LoadInv, mode # "open_loop", spawned = 0, spawned' = Total,
         stage' = [i \in Sessions |-> "waiting"],
         UNCHANGED <<mode, think, plan, turn, slots, served, rows, writer, file>>
  PROVE  LoadInv'
<1>1. TypeOK'
  BY DEF LoadInv, TypeOK, Stages
<1>2. \A i \in Sessions : i > 0 /\ ~(i > Total)
  BY DEF Sessions
<1>3. \A i \in Sessions : stage[i] = "absent" /\ stage'[i] = "waiting"
  BY <1>2 DEF LoadInv
<1>4. Running' = Running
  BY <1>3 DEF Running
<1>5. RowsAreWholeSessions'
  BY <1>3, RowsStayWhole DEF LoadInv
<1>6. FileInv'
  <2>1. writer # "not yet" => Over'
    BY <1>2 DEF LoadInv, FileInv, Over
  <2> QED
    BY <2>1 DEF LoadInv, FileInv
<1> QED
  BY <1>1, <1>2, <1>3, <1>4, <1>5, <1>6 DEF LoadInv, ConcurrencyIsKept

LEMMA LoadInvStep == LoadInv /\ [Next]_vars => LoadInv'
<1> SUFFICES ASSUME LoadInv, [Next]_vars PROVE LoadInv'
  OBVIOUS
<1>1. CASE SpawnAll \/ ReplayAll
  BY <1>1, AllAreSpawned DEF SpawnAll, ReplayAll
<1>2. CASE SpawnNext
  <2> DEFINE i == spawned + 1
  <2>1. /\ i \in Sessions /\ spawned' = i /\ i \in 0..Total
        /\ \A j \in Sessions : j > spawned' => j > spawned /\ j # i
        /\ i > spawned /\ spawned < Total
    BY <1>2 DEF SpawnNext, Sessions, LoadInv, TypeOK
  <2>2. PICK n \in Turns : plan' = [plan EXCEPT ![i] = n]
    BY <1>2 DEF SpawnNext, Begin
  <2>3. /\ stage' = [stage EXCEPT ![i] = "asking"]
        /\ mode = "open_loop"
        /\ UNCHANGED <<mode, think, turn, slots, served, rows, writer, file>>
    BY <1>2 DEF SpawnNext, Begin
  <2> HIDE DEF i
  <2>4. TypeOK'
    BY <2>1, <2>2, <2>3 DEF LoadInv, TypeOK, Stages
  <2>5. stage[i] = "absent"
    BY <2>1 DEF LoadInv
  <2> QED
    BY <2>1, <2>2, <2>3, <2>4, <2>5, SessionStarts
<1>3. ASSUME NEW i \in Sessions, Enter(i) PROVE LoadInv'
  <2>1. PICK n \in Turns : plan' = [plan EXCEPT ![i] = n]
    BY <1>3 DEF Enter, Begin
  <2>2. /\ stage' = [stage EXCEPT ![i] = "asking"]
        /\ mode = "closed_loop" /\ stage[i] = "waiting"
        /\ slots > 0 /\ slots' = slots - 1
        /\ UNCHANGED <<mode, think, spawned, turn, served, rows, writer, file>>
    BY <1>3 DEF Enter, Begin
  <2>3. slots' \in 0..Concurrency
    BY <2>2 DEF LoadInv, TypeOK
  <2>4. TypeOK'
    BY <2>1, <2>2, <2>3 DEF LoadInv, TypeOK, Stages
  <2>5. \A j \in Sessions : j > spawned' => j > spawned /\ j # i
    BY <2>2 DEF LoadInv
  <2> QED
    BY <2>1, <2>2, <2>4, <2>5, SessionStarts
<1>4. ASSUME NEW i \in Sessions, ReplayStarts(i) PROVE LoadInv'
  <2>1. /\ stage' = [stage EXCEPT ![i] = "asking"]
        /\ mode = "replay" /\ stage[i] = "waiting"
        /\ slots > 0 /\ slots' = slots - 1
        /\ UNCHANGED <<mode, think, spawned, plan, turn, served, rows, writer, file>>
    BY <1>4 DEF ReplayStarts
  <2>2. slots' \in 0..Concurrency
    BY <2>1 DEF LoadInv, TypeOK
  <2>3. TypeOK'
    BY <2>1, <2>2 DEF LoadInv, TypeOK, Stages
  <2>4. \A j \in Sessions : j > spawned' => j > spawned /\ j # i
    BY <2>1 DEF LoadInv
  <2> QED
    BY <2>1, <2>3, <2>4, SessionStarts
<1>5. ASSUME NEW i \in Sessions, TurnEnds(i) \/ ThinkTimeEnds(i) PROVE LoadInv'
  <2>1. /\ i \in Running /\ mode # "replay"
        /\ UNCHANGED <<mode, think, spawned, plan, writer, file>>
    BY <1>5 DEF TurnEnds, ThinkTimeEnds, Running, LoadInv
  <2>2. turn' \in [Sessions -> Nat] /\ served' \subseteq Row
    <3>1. /\ turn \in [Sessions -> Nat] /\ served \subseteq Row
          /\ turn[i] \in Nat /\ <<i, turn[i]>> \in Row
      BY DEF LoadInv, TypeOK, Row
    <3>2. CASE TurnEnds(i)
      BY <3>1, <3>2 DEF TurnEnds
    <3>3. CASE ThinkTimeEnds(i)
      BY <3>1, <3>3 DEF ThinkTimeEnds
    <3> QED
      BY <1>5, <3>2, <3>3
  <2>3. ASSUME NEW t \in {"asking", "thinking"},
               stage' = [stage EXCEPT ![i] = t], UNCHANGED <<slots, rows>>
        PROVE  LoadInv'
    <3>1. TypeOK'
      BY <2>1, <2>2, <2>3 DEF LoadInv, TypeOK, Stages
    <3> QED
      BY <2>1, <2>3, <3>1, SessionGoesOn
  <2>4. ASSUME turn'[i] = plan[i], stage' = [stage EXCEPT ![i] = "done"],
               HandOver(i), GiveBack("done")
        PROVE  LoadInv'
    <3>1. rows' = rows \o Collected(i, plan[i])
      BY <2>4 DEF HandOver
    <3>2. slots' = IF mode = "open_loop" THEN slots ELSE slots + 1
      BY <2>1, <2>4 DEF GiveBack, LoadInv, TypeOK, Modes
    <3> QED
      BY <2>1, <2>2, <2>4, <3>1, <3>2, SessionEnds
  <2> QED
    BY <1>5, <2>3, <2>4 DEF TurnEnds, ThinkTimeEnds, Proceed
<1>6. ASSUME NEW i \in Sessions, TurnBreaks(i) PROVE LoadInv'
  <2>1. /\ i \in Running /\ mode # "replay"
        /\ stage' = [stage EXCEPT ![i] = "failed"]
        /\ UNCHANGED <<mode, think, spawned, plan, turn, served, rows, writer, file>>
    BY <1>6 DEF TurnBreaks, Running
  <2>2. slots' = IF mode = "open_loop" THEN slots ELSE slots + 1
    BY <1>6, <2>1 DEF TurnBreaks, GiveBack, LoadInv, TypeOK, Modes
  <2>3. turn' \in [Sessions -> Nat] /\ served' \subseteq Row
    BY <2>1 DEF LoadInv, TypeOK
  <2> QED
    BY <2>1, <2>2, <2>3, SessionEnds
<1>7. ASSUME NEW i \in Sessions, ReplayEnds(i) PROVE LoadInv'
  <2>1. /\ i \in Running /\ mode = "replay"
        /\ stage' = [stage EXCEPT ![i] = "done"]
        /\ slots' = slots + 1
        /\ UNCHANGED <<mode, think, spawned, plan, turn, served, rows, writer, file>>
    BY <1>7 DEF ReplayEnds, Running
  <2>2. /\ plan[i] = 0 /\ rows \in Seq(Row)
        /\ turn' \in [Sessions -> Nat] /\ served' \subseteq Row
    BY <2>1 DEF LoadInv, TypeOK
  <2>3. rows' = rows \o Collected(i, plan[i])
    <3>1. Collected(i, 0) = << >>
      BY CollectedRows, EmptySeq
    <3> QED
      BY <2>1, <2>2, <3>1, ConcatEmptySeq
  <2> QED
    BY <2>1, <2>2, <2>3, SessionEnds
<1>8. CASE OpenFile \/ WriteRows
  <2>1. UNCHANGED <<mode, think, spawned, stage, plan, turn, slots, served, rows>>
    BY <1>8 DEF OpenFile, WriteRows
  <2>2. writer' \in Writers /\ (file' = Earlier \/ file' \in Seq(Row))
    <3>1. CASE OpenFile
      BY <3>1, EmptySeq DEF OpenFile, LoadInv, TypeOK, Writers
    <3>2. ASSUME NEW n \in 0..Len(rows) PROVE SubSeq(rows, 1, n) \in Seq(Row)
      <4>1. rows \in Seq(Row) /\ n \in Int /\ Len(rows) \in Nat
        BY LenProperties DEF LoadInv, TypeOK
      <4>2. \A p \in 1..n : rows[p] \in Row
        BY <4>1, ElementOfSeq
      <4> QED
        BY <4>1, <4>2, SubSeqProperties
    <3>3. CASE WriteRows
      BY <3>2, <3>3 DEF WriteRows, LoadInv, TypeOK, Writers
    <3> QED
      BY <1>8, <3>1, <3>3
  <2>3. TypeOK'
    BY <2>1, <2>2 DEF LoadInv, TypeOK
  <2>4. RowsAreWholeSessions'
    BY <2>1, RowsStayWhole DEF LoadInv
  <2>5. ConcurrencyIsKept'
    BY <2>1 DEF LoadInv, ConcurrencyIsKept, Running
  <2>6. FileInv'
    <3>1. Over /\ Over'
      BY <1>8, <2>1 DEF OpenFile, WriteRows, RunIsOver, LoadInv, FileInv, Over
    <3>2. CASE OpenFile
      BY <2>1, <3>1, <3>2 DEF OpenFile, LoadInv, FileInv
    <3>3. CASE WriteRows
      <4>1. rows = << >> => file' = << >>
        <5>1. ASSUME NEW n \in 0..Len(rows), rows = << >> PROVE SubSeq(rows, 1, n) = << >>
          <6>1. n = 0
            BY <5>1, EmptySeq
          <6> QED
            BY <6>1, SubSeqEmpty
        <5> QED
          BY <3>3, <5>1 DEF WriteRows
      <4> QED
        BY <2>1, <3>1, <3>3, <4>1 DEF WriteRows, LoadInv, FileInv
    <3> QED
      BY <1>8, <3>2, <3>3
  <2> QED
    BY <2>1, <2>3, <2>4, <2>5, <2>6 DEF LoadInv
<1>9. CASE UNCHANGED vars
  <2>1. UNCHANGED <<mode, think, spawned, stage, plan, turn, slots, served, rows, writer, file>>
    BY <1>9 DEF vars
  <2>2. TypeOK'
    BY <2>1 DEF LoadInv, TypeOK
  <2>3. RowsAreWholeSessions'
    BY <2>1, RowsStayWhole DEF LoadInv
  <2>4. ConcurrencyIsKept'
    BY <2>1 DEF LoadInv, ConcurrencyIsKept, Running
  <2>5. FileInv'
    BY <2>1 DEF LoadInv, FileInv, Over
  <2> QED
    BY <2>1, <2>2, <2>3, <2>4, <2>5 DEF LoadInv
<1> QED
  BY <1>1, <1>2, <1>3, <1>4, <1>5, <1>6, <1>7, <1>8, <1>9 DEF Next, Step
-----------------------------------------------------------------------------
(* Load study *)

LEMMA StudyInvInit == StudyInit => StudyInv
<1> SUFFICES ASSUME StudyInit PROVE StudyInv
  OBVIOUS
<1>1. /\ << >> \in Seq(Read) /\ << >> \in Seq(Gained) /\ Len(<< >>) = 0
      /\ << >> \in Seq([phase : {"before_kill", "after_kill"}, ok : BOOLEAN])
  BY EmptySeq
<1>2. StudyTypeOK
  <2>1. server \in BOOLEAN /\ summary \in BOOLEAN /\ docker \in BOOLEAN
    BY Zenon DEF StudyInit
  <2>2. part \in Parts
    BY DEF StudyInit, Parts
  <2>3. Len(read) <= Profiles
    BY <1>1 DEF StudyInit
  <2> QED
    BY <1>1, <2>1, <2>2, <2>3, Zenon DEF StudyInit, StudyTypeOK
<1>3. ReadInv
  BY <1>1 DEF StudyInit, ReadInv
<1>4. DrillInv
  BY DEF StudyInit, DrillInv
<1> QED
  BY <1>2, <1>3, <1>4 DEF StudyInv

(* A new load run begins where every load run begins. *)
LEMMA NextProfileBegins == LoadInv /\ NextProfile => LoadInv'
<1> SUFFICES ASSUME LoadInv, NextProfile PROVE LoadInv'
  OBVIOUS
<1>1. Concurrency \in 0..Concurrency /\ 0 \in 0..Total
  OBVIOUS
<1>2. << >> \in Seq(Row) /\ Len(<< >>) = 0
  BY EmptySeq
<1>3. TypeOK'
  BY <1>1, <1>2 DEF NextProfile, LoadInv, TypeOK, Stages, Writers
<1>4. Running' = {}
  BY DEF NextProfile, Running
<1>5. ConcurrencyIsKept'
  <2>1. Cardinality(Running') = 0 /\ slots' = Concurrency
    BY <1>4, FS_EmptySet DEF NextProfile
  <2> QED
    BY <2>1 DEF ConcurrencyIsKept
<1>6. RowsAreWholeSessions'
  <2>1. Len(rows') = 0 /\ \A i \in Sessions : stage'[i] # "done"
    BY <1>2 DEF NextProfile
  <2> QED
    BY <2>1 DEF RowsAreWholeSessions
<1> QED
  BY <1>3, <1>5, <1>6 DEF NextProfile, LoadInv, FileInv

(* all_rows has the turns of the sessions that did not fail and no others. *)
LEMMA RowsAreTurns ==
  ASSUME LoadInv, NEW i \in Sessions, NEW t \in Nat
  PROVE  (\E p \in 1..Len(rows) : rows[p] = <<i, t>>) <=> stage[i] = "done" /\ t < plan[i]
<1>1. plan[i] \in Nat /\ Len(rows) \in Nat /\ RowsAre(rows, i)
  BY PlanIsNat, LenProperties, RowsAreWhole DEF LoadInv, TypeOK
<1>2. ASSUME NEW p \in 1..Len(rows), rows[p] = <<i, t>>
      PROVE  stage[i] = "done" /\ t < plan[i]
  <2>1. p \in RowsOf(rows, i)
    BY <1>2 DEF RowsOf
  <2>2. stage[i] = "done" /\ WholeIn(rows, i, plan[i])
    BY <1>1, <2>1 DEF RowsAre
  <2>3. PICK o \in 0..Len(rows) : /\ RowsOf(rows, i) = (o + 1)..(o + plan[i])
                                  /\ \A k \in 1..plan[i] : rows[o + k] = <<i, k - 1>>
    BY <2>2 DEF WholeIn
  <2>4. p - o \in 1..plan[i] /\ o + (p - o) = p
    BY <1>1, <2>1, <2>3
  <2>5. rows[p] = <<i, p - o - 1>>
    BY <2>3, <2>4
  <2>6. t = p - o - 1
    BY <1>2, <2>5
  <2> QED
    BY <1>1, <2>2, <2>4, <2>6
<1>3. ASSUME stage[i] = "done", t < plan[i]
      PROVE  \E p \in 1..Len(rows) : rows[p] = <<i, t>>
  <2>1. PICK o \in 0..Len(rows) : /\ RowsOf(rows, i) = (o + 1)..(o + plan[i])
                                  /\ \A k \in 1..plan[i] : rows[o + k] = <<i, k - 1>>
    BY <1>1, <1>3 DEF RowsAre, WholeIn
  <2>2. t + 1 \in 1..plan[i] /\ o + (t + 1) \in (o + 1)..(o + plan[i])
    BY <1>1, <1>3
  <2>3. rows[o + (t + 1)] = <<i, t + 1 - 1>>
    BY <2>1, <2>2
  <2>4. o + (t + 1) \in 1..Len(rows)
    BY <2>1, <2>2 DEF RowsOf
  <2> QED
    BY <2>3, <2>4
<1> QED
  BY <1>2, <1>3

(* What is read back is what this run has measured, unless it has nothing. *)
LEMMA FileTellsRun ==
  ASSUME LoadInv, Written
  PROVE  FoundInFile \in Read /\ Measured \in Gained /\ Faithful(FoundInFile, Measured)
<1> DEFINE done == {i \in Sessions : stage[i] = "done"}
           good == {r \in served : r[1] \in done /\ r[2] < plan[r[1]]}
           any  == \E i \in done : plan[i] > 0
<1>1. Measured = [any |-> any, good |-> good]
  BY DEF Measured
<1>2. served \subseteq Row /\ rows \in Seq(Row) /\ Len(rows) \in Nat
  BY LenProperties DEF LoadInv, TypeOK
<1>3. FoundInFile \in Read
  BY <1>2 DEF FoundInFile, Read
<1>4. good \in SUBSET Row /\ any \in BOOLEAN
  BY <1>2
<1>5. Measured \in Gained
  <2> HIDE DEF good, any
  <2> QED
    BY <1>1, <1>4 DEF Gained
<1>6. ASSUME NEW r \in served PROVE r \in good <=> \E p \in 1..Len(rows) : rows[p] = r
  <2>1. PICK i \in Sessions, t \in Nat : r = <<i, t>>
    BY <1>2 DEF Row
  <2> QED
    BY <2>1, RowsAreTurns
<1>7. CASE rows # << >>
  <2>1. file = rows /\ file # Earlier
    BY <1>2, <1>7, EarlierAssumption DEF LoadInv, FileInv, Written
  <2>2. FoundInFile = {rows[p] : p \in 1..Len(rows)} \cap served
    BY <2>1 DEF FoundInFile
  <2>3. FoundInFile = good
    BY <1>6, <2>2
  <2> QED
    BY <1>1, <1>3, <1>5, <2>3 DEF Faithful
<1>8. CASE rows = << >>
  <2>1. Len(rows) = 0
    BY <1>8, EmptySeq
  <2>2. good = {}
    BY <1>6, <2>1
  <2>3. ~any
    <3>1. ASSUME NEW i \in done, plan[i] > 0 PROVE FALSE
      <4>1. i \in Sessions /\ stage[i] = "done" /\ 0 < plan[i] /\ 0 \in Nat
        BY <3>1
      <4>2. \E p \in 1..Len(rows) : rows[p] = <<i, 0>>
        BY <4>1, RowsAreTurns
      <4> QED
        BY <2>1, <4>2
    <3> QED
      BY <3>1
  <2>4. FoundInFile = Earlier \/ FoundInFile = {}
    <3>1. file = Earlier \/ file = << >>
      BY <1>8 DEF LoadInv, FileInv
    <3>2. CASE file = Earlier
      BY <3>2 DEF FoundInFile
    <3>3. CASE file = << >>
      <4>1. {file[p] : p \in 1..Len(file)} = {}
        BY <2>1, <1>8, <3>3
      <4> QED
        BY <4>1 DEF FoundInFile
    <3> QED
      BY <3>1, <3>2, <3>3
  <2> HIDE DEF good, any
  <2>5. Measured.good = {} /\ ~Measured.any
    BY <1>1, <2>2, <2>3
  <2> QED
    BY <1>3, <1>5, <2>4, <2>5 DEF Faithful
<1> QED
  BY <1>7, <1>8

(* One more request of the drill in the phase that is due. *)
LEMMA DrillGoesOn ==
  ASSUME StudyTypeOK, NEW n \in Nat, DrillIs(n), NEW now, NEW bound \in Nat, Len(drill) < bound,
         NEW ph \in {"before_kill", "after_kill"}, ph = "before_kill" <=> n < Before,
         DrillRequest(now, ph, bound)
  PROVE  /\ n + 1 <= bound /\ DrillIs(n + 1)'
         /\ drill' \in Seq([phase : {"before_kill", "after_kill"}, ok : BOOLEAN])
<1> DEFINE Request == [phase : {"before_kill", "after_kill"}, ok : BOOLEAN]
<1>1. PICK r \in Request : drill' = Append(drill, r) /\ r.phase = ph
  BY DEF DrillRequest
<1>2. drill \in Seq(Request) /\ Len(drill) = n
  BY DEF StudyTypeOK, DrillIs
<1> HIDE DEF Request
<1>3. /\ drill' \in Seq(Request) /\ Len(drill') = n + 1
      /\ \A i \in 1..n : drill'[i] = drill[i]
      /\ drill'[n + 1] = r
  BY <1>1, <1>2, AppendProperties
<1>4. ASSUME NEW i \in 1..n + 1 PROVE drill'[i].phase = "before_kill" <=> i <= Before
  <2>1. CASE i \in 1..n
    BY <1>3, <2>1 DEF DrillIs
  <2>2. CASE i = n + 1
    BY <1>1, <1>3, <2>2
  <2> QED
    BY <2>1, <2>2
<1> QED
  BY <1>2, <1>3, <1>4 DEF DrillIs, Request

LEMMA StudyStandsStill == StudyInv /\ UNCHANGED studyVars => StudyInv'
<1> SUFFICES ASSUME StudyInv, UNCHANGED studyVars PROVE StudyInv'
  OBVIOUS
<1>1. UNCHANGED <<part, read, drill, server, summary, got, docker>>
  BY DEF studyVars
<1>2. StudyTypeOK'
  BY <1>1 DEF StudyInv, StudyTypeOK
<1>3. ReadInv'
  BY <1>1, Zenon DEF StudyInv, ReadInv
<1>4. DrillInv'
  BY <1>1, Zenon DEF StudyInv, DrillInv, DrillIs
<1> QED
  BY <1>2, <1>3, <1>4 DEF StudyInv

(* What was read stays as it is, until all is read. *)
LEMMA ReadStays ==
  ASSUME StudyInv, UNCHANGED <<read, got>>,
         part' \notin {"load", "died"} => part \notin {"load", "died"} \/ Len(read) = Profiles
  PROVE  ReadInv'
<1>1. read' = read /\ got' = got
  OBVIOUS
<1>2. Len(got') = Len(read') /\ (part' \notin {"load", "died"} => Len(read') = Profiles)
  BY <1>1 DEF StudyInv, ReadInv
<1>3. \A k \in 1..Len(read') : Faithful(read'[k], got'[k])
  BY <1>1, Zenon DEF StudyInv, ReadInv
<1> QED
  BY <1>2, <1>3, Zenon DEF ReadInv

LEMMA StudyInvStep ==
  ASSUME LoadInv, StudyInv, StudyNext
  PROVE  LoadInv' /\ StudyInv'
<1>0. ASSUME drill' = drill PROVE \A n : DrillIs(n)' <=> DrillIs(n)
  BY <1>0 DEF DrillIs
<1>1. CASE LoadStep
  BY <1>1, LoadInvStep, StudyStandsStill DEF LoadStep
<1>2. CASE ReadBack
  <2> DEFINE l == Len(read)
  <2>1. /\ part = "load" /\ l < Profiles /\ Written
        /\ read' = Append(read, FoundInFile) /\ got' = Append(got, Measured)
        /\ NextProfile
        /\ UNCHANGED <<part, drill, server, summary, docker>>
    BY <1>2 DEF ReadBack
  <2>2. /\ read \in Seq(Read) /\ got \in Seq(Gained) /\ Len(got) = l /\ l \in Nat
        /\ FoundInFile \in Read /\ Measured \in Gained
    BY <2>1, FileTellsRun, LenProperties DEF StudyInv, StudyTypeOK, ReadInv
  <2>3. /\ read' \in Seq(Read) /\ Len(read') = l + 1
        /\ \A k \in 1..l : read'[k] = read[k]
        /\ read'[l + 1] = FoundInFile
    BY <2>1, <2>2, AppendProperties
  <2>4. /\ got' \in Seq(Gained) /\ Len(got') = l + 1
        /\ \A k \in 1..l : got'[k] = got[k]
        /\ got'[l + 1] = Measured
    BY <2>1, <2>2, AppendProperties
  <2>5. ASSUME NEW k \in 1..l + 1 PROVE Faithful(read'[k], got'[k])
    <3>1. CASE k \in 1..l
      BY <2>3, <2>4, <3>1 DEF StudyInv, ReadInv
    <3>2. CASE k = l + 1
      <4>1. got'[k] = Measured /\ read'[k] = FoundInFile
        BY <2>3, <2>4, <3>2
      <4> QED
        BY <2>1, <4>1, FileTellsRun
    <3>3. k \in 1..l \/ k = l + 1
      BY <2>2
    <3> QED
      BY <3>1, <3>2, <3>3, Zenon
  <2> HIDE DEF l
  <2>6. l + 1 <= Profiles
    BY <2>1, <2>2
  <2>7. StudyTypeOK'
    BY <2>1, <2>3, <2>4, <2>6 DEF StudyInv, StudyTypeOK
  <2>8. StudyInv'
    <3>1. ReadInv'
      BY <2>1, <2>3, <2>4, <2>5 DEF ReadInv
    <3> QED
      BY <1>0, <2>1, <2>7, <3>1 DEF StudyInv, DrillInv
  <2> QED
    BY <2>1, <2>8, NextProfileBegins
<1>3. ASSUME UNCHANGED vars PROVE LoadInv'
  BY <1>3, LoadInvStep
<1>4. CASE LoadsAreOver
  <2>1. DrillIs(0) <=> drill = << >>
    BY EmptySeq DEF DrillIs, StudyInv, StudyTypeOK
  <2>2. LoadInv'
    BY <1>3, <1>4 DEF LoadsAreOver
  <2>3. StudyTypeOK'
    BY <1>4 DEF LoadsAreOver, StudyInv, StudyTypeOK, Parts
  <2>4. ReadInv'
    BY <1>4, ReadStays DEF LoadsAreOver, StudyInv, StudyTypeOK
  <2>5. DrillInv'
    BY <1>0, <1>4, <2>1 DEF LoadsAreOver, StudyInv, DrillInv
  <2> QED
    BY <2>2, <2>3, <2>4, <2>5 DEF StudyInv
<1>5. CASE BaselineRequest
  <2>1. /\ part = "baseline" /\ Len(drill) < Before /\ DrillRequest("baseline", "before_kill", Before)
        /\ UNCHANGED <<vars, part, read, server, summary, got, docker>>
    BY <1>5 DEF BaselineRequest, DrillRequest
  <2>2. PICK n \in 0..Before : DrillIs(n)
    BY <2>1 DEF StudyInv, DrillInv
  <2>3. n + 1 \in 0..Before /\ DrillIs(n + 1)'
        /\ drill' \in Seq([phase : {"before_kill", "after_kill"}, ok : BOOLEAN])
    <3>1. n \in Nat /\ Len(drill) = n
      BY <2>2 DEF DrillIs
    <3> QED
      BY <2>1, <2>2, <3>1, DrillGoesOn DEF StudyInv
  <2> QED
    BY <1>3, <2>1, <2>3 DEF StudyInv, StudyTypeOK, ReadInv, DrillInv
<1>6. CASE OutageRequest
  <2>1. /\ part = "outage" /\ Len(drill) < Before + After
        /\ DrillRequest("outage", "after_kill", Before + After)
        /\ UNCHANGED <<vars, part, read, server, summary, got, docker>>
    BY <1>6 DEF OutageRequest, DrillRequest
  <2>2. PICK n \in Before..Before + After : DrillIs(n)
    BY <2>1 DEF StudyInv, DrillInv
  <2>3. n + 1 \in Before..Before + After /\ DrillIs(n + 1)'
        /\ drill' \in Seq([phase : {"before_kill", "after_kill"}, ok : BOOLEAN])
    <3>1. n \in Nat /\ Len(drill) = n
      BY <2>2 DEF DrillIs
    <3> QED
      BY <2>1, <2>2, <3>1, DrillGoesOn DEF StudyInv
  <2> QED
    BY <1>3, <2>1, <2>3 DEF StudyInv, StudyTypeOK, ReadInv, DrillInv
<1>7. CASE StopServer
  <2>1. \A n : DrillIs(n) => n = Len(drill)
    BY DEF DrillIs
  <2>2. LoadInv'
    BY <1>3, <1>7 DEF StopServer
  <2>3. StudyTypeOK'
    BY <1>7 DEF StopServer, StudyInv, StudyTypeOK, Parts
  <2>4. ReadInv'
    BY <1>7, ReadStays DEF StopServer, StudyInv, StudyTypeOK
  <2>5. DrillInv'
    BY <1>0, <1>7, <2>1 DEF StopServer, StudyInv, DrillInv
  <2> QED
    BY <2>2, <2>3, <2>4, <2>5 DEF StudyInv
<1>8. CASE WriteDrill
  <2>1. \A n : DrillIs(n) => n = Len(drill)
    BY DEF DrillIs
  <2>2. LoadInv'
    BY <1>3, <1>8 DEF WriteDrill
  <2>3. StudyTypeOK'
    BY <1>8 DEF WriteDrill, StudyInv, StudyTypeOK, Parts
  <2>4. ReadInv'
    BY <1>8, ReadStays DEF WriteDrill, StudyInv, StudyTypeOK
  <2>5. DrillInv'
    BY <1>0, <1>8, <2>1 DEF WriteDrill, StudyInv, DrillInv
  <2> QED
    BY <2>2, <2>3, <2>4, <2>5 DEF StudyInv
<1>9. CASE StartServer
  <2>2. LoadInv'
    BY <1>3, <1>9 DEF StartServer
  <2>3. StudyTypeOK'
    BY <1>9 DEF StartServer, StudyInv, StudyTypeOK, Parts
  <2>4. ReadInv'
    BY <1>9, ReadStays DEF StartServer, StudyInv, StudyTypeOK
  <2>5. DrillInv'
    BY <1>0, <1>9 DEF StartServer, StudyInv, DrillInv
  <2> QED
    BY <2>2, <2>3, <2>4, <2>5 DEF StudyInv
<1>10. CASE WriteSummary \/ Dies
  <2>2. LoadInv'
    BY <1>3, <1>10 DEF WriteSummary, Dies
  <2>3. StudyTypeOK'
    BY <1>10 DEF WriteSummary, Dies, StudyInv, StudyTypeOK, Parts
  <2>4. ReadInv'
    BY <1>10, ReadStays DEF WriteSummary, Dies, StudyInv, StudyTypeOK
  <2>5. DrillInv'
    BY <1>0, <1>10 DEF WriteSummary, Dies, StudyInv, DrillInv
  <2> QED
    BY <2>2, <2>3, <2>4, <2>5 DEF StudyInv
<1> QED
  BY <1>1, <1>2, <1>4, <1>5, <1>6, <1>7, <1>8, <1>9, <1>10 DEF StudyNext
-----------------------------------------------------------------------------
(* Demo agent *)

LEMMA TurnedIsFinite ==
  ASSUME AgentTypeOK PROVE IsFiniteSet(Turned) /\ Cardinality(Turned) \in Nat
<1>1. Len(messages) \in Nat /\ Turned \subseteq 1..Len(messages)
  BY LenProperties DEF AgentTypeOK, Turned
<1>2. IsFiniteSet(1..Len(messages))
  BY <1>1, FS_Interval
<1> QED
  BY <1>1, <1>2, FS_Subset, FS_CardinalityType

(* The conversation grows by a message: a turn if the model says it. *)
LEMMA MessageAdded ==
  ASSUME AgentTypeOK, NEW m \in Said, messages' = Append(messages, m)
  PROVE  /\ messages' \in Seq(Said) /\ Len(messages') = Len(messages) + 1
         /\ \A i \in 1..Len(messages) : messages'[i] = messages[i]
         /\ messages'[Len(messages) + 1] = m
         /\ m.role = "assistant" =>
              /\ Turned' = Turned \cup {Len(messages) + 1}
              /\ Cardinality(Turned') = Cardinality(Turned) + 1
         /\ m.role # "assistant" => Turned' = Turned
         /\ \A i \in Turned : Answers(i) => Answers(i)'
<1> DEFINE l == Len(messages)
<1>1. messages \in Seq(Said) /\ l \in Nat
  BY LenProperties DEF AgentTypeOK
<1>2. /\ messages' \in Seq(Said) /\ Len(messages') = l + 1
      /\ \A i \in 1..l : messages'[i] = messages[i]
      /\ messages'[l + 1] = m
  BY <1>1, AppendProperties
<1> HIDE DEF l
<1>3. m.role = "assistant" => Turned' = Turned \cup {l + 1}
  BY <1>1, <1>2 DEF Turned, l
<1>4. m.role # "assistant" => Turned' = Turned
  BY <1>1, <1>2 DEF Turned, l
<1>5. l + 1 \notin Turned
  BY <1>1 DEF Turned, l
<1>6. m.role = "assistant" => Cardinality(Turned') = Cardinality(Turned) + 1
  BY <1>3, <1>5, TurnedIsFinite, FS_AddElement
<1>7. ASSUME NEW i \in Turned, Answers(i) PROVE Answers(i)'
  <2>1. i \in 1..l /\ messages'[i] = messages[i]
    BY <1>2 DEF Turned, l
  <2>2. messages[i].calls \in Nat
    <3>1. messages[i] \in Said
      BY <1>1, <2>1, ElementOfSeq DEF l
    <3> QED
      BY <3>1 DEF Said
  <2>3. \A k \in 1..messages[i].calls : i + k \in 1..l
    BY <1>1, <1>7, <2>1, <2>2 DEF Answers, l
  <2> QED
    BY <1>1, <1>2, <1>7, <2>1, <2>2, <2>3 DEF Answers, l
<1> QED
  BY <1>2, <1>3, <1>4, <1>6, <1>7 DEF l

LEMMA AgentInvInit == AgentInit => AgentInv
<1> SUFFICES ASSUME AgentInit PROVE AgentInv
  OBVIOUS
<1>1. /\ << >> \in Seq(Said) /\ << >> \in Seq(1..MaxCalls) /\ << >> \in Seq(Result)
      /\ Len(<< >>) = 0
  BY EmptySeq
<1>2. keywords \in BOOLEAN /\ answered \in BOOLEAN /\ client \in BOOLEAN
  BY Zenon DEF AgentInit
<1>3. phase \in Phases /\ asked \in 0..MaxTurns
  BY DEF AgentInit, Phases
<1>4. AgentTypeOK
  BY <1>1, <1>2, <1>3, Zenon DEF AgentInit, AgentTypeOK
<1> QED
  BY <1>1, <1>4 DEF AgentInit, AgentInv, ConversationInv, ResultsInv

(* A reply ends the task, or has calls which are all still to be run. *)
LEMMA ReplyKeepsInv ==
  ASSUME AgentInv, NEW n \in 0..MaxCalls, NEW stop \in BOOLEAN, Reply(n, stop)
  PROVE  AgentInv'
<1> DEFINE m == [role |-> "assistant", calls |-> n]
           new == Len(messages) + 1
<1>1. /\ phase = "asking" /\ messages' = Append(messages, m)
      /\ UNCHANGED <<keywords, asked, results, client, csv>>
  BY DEF Reply
<1>2. m \in Said
  BY DEF Said
<1>3. /\ messages' \in Seq(Said) /\ Len(messages') = new /\ messages'[new] = m
      /\ Turned' = Turned \cup {new}
      /\ Cardinality(Turned') = Cardinality(Turned) + 1
      /\ \A i \in Turned : Answers(i) => Answers(i)'
  <2> HIDE DEF m
  <2>1. /\ messages' \in Seq(Said) /\ Len(messages') = new /\ messages'[new] = m
        /\ m.role = "assistant" =>
             /\ Turned' = Turned \cup {new}
             /\ Cardinality(Turned') = Cardinality(Turned) + 1
        /\ \A i \in Turned : Answers(i) => Answers(i)'
    BY <1>1, <1>2, MessageAdded DEF AgentInv
  <2> QED
    BY <2>1 DEF m
<1>4. Cardinality(Turned') = asked' /\ asked' > 0
  BY <1>1, <1>3, TurnedIsFinite DEF AgentInv, ResultsInv
<1>5. ResultsInv'
  <2>1. phase' \in {"finished", "tools"}
    BY DEF Reply
  <2> QED
    BY <1>1, <1>4, <2>1 DEF AgentInv, ResultsInv
<1>6. CASE phase' = "finished" /\ answered' = TRUE /\ UNCHANGED calls
  <2>1. AgentTypeOK'
    BY <1>1, <1>3, <1>6 DEF AgentInv, AgentTypeOK, Phases
  <2> QED
    BY <1>5, <1>6, <2>1 DEF AgentInv, ConversationInv
<1>7. CASE n # 0 /\ phase' = "tools" /\ calls' = [k \in 1..n |-> k] /\ UNCHANGED answered
  <2>1. calls' \in Seq(1..MaxCalls) /\ Len(calls') = n /\ \A k \in 1..n : calls'[k] = k
    BY <1>7, IsASeq
  <2>2. AgentTypeOK'
    BY <1>1, <1>3, <1>7, <2>1 DEF AgentInv, AgentTypeOK, Phases
  <2>3. new \in Nat
    BY LenProperties DEF AgentInv, AgentTypeOK
  <2>4. ASSUME NEW i, i = new PROVE IsAnswering(i)'
    <3>1. messages'[i].calls = n /\ Len(messages') - i = 0
      BY <1>3, <2>3, <2>4
    <3> QED
      BY <1>7, <2>1, <3>1 DEF IsAnswering
  <2>5. ConversationInv'
    BY <1>1, <1>3, <1>7, <2>4 DEF AgentInv, ConversationInv
  <2> QED
    BY <1>5, <2>2, <2>5 DEF AgentInv
<1> QED
  BY <1>6, <1>7 DEF Reply

(* The output of a tool answers the next call. *)
LEMMA RunToolKeepsInv == AgentInv /\ RunTool => AgentInv'
<1> SUFFICES ASSUME AgentInv, RunTool PROVE AgentInv'
  OBVIOUS
<1> DEFINE m == [role |-> "tool", calls |-> Head(calls)]
           l == Len(messages)
<1>1. /\ phase = "tools" /\ calls # << >> /\ messages' = Append(messages, m)
      /\ calls' = Tail(calls)
      /\ UNCHANGED <<phase, keywords, answered, asked, results, client, csv>>
  BY DEF RunTool
<1>2. /\ calls \in Seq(1..MaxCalls) /\ Len(calls) \in Nat /\ Len(calls) > 0
      /\ Head(calls) = calls[1] /\ Head(calls) \in 1..MaxCalls
      /\ calls' \in Seq(1..MaxCalls) /\ Len(calls') = Len(calls) - 1
      /\ \A k \in 1..Len(calls') : calls'[k] = calls[k + 1]
  <2>1. calls \in Seq(1..MaxCalls)
    BY DEF AgentInv, AgentTypeOK
  <2> QED
    BY <1>1, <2>1, HeadTailProperties, EmptySeq, LenProperties
<1>3. m \in Said /\ m.role # "assistant"
  BY <1>2 DEF Said
<1>4. /\ messages' \in Seq(Said) /\ Len(messages') = l + 1 /\ messages'[l + 1] = m
      /\ \A i \in 1..l : messages'[i] = messages[i]
      /\ Turned' = Turned
      /\ \A i \in Turned : Answers(i) => Answers(i)'
  <2> HIDE DEF m
  <2> QED
    BY <1>1, <1>3, MessageAdded DEF AgentInv
<1>5. AgentTypeOK'
  BY <1>1, <1>2, <1>4 DEF AgentInv, AgentTypeOK
<1>6. ResultsInv'
  BY <1>1, <1>4 DEF AgentInv, ResultsInv
<1>7. PICK last \in Turned : IsAnswering(last) /\ \A i \in Turned \ {last} : Answers(i)
  BY <1>1 DEF AgentInv, ConversationInv
<1>8. last \in 1..l /\ l \in Nat
  BY LenProperties DEF Turned, AgentInv, AgentTypeOK
<1> DEFINE n    == messages[last].calls
           done == l - last
<1>9. /\ n > 0 /\ done + Len(calls) = n
      /\ \A k \in 1..done : messages[last + k] = [role |-> "tool", calls |-> k]
      /\ \A k \in 1..Len(calls) : calls[k] = done + k
  BY <1>7 DEF IsAnswering
<1>10. messages'[last].calls = n /\ Len(messages') - last = done + 1 /\ done \in Nat
  BY <1>4, <1>8
<1>11. ASSUME NEW k \in 1..done + 1 PROVE messages'[last + k] = [role |-> "tool", calls |-> k]
  <2>1. CASE k \in 1..done
    <3>1. last + k \in 1..l
      BY <1>8, <2>1
    <3> QED
      BY <1>4, <1>9, <2>1, <3>1
  <2>2. CASE k = done + 1
    <3>1. last + k = l + 1
      BY <1>8, <2>2
    <3>2. Head(calls) = k
      BY <1>2, <1>9, <2>2
    <3> QED
      BY <1>4, <3>1, <3>2
  <2> QED
    BY <1>10, <2>1, <2>2
<1>12. ASSUME NEW k \in 1..Len(calls') PROVE calls'[k] = done + 1 + k
  <2>1. calls'[k] = calls[k + 1] /\ k + 1 \in 1..Len(calls)
    BY <1>2
  <2>2. calls[k + 1] = done + (k + 1)
    BY <1>9, <2>1
  <2> QED
    BY <1>10, <2>1, <2>2
<1> HIDE DEF n, done
<1>13. IsAnswering(last)'
  <2>1. n > 0 /\ done + 1 + Len(calls') = n
    BY <1>2, <1>9, <1>10
  <2> QED
    BY <1>10, <1>11, <1>12, <2>1 DEF IsAnswering
<1>14. ConversationInv'
  BY <1>1, <1>4, <1>7, <1>13 DEF ConversationInv
<1> QED
  BY <1>5, <1>6, <1>14 DEF AgentInv

(* A finished task adds the result of the next session. *)
LEMMA FinishTaskKeepsInv == AgentInv /\ FinishTask => AgentInv'
<1> SUFFICES ASSUME AgentInv, FinishTask PROVE AgentInv'
  OBVIOUS
<1> DEFINE l == Len(results)
           Outcome(passed) == [session |-> l + 1, passed |-> passed, turns |-> Cardinality(Turned)]
<1>1. /\ phase = "finished" /\ phase' = "next"
      /\ UNCHANGED <<messages, calls, keywords, answered, asked, client, csv>>
  BY DEF FinishTask
<1>2. PICK passed \in BOOLEAN :
        /\ results' = Append(results, Outcome(passed))
        /\ passed => answered \/ ~keywords
  BY Zenon DEF FinishTask
<1>3. results \in Seq(Result) /\ l \in Nat /\ l < AgentSessions
  BY <1>1, LenProperties DEF AgentInv, AgentTypeOK, ResultsInv
<1>4. Cardinality(Turned) \in 1..MaxTurns
  BY <1>1 DEF AgentInv, AgentTypeOK, ResultsInv
<1> DEFINE r == Outcome(passed)
<1>5. r \in Result
  BY <1>3, <1>4 DEF Result
<1>6. /\ r.session = l + 1 /\ r.turns > 0 /\ r.passed = passed
  BY <1>4
<1>7. results' = Append(results, r)
  BY <1>2
<1> HIDE DEF r, Outcome
<1>8. /\ results' \in Seq(Result) /\ Len(results') = l + 1
      /\ \A i \in 1..l : results'[i] = results[i]
      /\ results'[l + 1] = r
  BY <1>3, <1>5, <1>7, AppendProperties
<1>9. AgentTypeOK'
  BY <1>1, <1>8 DEF AgentInv, AgentTypeOK, Phases
<1>10. ASSUME NEW i \in 1..l + 1 PROVE results'[i].session = i /\ results'[i].turns > 0
  <2>1. CASE i \in 1..l
    BY <1>8, <2>1 DEF AgentInv, ResultsInv
  <2>2. CASE i = l + 1
    BY <1>6, <1>8, <2>2
  <2> QED
    BY <1>3, <2>1, <2>2
<1>11. Last(results') = r
  BY <1>8 DEF Last
<1>12. Last(results').passed => answered' \/ ~keywords'
  BY <1>1, <1>2, <1>6, <1>11, Zenon
<1>13. csv' = << >>
  BY <1>1 DEF AgentInv, ResultsInv
<1>14. ResultsInv'
  <2>1. \A i \in 1..Len(results') : results'[i].session = i /\ results'[i].turns > 0
    BY <1>8, <1>10
  <2> QED
    BY <1>1, <1>12, <1>13, <2>1 DEF ResultsInv
<1> QED
  BY <1>1, <1>9, <1>14 DEF AgentInv, ConversationInv

LEMMA AgentInvStep == AgentInv /\ [AgentNext]_agentVars => AgentInv'
<1> SUFFICES ASSUME AgentInv, [AgentNext]_agentVars PROVE AgentInv'
  OBVIOUS
<1>1. CASE BeginTask
  <2>1. Prompt \in Said
    BY DEF Prompt, Said
  <2>2. /\ messages' \in Seq(Said) /\ Len(messages') = 1 /\ messages'[1] = Prompt
    BY <1>1, <2>1 DEF BeginTask
  <2>3. Turned' = {}
    BY <2>2 DEF Turned, Prompt
  <2>4. AgentTypeOK'
    <3>1. answered' \in BOOLEAN /\ keywords' \in BOOLEAN
      BY <1>1, Zenon DEF BeginTask
    <3>2. phase' \in Phases /\ asked' \in 0..MaxTurns
      BY <1>1 DEF BeginTask, Phases
    <3> QED
      BY <1>1, <2>2, <3>1, <3>2, Zenon DEF BeginTask, AgentInv, AgentTypeOK
  <2>5. ConversationInv'
    BY <1>1, <2>3 DEF BeginTask, ConversationInv
  <2>6. ResultsInv'
    BY <1>1, <2>3, FS_EmptySet DEF BeginTask, AgentInv, AgentTypeOK, ResultsInv
  <2> QED
    BY <2>4, <2>5, <2>6 DEF AgentInv
<1>2. CASE Ask
  <2>1. /\ phase = "ready" /\ asked < MaxTurns /\ phase' = "asking" /\ asked' = asked + 1
        /\ UNCHANGED <<messages, calls, keywords, answered, results, client, csv>>
        /\ UNCHANGED Turned
    BY <1>2 DEF Ask, Turned
  <2>2. AgentTypeOK'
    BY <2>1 DEF AgentInv, AgentTypeOK, Phases
  <2>3. ConversationInv'
    BY <2>1 DEF AgentInv, ConversationInv, Answers
  <2>4. ResultsInv'
    BY <2>1 DEF AgentInv, ResultsInv
  <2> QED
    BY <2>2, <2>3, <2>4 DEF AgentInv
<1>3. CASE ToolsDone
  <2>1. /\ phase = "tools" /\ calls = << >>
        /\ phase' = IF asked < MaxTurns THEN "ready" ELSE "finished"
        /\ UNCHANGED <<messages, calls, keywords, answered, asked, results, client, csv>>
        /\ UNCHANGED Turned
    BY <1>3 DEF ToolsDone, Turned
  <2>2. AgentTypeOK'
    BY <2>1 DEF AgentInv, AgentTypeOK, Phases
  <2>3. \A i \in Turned : Answers(i)
    <3>1. PICK last \in Turned : IsAnswering(last) /\ \A i \in Turned \ {last} : Answers(i)
      BY <2>1 DEF AgentInv, ConversationInv
    <3>2. last \in Nat /\ Len(messages) \in Nat /\ Len(calls) = 0
      BY <2>1, LenProperties, EmptySeq DEF Turned, AgentInv, AgentTypeOK
    <3>3. Answers(last)
      BY <3>1, <3>2 DEF IsAnswering, Answers
    <3> QED
      BY <3>1, <3>3
  <2>4. ConversationInv'
    BY <2>1, <2>3 DEF ConversationInv, Answers
  <2>5. ResultsInv'
    BY <2>1 DEF AgentInv, ResultsInv
  <2> QED
    BY <2>2, <2>4, <2>5 DEF AgentInv
<1>4. CASE Raise
  <2>1. AgentTypeOK'
    BY <1>4 DEF Raise, AgentInv, AgentTypeOK, Phases
  <2>2. ResultsInv'
    BY <1>4 DEF Raise, AgentInv, ResultsInv
  <2> QED
    BY <1>4, <2>1, <2>2 DEF Raise, AgentInv, ConversationInv
<1>5. CASE CloseClient
  <2>1. AgentTypeOK'
    BY <1>5 DEF CloseClient, AgentInv, AgentTypeOK, Phases
  <2>2. ResultsInv'
    BY <1>5 DEF CloseClient, AgentInv, ResultsInv
  <2> QED
    BY <1>5, <2>1, <2>2 DEF CloseClient, AgentInv, ConversationInv
<1>6. CASE OpenResults
  <2>1. AgentTypeOK'
    BY <1>6 DEF OpenResults, AgentInv, AgentTypeOK, Phases
  <2>2. ResultsInv'
    BY <1>6 DEF OpenResults, AgentInv, ResultsInv
  <2> QED
    BY <1>6, <2>1, <2>2 DEF OpenResults, AgentInv, ConversationInv
<1>8. CASE WriteResults
  <2>1. /\ phase = "writing" /\ phase' \in {"over", "raised"}
        /\ UNCHANGED <<messages, calls, keywords, answered, asked, results, client>>
    BY <1>8 DEF WriteResults
  <2>2. results \in Seq(Result) /\ Len(results) \in Nat
    BY LenProperties DEF AgentInv, AgentTypeOK
  <2>3. ASSUME NEW n \in 0..Len(results) PROVE SubSeq(results, 1, n) \in Seq(Result)
    <3>1. \A p \in 1..n : results[p] \in Result
      BY <2>2, ElementOfSeq
    <3> QED
      BY <2>2, <3>1, SubSeqProperties
  <2>4. \E n \in 0..Len(results) : csv' = SubSeq(results, 1, n)
    BY <1>8, <2>2, SubSeqFull DEF WriteResults
  <2>5. AgentTypeOK'
    BY <2>1, <2>3, <2>4 DEF AgentInv, AgentTypeOK, Phases
  <2>6. phase' = "over" => csv' = results
    BY <1>8 DEF WriteResults
  <2>7. ResultsInv'
    BY <2>1, <2>4, <2>6 DEF AgentInv, ResultsInv
  <2> QED
    BY <2>1, <2>5, <2>7 DEF AgentInv, ConversationInv
<1>7. CASE UNCHANGED agentVars
  <2>1. /\ UNCHANGED <<phase, messages, calls, keywords, answered, asked, results, client, csv>>
        /\ UNCHANGED Turned
    BY <1>7 DEF agentVars, Turned
  <2>2. AgentTypeOK'
    BY <2>1 DEF AgentInv, AgentTypeOK
  <2>3. ConversationInv'
    BY <2>1 DEF AgentInv, ConversationInv, Answers, IsAnswering
  <2>4. ResultsInv'
    BY <2>1 DEF AgentInv, ResultsInv
  <2> QED
    BY <2>2, <2>3, <2>4 DEF AgentInv
<1> QED
  BY <1>1, <1>2, <1>3, <1>4, <1>5, <1>6, <1>7, <1>8, ReplyKeepsInv, RunToolKeepsInv, FinishTaskKeepsInv
     DEF AgentNext

-----------------------------------------------------------------------------
(* Theorems *)

LEMMA ClientsInvInit == ClientsInit => ClientsInv
BY LoadInvInit, StudyInvInit, AgentInvInit DEF ClientsInit, ClientsInv

LEMMA ClientsInvStep == ClientsInv /\ [ClientsNext]_clientVars => ClientsInv'
<1> SUFFICES ASSUME ClientsInv, [ClientsNext]_clientVars PROVE ClientsInv'
  OBVIOUS
<1>1. CASE RunLoadGen
  BY <1>1, LoadInvStep, StudyStandsStill, AgentInvStep DEF RunLoadGen, ClientsInv
<1>2. CASE RunStudy
  BY <1>2, StudyInvStep, AgentInvStep DEF RunStudy, ClientsInv
<1>3. CASE RunAgent
  BY <1>3, LoadInvStep, StudyStandsStill, AgentInvStep DEF RunAgent, ClientsInv
<1>4. CASE UNCHANGED clientVars
  BY <1>4, LoadInvStep, StudyStandsStill, AgentInvStep DEF clientVars, ClientsInv
<1> QED
  BY <1>1, <1>2, <1>3, <1>4 DEF ClientsNext

LEMMA ClientsKeepInv == ClientsSpec => []ClientsInv
BY ClientsInvInit, ClientsInvStep, PTL DEF ClientsSpec

(* No client program leaves its types: no semaphore gives out or takes     *)
(* back more slots than it has, and no task is created twice.              *)
THEOREM ClientsTypeCorrect == ClientsSpec => []ClientsTypeOK
<1>1. ClientsInv => ClientsTypeOK
  BY DEF ClientsInv, ClientsTypeOK, LoadInv, StudyInv, AgentInv
<1> QED
  BY <1>1, ClientsKeepInv, PTL

(* A closed loop, and a replay, run at most as many sessions at a time as  *)
(* they should, and lose no slot to a session that fails.                  *)
THEOREM ConcurrencyHolds == ClientsSpec => []ConcurrencyIsKept
<1>1. ClientsInv => ConcurrencyIsKept
  BY DEF ClientsInv, LoadInv
<1> QED
  BY <1>1, ClientsKeepInv, PTL

(* However sessions interleave, what the load generator writes is made of  *)
(* whole sessions.                                                         *)
THEOREM RowsComeWhole == ClientsSpec => []RowsAreWholeSessions
<1>1. ClientsInv => RowsAreWholeSessions
  BY DEF ClientsInv, LoadInv
<1> QED
  BY <1>1, ClientsKeepInv, PTL

(* A summary counts, for every profile, the turns of its own load run that *)
(* were answered with 200 and no others, whatever files were there before  *)
(* and whatever docker did; only a run without any row may let in an older *)
(* file.                                                                   *)
THEOREM SummaryIsTruthful == ClientsSpec => []SummaryTellsThisStudy
<1>1. ClientsInv => SummaryTellsThisStudy
  BY DEF ClientsInv, StudyInv, ReadInv, Faithful, DrillInv, DrillIs, SummaryTellsThisStudy
<1> QED
  BY <1>1, ClientsKeepInv, PTL

(* The model is never asked while a call of its last reply, or of an       *)
(* earlier one, has no answer.                                             *)
THEOREM CallsGetAnswers == ClientsSpec => []EveryCallIsAnswered
<1>1. ASSUME ClientsInv, phase = "asking" PROVE asked <= MaxTurns
  BY <1>1, AgentAssumption DEF ClientsInv, AgentInv, AgentTypeOK
<1>2. ASSUME ClientsInv, phase = "asking",
             NEW i \in 1..Len(messages), messages[i].role = "assistant"
      PROVE  Answers(i)
  BY <1>2 DEF ClientsInv, AgentInv, ConversationInv, Turned
<1>3. ClientsInv => EveryCallIsAnswered
  BY <1>1, <1>2 DEF Answers, EveryCallIsAnswered
<1> QED
  BY <1>3, ClientsKeepInv, PTL

(* The results of the demo agent are written after all sessions, in order, *)
(* and cut short only by a write that fails; a task that was cut off does  *)
(* not count as passed.                                                    *)
THEOREM ResultsComeWhole == ClientsSpec => []ResultsAreWhole
<1>1. ASSUME ClientsInv PROVE ResultsAreWhole
  <2>1. \A i \in 1..Len(results) : results[i].session = i /\ results[i].turns \in 1..MaxTurns
    <3>1. ASSUME NEW i \in 1..Len(results) PROVE results[i] \in Result
      BY <1>1, ElementOfSeq DEF ClientsInv, AgentInv, AgentTypeOK
    <3> QED
      BY <1>1, <3>1 DEF Result, ClientsInv, AgentInv, ResultsInv
  <2>2. ASSUME csv # << >>
        PROVE  /\ IsPrefix(csv, results)
               /\ \A i \in 1..Len(csv) : csv[i].session = i /\ csv[i].turns \in 1..MaxTurns
    <3>1. results \in Seq(Result) /\ Len(results) \in Nat /\ csv \in Seq(Result)
      BY <1>1, LenProperties DEF ClientsInv, AgentInv, AgentTypeOK
    <3>2. PICK n \in 0..Len(results) : csv = SubSeq(results, 1, n)
      BY <1>1, <2>2 DEF ClientsInv, AgentInv, ResultsInv
    <3>3. \A p \in 1..n : results[p] \in Result
      BY <3>1, ElementOfSeq
    <3>4. Len(csv) = n /\ \A p \in 1..n : csv[p] = results[p]
      BY <3>1, <3>2, <3>3, SubSeqProperties
    <3>5. SubSeq(csv, 1, n) = csv
      BY <3>1, <3>4, SubSeqFull
    <3>6. IsPrefix(csv, results)
      BY <3>1, <3>2, <3>4, <3>5 DEF IsPrefix
    <3> QED
      BY <2>1, <3>1, <3>4, <3>6
  <2> QED
    BY <1>1, <2>2 DEF ClientsInv, AgentInv, ResultsInv, ResultsAreWhole
<1> QED
  BY <1>1, ClientsKeepInv, PTL
=============================================================================
