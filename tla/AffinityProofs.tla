--------------------------- MODULE AffinityProofs ---------------------------
(***************************************************************************)
(* Theorems about rendezvous hashing for every injective score, and about  *)
(* Affinity for every set of sessions, backends, tiers and callers and     *)
(* every TTL.                                                              *)
(***************************************************************************)
EXTENDS Affinity, NaturalsInduction, WellFoundedInduction, TLAPS

-----------------------------------------------------------------------------
(* Every non-empty set of candidates has a winner, and Winner returns it:  *)
(* the scores of a session are bounded, so one candidate scores highest.   *)
THEOREM WinnerWins ==
  ASSUME NEW s \in Sessions, NEW candidates \in SUBSET Backends, candidates # {}
  PROVE  Wins(s, Winner(s, candidates), candidates)
<1> USE ScoreAssumption DEF ScoreAssumption
<1> DEFINE Gap(b) == MaxScore - Score[s][b]
           Gaps   == {Gap(b) : b \in candidates}
<1>1. \A b \in candidates : Score[s][b] \in 0..MaxScore /\ Gap(b) \in Nat
  OBVIOUS
<1>2. Gaps \subseteq Nat /\ Gaps # {}
  BY <1>1
<1>3. \E x \in Gaps : \A y \in Gaps : ~(<<y, x>> \in OpToRel(<, Nat))
  <2> HIDE DEF Gaps
  <2> QED
    BY <1>2, WFMin, NatLessThanWellFounded
<1>4. PICK x \in Gaps : \A y \in Gaps : ~(<<y, x>> \in OpToRel(<, Nat))
  BY <1>3
<1>5. \A y \in Gaps : ~(y < x)
  BY <1>2, <1>4 DEF OpToRel
<1>6. PICK b \in candidates : x = Gap(b)
  BY <1>4
<1>7. ASSUME NEW c \in candidates PROVE Score[s][c] <= Score[s][b]
  <2>1. Gap(c) \in Gaps
    OBVIOUS
  <2>2. ~(Gap(c) < Gap(b))
    BY <1>5, <1>6, <2>1
  <2>3. Score[s][c] \in Int /\ Score[s][b] \in Int
    BY <1>1
  <2> QED
    BY <2>2, <2>3
<1>8. Wins(s, b, candidates)
  BY <1>7 DEF Wins
<1> QED
  BY <1>8 DEF Winner

(* Minimal disruption (scheduler.py:20): taking a backend out moves only   *)
(* the sessions that backend had won; the winner of every other session    *)
(* stays, whatever the candidates are.                                     *)
THEOREM MinimalDisruption ==
  ASSUME NEW s \in Sessions, NEW candidates \in SUBSET Backends,
         NEW gone \in candidates, Winner(s, candidates) # gone
  PROVE  Winner(s, candidates \ {gone}) = Winner(s, candidates)
<1> DEFINE w == Winner(s, candidates)
           v == Winner(s, candidates \ {gone})
<1>1. w \in candidates \ {gone} /\ \A c \in candidates : Score[s][c] <= Score[s][w]
  BY WinnerWins DEF Wins
<1>2. v \in candidates \ {gone} /\ \A c \in candidates \ {gone} : Score[s][c] <= Score[s][v]
  BY <1>1, WinnerWins DEF Wins
<1> HIDE DEF w, v
<1>3. Score[s][w] = Score[s][v]
  <2>1. Score[s][w] <= Score[s][v] /\ Score[s][v] <= Score[s][w]
    BY <1>1, <1>2
  <2>2. Score[s][w] \in Int /\ Score[s][v] \in Int
    BY <1>1, <1>2, ScoreAssumption DEF ScoreAssumption
  <2> QED
    BY <2>1, <2>2
<1>4. w = v
  BY <1>1, <1>2, <1>3, ScoreAssumption DEF ScoreAssumption
<1> QED
  BY <1>4 DEF w, v

-----------------------------------------------------------------------------
(* What is known of a call in progress: it read backends of its own tier.  *)
CallsRead ==
  \A c \in Callers : call[c] # None =>
     \A b \in call[c].read : TierOf[b] = call[c].tier

TableInv == TypeOK /\ CallsRead /\ EntriesKeepTheirTier

LEMMA TableInvInit == Init => TableInv
BY AffinityAssumption
   DEF AffinityAssumption, Init, TableInv, TypeOK, CallsRead, EntriesKeepTheirTier

(* A candidate that was read wins the hash, and it is of the tier asked. *)
LEMMA WinnerIsRead ==
  ASSUME TypeOK, CallsRead, NEW c \in Callers, call[c] # None, call[c].read # {},
         NEW s \in Sessions
  PROVE  /\ Winner(s, call[c].read) \in call[c].read
         /\ Winner(s, call[c].read) \in Backends
         /\ TierOf[Winner(s, call[c].read)] = call[c].tier
<1>1. call[c].read \in SUBSET Backends
  BY DEF TypeOK, Calls
<1>2. Winner(s, call[c].read) \in call[c].read
  BY <1>1, WinnerWins DEF Wins
<1> QED
  BY <1>1, <1>2 DEF CallsRead

LEMMA TableInvStep == TableInv /\ [Next]_vars => TableInv'
<1> SUFFICES ASSUME TableInv, [Next]_vars PROVE TableInv'
  OBVIOUS
<1> USE AffinityAssumption DEF AffinityAssumption
<1>0. TypeOK /\ CallsRead /\ EntriesKeepTheirTier
  BY DEF TableInv
<1>1. CASE Tick
  <2>1. TypeOK'
    BY <1>0, <1>1 DEF Tick, TypeOK, Entries
  <2>2. CallsRead'
    BY <1>0, <1>1 DEF Tick, CallsRead
  <2>3. EntriesKeepTheirTier'
    BY <1>0, <1>1 DEF Tick, TypeOK, Entries, EntriesKeepTheirTier
  <2> QED
    BY <2>1, <2>2, <2>3 DEF TableInv
<1>2. ASSUME NEW b \in Backends, NEW up \in BOOLEAN, SetHealthy(b, up)
      PROVE  TableInv'
  BY <1>0, <1>2 DEF SetHealthy, history, TableInv, TypeOK, CallsRead, EntriesKeepTheirTier
<1>3. ASSUME NEW s \in Sessions, Invalidate(s)
      PROVE  TableInv'
  BY <1>0, <1>3 DEF Invalidate, TableInv, TypeOK, CallsRead, EntriesKeepTheirTier
<1>4. ASSUME NEW c \in Callers, NEW s \in Sessions, NEW t \in Tiers,
             ReadCandidates(c, s, t)
      PROVE  TableInv'
  <2>1. HealthyIn(t) \in SUBSET Backends /\ \A b \in HealthyIn(t) : TierOf[b] = t
    BY <1>0 DEF HealthyIn, TypeOK
  <2>2. [op |-> "select", who |-> s, tier |-> t, read |-> HealthyIn(t)] \in Calls
    BY <2>1 DEF Calls
  <2> QED
    BY <1>0, <1>4, <2>1, <2>2
       DEF ReadCandidates, history, TableInv, TypeOK, CallsRead, EntriesKeepTheirTier
<1>5. ASSUME NEW c \in Callers, NEW b \in Backends, ReadSurvivors(c, b)
      PROVE  TableInv'
  <2> DEFINE t == TierOf[b]
  <2>1. /\ HealthyIn(t) \ {b} \in SUBSET Backends /\ t \in Tiers
        /\ \A a \in HealthyIn(t) \ {b} : TierOf[a] = t
    BY <1>0 DEF HealthyIn, TypeOK
  <2>2. [op |-> "down", who |-> b, tier |-> t, read |-> HealthyIn(t) \ {b}] \in Calls
    BY <2>1 DEF Calls
  <2> QED
    BY <1>0, <1>5, <2>1, <2>2
       DEF ReadSurvivors, history, TableInv, TypeOK, CallsRead, EntriesKeepTheirTier
<1>6. ASSUME NEW c \in Callers, SelectFails(c)
      PROVE  TableInv'
  BY <1>0, <1>6 DEF SelectFails, history, TableInv, TypeOK, CallsRead, EntriesKeepTheirTier
<1>7. ASSUME NEW c \in Callers, SelectHits(c)
      PROVE  TableInv'
  <2>1. PICK s \in Sessions : s = call[c].who /\ call[c] # None /\ Usable(s, call[c].read)
    BY <1>0, <1>7 DEF SelectHits, TypeOK, Calls
  <2>2. /\ sticky[s] \in Entries
        /\ sticky' = [sticky EXCEPT ![s] = [sticky[s] EXCEPT !.left = Ttl]]
        /\ Return(c, s, sticky[s].backend)
    BY <1>0, <1>7, <2>1 DEF SelectHits, Usable, Live, TypeOK
  <2>3. /\ [sticky[s] EXCEPT !.left = Ttl] \in Entries
        /\ [sticky[s] EXCEPT !.left = Ttl].backend = sticky[s].backend
        /\ [sticky[s] EXCEPT !.left = Ttl].tier = sticky[s].tier
        /\ sticky[s].backend \in Backends
    BY <2>2 DEF Entries
  <2>4. TypeOK'
    BY <1>0, <2>2, <2>3 DEF Return, TypeOK
  <2>5. CallsRead'
    BY <1>0, <2>2 DEF Return, CallsRead, TypeOK
  <2>6. EntriesKeepTheirTier'
    BY <1>0, <2>1, <2>2, <2>3 DEF EntriesKeepTheirTier, TypeOK, Usable, Live
  <2> QED
    BY <2>4, <2>5, <2>6 DEF TableInv
<1>8. ASSUME NEW c \in Callers, SelectMisses(c)
      PROVE  TableInv'
  <2>1. PICK s \in Sessions : s = call[c].who /\ call[c] # None /\ call[c].read # {}
    BY <1>0, <1>8 DEF SelectMisses, TypeOK, Calls
  <2>2. PICK n : n = Winner(s, call[c].read)
    OBVIOUS
  <2>3. n \in Backends /\ TierOf[n] = call[c].tier /\ call[c].tier \in Tiers
    BY <1>0, <2>1, <2>2, WinnerIsRead
  <2>4. /\ sticky' = [sticky EXCEPT ![s] =
                        [backend |-> n, tier |-> call[c].tier, left |-> Ttl]]
        /\ Return(c, s, n)
    BY <1>8, <2>1, <2>2 DEF SelectMisses
  <2>5. [backend |-> n, tier |-> call[c].tier, left |-> Ttl] \in Entries
    BY <2>3 DEF Entries
  <2>6. TypeOK'
    BY <1>0, <2>3, <2>4, <2>5 DEF Return, TypeOK
  <2>7. CallsRead'
    BY <1>0, <2>4 DEF Return, CallsRead, TypeOK
  <2>8. EntriesKeepTheirTier'
    BY <1>0, <2>3, <2>4 DEF EntriesKeepTheirTier, TypeOK
  <2> QED
    BY <2>6, <2>7, <2>8 DEF TableInv
<1>9. ASSUME NEW c \in Callers, Migrate(c)
      PROVE  TableInv'
  <2>1. call[c] # None /\ call[c] \in Calls
    BY <1>0, <1>9 DEF Migrate, TypeOK
  <2> DEFINE hit == Affected(call[c].who, call[c].tier)
  <2>2. /\ \A s \in Sessions \ hit : sticky'[s] = sticky[s]
        /\ \A s \in hit \cap Sessions : call[c].read = {} => sticky'[s] = None
        /\ \A s \in hit \cap Sessions : call[c].read # {} =>
             sticky'[s] = [sticky[s] EXCEPT !.backend = Winner(s, call[c].read)]
        /\ sticky' = [s \in Sessions |-> sticky'[s]]
    BY <1>9 DEF Migrate
  <2>3. ASSUME NEW s \in Sessions
        PROVE  /\ sticky'[s] \in Entries \cup {None}
               /\ sticky'[s] # None => TierOf[sticky'[s].backend] = sticky'[s].tier
    <3>1. CASE s \notin hit
      BY <1>0, <2>2, <3>1 DEF TypeOK, EntriesKeepTheirTier
    <3>2. CASE s \in hit /\ call[c].read = {}
      BY <2>2, <3>2
    <3>3. CASE s \in hit /\ call[c].read # {}
      <4>1. sticky[s] \in Entries /\ sticky[s].tier = call[c].tier
        BY <1>0, <3>3 DEF Affected, TypeOK
      <4>2. PICK n : n = Winner(s, call[c].read)
        OBVIOUS
      <4>3. n \in Backends /\ TierOf[n] = call[c].tier
        BY <1>0, <2>1, <3>3, <4>2, WinnerIsRead
      <4>4. sticky'[s] = [sticky[s] EXCEPT !.backend = n]
        BY <2>2, <3>3, <4>2
      <4> HIDE DEF hit
      <4> QED
        BY <4>1, <4>3, <4>4 DEF Entries
    <3> QED
      BY <3>1, <3>2, <3>3
  <2>4. sticky' \in [Sessions -> Entries \cup {None}]
    BY <2>2, <2>3
  <2>5. TypeOK'
    BY <1>0, <1>9, <2>4 DEF Migrate, TypeOK
  <2>6. CallsRead'
    BY <1>0, <1>9 DEF Migrate, CallsRead, TypeOK
  <2>7. EntriesKeepTheirTier'
    BY <2>3 DEF EntriesKeepTheirTier
  <2> QED
    BY <2>5, <2>6, <2>7 DEF TableInv
<1>10. CASE UNCHANGED vars
  BY <1>0, <1>10 DEF vars, table, history, TableInv, TypeOK, CallsRead, EntriesKeepTheirTier
<1> QED
  BY <1>1, <1>2, <1>3, <1>4, <1>5, <1>6, <1>7, <1>8, <1>9, <1>10 DEF Next

(* The table keeps its types, and the tier of an entry is the tier of the  *)
(* backend it names, so on_backend_down finds every session it must move.  *)
THEOREM TableTypeCorrect == Spec => []TypeOK
BY TableInvInit, TableInvStep, PTL DEF Spec, TableInv

THEOREM TiersAreKept == Spec => []EntriesKeepTheirTier
BY TableInvInit, TableInvStep, PTL DEF Spec, TableInv

-----------------------------------------------------------------------------
(* Stickiness.  The table remembers the last turn of a session whose       *)
(* binding nobody touched since, and the ticks left to it are those the    *)
(* session has not been idle.                                              *)
Remembered ==
  \A s \in Sessions : last[s] # None /\ ~moved[s] =>
    /\ sticky[s] # None
    /\ sticky[s].backend = last[s]
    /\ idle[s] + sticky[s].left = Ttl

StickyInv == TableInv /\ Remembered

(* What a completed select_backend does: a hit keeps the backend of the    *)
(* binding, a miss binds the winner; the session's clock starts anew.      *)
LEMMA SelectEffect ==
  ASSUME TypeOK, CallsRead, NEW c \in Callers, SelectHits(c) \/ SelectMisses(c)
  PROVE  \E s \in Sessions, b \in Backends, t \in Tiers :
           /\ call[c] # None /\ call[c].op = "select" /\ call[c].who = s
           /\ Usable(s, call[c].read) => sticky[s].backend = b
           /\ Return(c, s, b)
           /\ sticky' = [sticky EXCEPT ![s] = [backend |-> b, tier |-> t, left |-> Ttl]]
<1>1. PICK s \in Sessions : s = call[c].who /\ call[c] # None /\ call[c].op = "select"
  BY DEF SelectHits, SelectMisses, TypeOK, Calls
<1>2. CASE SelectHits(c)
  <2>1. /\ Usable(s, call[c].read) /\ Return(c, s, sticky[s].backend)
        /\ sticky' = [sticky EXCEPT ![s] = [sticky[s] EXCEPT !.left = Ttl]]
    BY <1>1, <1>2 DEF SelectHits, TypeOK
  <2>2. sticky[s] \in Entries
    BY <2>1 DEF Usable, Live, TypeOK
  <2>3. /\ sticky[s].backend \in Backends /\ sticky[s].tier \in Tiers
        /\ [sticky[s] EXCEPT !.left = Ttl] =
             [backend |-> sticky[s].backend, tier |-> sticky[s].tier, left |-> Ttl]
    BY <2>2 DEF Entries
  <2>4. PICK b \in Backends, t \in Tiers : b = sticky[s].backend /\ t = sticky[s].tier
    BY <2>3
  <2>5. sticky' = [sticky EXCEPT ![s] = [backend |-> b, tier |-> t, left |-> Ttl]]
    BY <2>1, <2>3, <2>4
  <2>6. Usable(s, call[c].read) => sticky[s].backend = b
    BY <2>4
  <2>7. Return(c, s, b)
    BY <2>1, <2>4
  <2> WITNESS s \in Sessions, b \in Backends, t \in Tiers
  <2> QED
    BY <1>1, <2>5, <2>6, <2>7
<1>3. CASE SelectMisses(c)
  <2>1. PICK n : n = Winner(s, call[c].read)
    OBVIOUS
  <2>2. /\ ~Usable(s, call[c].read) /\ Return(c, s, n) /\ call[c].read # {}
        /\ sticky' = [sticky EXCEPT ![s] =
                        [backend |-> n, tier |-> call[c].tier, left |-> Ttl]]
    BY <1>1, <1>3, <2>1 DEF SelectMisses
  <2>3. n \in Backends /\ call[c].tier \in Tiers
    BY <1>1, <2>1, <2>2, WinnerIsRead DEF TypeOK, Calls
  <2> QED
    BY <1>1, <2>2, <2>3
<1> QED
  BY <1>2, <1>3

LEMMA RememberedStep ==
  ASSUME StickyInv, Next
  PROVE  Remembered'
<1> USE AffinityAssumption DEF AffinityAssumption
<1>0. TypeOK /\ CallsRead /\ Remembered
  BY DEF StickyInv, TableInv
<1>1. CASE Tick
  <2> SUFFICES ASSUME NEW s \in Sessions, last'[s] # None, ~moved'[s]
               PROVE  /\ sticky'[s] # None /\ sticky'[s].backend = last'[s]
                      /\ idle'[s] + sticky'[s].left = Ttl
    BY DEF Remembered
  <2>1. /\ last'[s] = last[s] /\ last[s] # None /\ ~moved[s]
        /\ sticky[s] \in Entries /\ sticky[s].backend = last[s]
        /\ idle[s] \in 0..Ttl /\ idle[s] + sticky[s].left = Ttl
    BY <1>0, <1>1 DEF Tick, TypeOK, Remembered
  <2>2. CASE sticky[s].left > 0
    <3>1. idle[s] < Ttl
      BY <2>1, <2>2 DEF Entries
    <3>2. sticky'[s] = [sticky[s] EXCEPT !.left = @ - 1] /\ idle'[s] = idle[s] + 1
      BY <1>1, <2>1, <2>2, <3>1 DEF Tick
    <3>3. /\ sticky'[s] \in Entries /\ sticky'[s].backend = sticky[s].backend
          /\ sticky'[s].left = sticky[s].left - 1
      BY <2>1, <2>2, <3>2 DEF Entries
    <3> QED
      BY <2>1, <3>2, <3>3 DEF Entries
  <2>3. CASE ~(sticky[s].left > 0)
    <3>1. ~(idle[s] < Ttl)
      BY <2>1, <2>3 DEF Entries
    <3>2. sticky'[s] = sticky[s] /\ idle'[s] = idle[s]
      BY <1>1, <2>3, <3>1 DEF Tick
    <3> QED
      BY <2>1, <3>2
  <2> QED
    BY <2>2, <2>3
<1>2. ASSUME NEW c \in Callers, SelectHits(c) \/ SelectMisses(c)
      PROVE  Remembered'
  <2>1. PICK s \in Sessions, b \in Backends, t \in Tiers :
          /\ Return(c, s, b)
          /\ sticky' = [sticky EXCEPT ![s] = [backend |-> b, tier |-> t, left |-> Ttl]]
    BY <1>0, <1>2, SelectEffect
  <2>2. /\ [backend |-> b, tier |-> t, left |-> Ttl] \in Entries
        /\ sticky'[s] = [backend |-> b, tier |-> t, left |-> Ttl]
        /\ last'[s] = b /\ idle'[s] = 0
    BY <1>0, <2>1 DEF Entries, Return, TypeOK
  <2>3. ASSUME NEW q \in Sessions \ {s}
        PROVE  /\ sticky'[q] = sticky[q] /\ last'[q] = last[q]
               /\ idle'[q] = idle[q] /\ moved'[q] = moved[q]
    BY <1>0, <2>1 DEF Return, TypeOK
  <2> QED
    BY <1>0, <2>2, <2>3 DEF Remembered
<1>3. ASSUME NEW s \in Sessions, Invalidate(s)
      PROVE  Remembered'
  BY <1>0, <1>3 DEF Invalidate, Remembered, TypeOK
<1>4. ASSUME NEW c \in Callers, Migrate(c)
      PROVE  Remembered'
  BY <1>0, <1>4 DEF Migrate, Remembered
<1>5. ASSUME \/ \E b \in Backends, up \in BOOLEAN : SetHealthy(b, up)
             \/ \E c \in Callers :
                  \/ \E s \in Sessions, t \in Tiers : ReadCandidates(c, s, t)
                  \/ SelectFails(c)
                  \/ \E b \in Backends : ReadSurvivors(c, b)
      PROVE  Remembered'
  BY <1>0, <1>5 DEF SetHealthy, ReadCandidates, SelectFails, ReadSurvivors, history,
                    Remembered
<1> QED
  BY <1>1, <1>2, <1>3, <1>4, <1>5 DEF Next

LEMMA StickyInvInit == Init => StickyInv
BY TableInvInit DEF Init, StickyInv, Remembered

LEMMA StickyInvStep == StickyInv /\ [Next]_vars => StickyInv'
<1>1. ASSUME StickyInv, UNCHANGED vars PROVE Remembered'
  BY <1>1 DEF StickyInv, vars, table, history, Remembered
<1> QED
  BY <1>1, TableInvStep, RememberedStep DEF StickyInv

(* A session that keeps taking turns within the TTL stays on its backend   *)
(* for ever, as long as the backend is a candidate and nobody migrates or  *)
(* drops the binding: for any number of callers with stale reads.          *)
THEOREM ActiveSessionsStick == Spec => StickyAcrossTurns
<1> USE AffinityAssumption DEF AffinityAssumption
<1>1. ASSUME StickyInv, Next, NEW c \in Callers, NEW s \in Sessions, Selects(c, s),
             last[s] # None, ~moved[s], idle[s] < Ttl, last[s] \in call[c].read
      PROVE  last'[s] = last[s] /\ Usable(s, call[c].read)
  <2>0. TypeOK /\ CallsRead /\ Remembered
    BY <1>1 DEF StickyInv, TableInv
  <2>1. sticky[s] \in Entries /\ sticky[s].backend = last[s] /\ idle[s] + sticky[s].left = Ttl
    BY <1>1, <2>0 DEF Remembered, TypeOK
  <2>2. Usable(s, call[c].read)
    BY <1>1, <2>0, <2>1 DEF Usable, Live, Entries, TypeOK
  <2>3. ASSUME NEW d \in Callers, SelectHits(d) \/ SelectMisses(d)
        PROVE  last'[s] = last[s]
    <3>1. PICK q \in Sessions, b \in Backends :
            /\ call[d].who = q
            /\ Usable(q, call[d].read) => sticky[q].backend = b
            /\ Return(d, q, b)
      BY <2>0, <2>3, SelectEffect
    <3>2. d = c
      BY <1>1, <2>0, <3>1 DEF Return, Selects, TypeOK
    <3> QED
      BY <1>1, <2>0, <2>1, <2>2, <3>1, <3>2 DEF Return, Selects, TypeOK
  <2>4. (\A d \in Callers : ~SelectHits(d) /\ ~SelectMisses(d)) => last' = last
    BY <1>1 DEF Next, Tick, SetHealthy, Invalidate, ReadCandidates, SelectFails,
                ReadSurvivors, Migrate, history
  <2> QED
    BY <2>2, <2>3, <2>4
<1>2. StickyInv /\ [Next]_vars =>
        [\A c \in Callers, s \in Sessions :
           /\ Selects(c, s)
           /\ last[s] # None /\ ~moved[s] /\ idle[s] < Ttl
           /\ last[s] \in call[c].read
           => last'[s] = last[s] /\ Usable(s, call[c].read)]_vars
  BY <1>1
<1> QED
  BY <1>2, StickyInvInit, StickyInvStep, PTL DEF Spec, StickyAcrossTurns

-----------------------------------------------------------------------------
(* Migration.  A call of on_backend_down has read survivors, of the tier   *)
(* of the backend it reports.                                              *)
DownCalls ==
  \A c \in Callers : call[c] # None /\ call[c].op = "down" =>
    call[c].who \notin call[c].read /\ call[c].tier = TierOf[call[c].who]

LEMMA DownCallsStep ==
  ASSUME TypeOK, DownCalls, [Next]_vars
  PROVE  DownCalls'
<1>1. ASSUME NEW c \in Callers, NEW b \in Backends, ReadSurvivors(c, b)
      PROVE  DownCalls'
  BY <1>1 DEF ReadSurvivors, DownCalls, TypeOK
<1>2. ASSUME NEW c \in Callers, NEW s \in Sessions, NEW t \in Tiers, ReadCandidates(c, s, t)
      PROVE  DownCalls'
  BY <1>2 DEF ReadCandidates, DownCalls, TypeOK
<1>3. ASSUME NEW c \in Callers, call' = [call EXCEPT ![c] = None]
      PROVE  DownCalls'
  BY <1>3 DEF DownCalls, TypeOK
<1>4. ASSUME UNCHANGED call PROVE DownCalls'
  BY <1>4 DEF DownCalls
<1>5. ASSUME NEW c \in Callers, SelectHits(c) \/ SelectMisses(c)
      PROVE  call' = [call EXCEPT ![c] = None]
  BY <1>5 DEF SelectHits, SelectMisses, Return
<1>6. ASSUME NEW c \in Callers, SelectFails(c) \/ Migrate(c)
      PROVE  call' = [call EXCEPT ![c] = None]
  BY <1>6 DEF SelectFails, Migrate
<1>7. ASSUME \/ Tick \/ UNCHANGED vars
             \/ \E b \in Backends, up \in BOOLEAN : SetHealthy(b, up)
             \/ \E s \in Sessions : Invalidate(s)
      PROVE  UNCHANGED call
  BY <1>7 DEF Tick, SetHealthy, Invalidate, vars, table
<1> QED
  BY <1>1, <1>2, <1>3, <1>4, <1>5, <1>6, <1>7 DEF Next

LEMMA DownCallsKept == Spec => [](TableInv /\ DownCalls)
<1>1. Init => DownCalls
  BY DEF Init, DownCalls
<1>2. TableInv /\ DownCalls /\ [Next]_vars => DownCalls'
  BY DownCallsStep DEF TableInv
<1> QED
  BY <1>1, <1>2, TableInvInit, TableInvStep, PTL DEF Spec

(* When a migration is done no session is pinned to the backend that was   *)
(* reported: an entry of another tier cannot name it, and it is not among  *)
(* the survivors, whatever happened since they were read.                  *)
THEOREM EverybodyMoves == Spec => NobodyStaysBehind
<1>1. ASSUME TableInv, DownCalls, Next, NEW c \in Callers,
             call[c] # None, call[c].op = "down", call'[c] = None,
             NEW s \in Sessions, sticky'[s] # None
      PROVE  sticky'[s].backend # call[c].who
  <2>0. TypeOK /\ CallsRead /\ EntriesKeepTheirTier
    BY <1>1 DEF TableInv
  <2>1. Migrate(c)
    <3>1. ASSUME NEW d \in Callers, call' = [call EXCEPT ![d] = None] PROVE d = c
      BY <1>1, <2>0, <3>1 DEF TypeOK
    <3>2. ASSUME NEW d \in Callers,
                 SelectFails(d) \/ SelectHits(d) \/ SelectMisses(d)
          PROVE  call' = [call EXCEPT ![d] = None] /\ call[d].op = "select"
      BY <3>2 DEF SelectFails, SelectHits, SelectMisses, Return
    <3>3. ASSUME NEW d \in Callers, Migrate(d) PROVE call' = [call EXCEPT ![d] = None]
      BY <3>3 DEF Migrate
    <3>4. ASSUME NEW d \in Callers,
                 \/ \E q \in Sessions, t \in Tiers : ReadCandidates(d, q, t)
                 \/ \E b \in Backends : ReadSurvivors(d, b)
          PROVE  FALSE
      <4>1. call[d] = None /\ call'[c] = IF c = d THEN call'[d] ELSE call[c]
        BY <2>0, <3>4 DEF ReadCandidates, ReadSurvivors, TypeOK
      <4>2. c # d
        BY <1>1, <4>1
      <4> QED
        BY <1>1, <4>1, <4>2
    <3>5. ~ \/ Tick
            \/ \E b \in Backends, up \in BOOLEAN : SetHealthy(b, up)
            \/ \E q \in Sessions : Invalidate(q)
      BY <1>1 DEF Tick, SetHealthy, Invalidate
    <3> QED
      BY <1>1, <3>1, <3>2, <3>3, <3>4, <3>5 DEF Next
  <2> DEFINE hit == Affected(call[c].who, call[c].tier)
  <2>2. /\ s \notin hit => sticky'[s] = sticky[s]
        /\ s \in hit => call[c].read # {}
        /\ s \in hit => sticky'[s] = [sticky[s] EXCEPT !.backend = Winner(s, call[c].read)]
    BY <1>1, <2>1 DEF Migrate
  <2>3. call[c].who \notin call[c].read /\ call[c].tier = TierOf[call[c].who]
    BY <1>1 DEF DownCalls
  <2>4. CASE s \notin hit
    <3>1. sticky[s] # None /\ TierOf[sticky[s].backend] = sticky[s].tier
      BY <1>1, <2>0, <2>2, <2>4 DEF EntriesKeepTheirTier
    <3> QED
      BY <2>2, <2>3, <2>4, <3>1 DEF Affected
  <2>5. CASE s \in hit
    <3>1. PICK n : n = Winner(s, call[c].read)
      OBVIOUS
    <3>2. n \in call[c].read
      BY <1>1, <2>0, <2>2, <2>5, <3>1, WinnerIsRead
    <3>3. sticky[s] \in Entries
      BY <2>0, <2>5 DEF Affected, TypeOK
    <3>4. sticky'[s] = [sticky[s] EXCEPT !.backend = n]
      BY <2>2, <2>5, <3>1
    <3>5. sticky'[s].backend = n
      BY <3>3, <3>4 DEF Entries
    <3> QED
      BY <2>3, <3>2, <3>5
  <2> QED
    BY <2>4, <2>5
<1>2. TableInv /\ DownCalls /\ [Next]_vars =>
        [\A c \in Callers :
           call[c] # None /\ call[c].op = "down" /\ call'[c] = None =>
             \A s \in Sessions : sticky'[s] # None => sticky'[s].backend # call[c].who]_vars
  BY <1>1
<1> QED
  BY <1>2, DownCallsKept, PTL DEF Spec, NobodyStaysBehind
=============================================================================
