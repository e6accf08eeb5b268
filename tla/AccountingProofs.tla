-------------------------- MODULE AccountingProofs --------------------------
(***************************************************************************)
(* The token accountant counts what it should, for any agents, amounts,    *)
(* window and budget, and for any failures of writes, crashes, restarts    *)
(* and reboots.                                                            *)
(***************************************************************************)
EXTENDS Accounting, FiniteSetTheorems, SequenceTheorems, TLAPS

USE AccountingAssumption

Readable == file \notin {Missing, Torn}

Recent(i) == now - ledger[i].at <= Window

(* e stands for a debit of agent a that is not lost.  Its timestamp may be *)
(* early, since a reboot sets monotonic back, but by no more than that.    *)
Genuine(a, e) ==
  /\ e.id \in IdsOf(ledger) \ lost
  /\ ledger[e.id].agent = a
  /\ e.ts <= ledger[e.id].at /\ ledger[e.id].at <= e.ts + boot

(* The windows w have an entry for the debit i. *)
Has(w, i) == \E e \in w[ledger[i].agent] : e.id = i

LedgerInv ==
  /\ \A i \in IdsOf(ledger) : ledger[i].at <= now
  /\ lost \subseteq IdsOf(ledger)
  /\ covered \subseteq IdsOf(ledger) \ lost
  /\ mode = "down" => IdsOf(ledger) \ lost \subseteq covered

(* The windows w have genuine entries only, and miss no recent debit of    *)
(* the set ids.                                                            *)
Right(w, ids) ==
  /\ \A a \in Agents : \A e \in w[a] : Genuine(a, e)
  /\ \A i \in ids : Recent(i) => Has(w, i)

(* The windows in memory are right while there is a memory. *)
WindowInv == mode # "down" => Right(entries, IdsOf(ledger) \ lost)

(* The windows in the file are right for the debits it accounts for, and   *)
(* unless it is torn it is the last snapshot written.                      *)
FileInv ==
  /\ Readable => /\ Right(file, covered)
                 /\ \A a \in Agents : \A e \in file[a] : e.id \in covered
  /\ covered # {} => Readable
  /\ file # Torn => saved = covered

AccountingInv == TypeOK /\ LedgerInv /\ WindowInv /\ FileInv

-----------------------------------------------------------------------------
(* Lemmas *)

(* Eviction takes entries away from a window and puts none in. *)
LEMMA KeptIsSubset ==
  ASSUME NEW S PROVE Kept(S) \subseteq S
BY DEF Kept

(* The debits keep their numbers when one more is entered in the ledger. *)
LEMMA LedgerGrows ==
  ASSUME NEW l, NEW d, l \in Seq(Debits), d \in Debits
  PROVE  /\ Append(l, d) \in Seq(Debits)
         /\ Len(Append(l, d)) = Len(l) + 1
         /\ IdsOf(Append(l, d)) = IdsOf(l) \cup {Len(l) + 1}
         /\ Len(l) + 1 \notin IdsOf(l)
         /\ \A i \in IdsOf(l) : Append(l, d)[i] = l[i]
         /\ Append(l, d)[Len(l) + 1] = d
<1>1. Len(l) \in Nat
  BY LenProperties
<1>2. /\ Append(l, d) \in Seq(Debits)
      /\ Len(Append(l, d)) = Len(l) + 1
      /\ \A i \in 1..Len(l) : Append(l, d)[i] = l[i]
      /\ Append(l, d)[Len(l) + 1] = d
  BY AppendProperties
<1> QED
  BY <1>1, <1>2 DEF IdsOf

(* What a debit has, as its type says. *)
LEMMA DebitFields ==
  ASSUME TypeOK, NEW i \in IdsOf(ledger)
  PROVE  ledger[i].agent \in Agents /\ ledger[i].at \in 0..Horizon /\ i \in Ids
<1>1. ledger[i] \in Debits /\ Len(ledger) \in Nat
  BY ElementOfSeq, LenProperties DEF TypeOK, IdsOf
<1> QED
  BY <1>1 DEF Debits, TypeOK, IdsOf, Ids

(* Eviction leaves the entry of a debit that is still due: a genuine entry *)
(* is not older than the debit looks to a host that was rebooted.          *)
LEMMA EntryStaysWhileDue ==
  ASSUME TypeOK, NEW a \in Agents, NEW i \in IdsOf(ledger), Recent(i),
         NEW S \in EntrySets, NEW e \in S, e.id = i, Genuine(a, e)
  PROVE  e \in Kept(S)
<1>1. e.ts \in Int /\ now \in Int /\ boot \in Int
  BY DEF EntrySets, TypeOK
<1>2. ledger[i].at \in Int
  BY DebitFields
<1>3. e.ts >= now - boot - Window
  BY <1>1, <1>2 DEF Genuine, Recent
<1> QED
  BY <1>3 DEF Kept, monotonic

(* Right windows stay right when some of them are evicted. *)
LEMMA EvictionKeepsRight ==
  ASSUME TypeOK, NEW ids, ids \subseteq IdsOf(ledger), NEW w \in Windows, Right(w, ids),
         NEW B \in SUBSET Agents
  PROVE  LET v == [a \in Agents |-> IF a \in B THEN Kept(w[a]) ELSE w[a]]
         IN  v \in Windows /\ Right(v, ids)
<1> DEFINE v == [a \in Agents |-> IF a \in B THEN Kept(w[a]) ELSE w[a]]
<1>1. v \in Windows
  BY DEF Windows, EntrySets, Kept
<1>2. ASSUME NEW a \in Agents, NEW e \in v[a] PROVE Genuine(a, e)
  BY <1>2, KeptIsSubset DEF Right
<1>3. ASSUME NEW i \in ids, Recent(i) PROVE Has(v, i)
  <2>1. PICK e \in w[ledger[i].agent] : e.id = i
    BY <1>3 DEF Right, Has
  <2>2. ledger[i].agent \in Agents /\ w[ledger[i].agent] \in EntrySets
    BY DebitFields DEF Windows
  <2>3. Genuine(ledger[i].agent, e)
    BY <2>2 DEF Right
  <2>4. e \in v[ledger[i].agent]
    BY <1>3, <2>1, <2>2, <2>3, EntryStaysWhileDue
  <2> QED
    BY <2>1, <2>4 DEF Has
<1> QED
  BY <1>1, <1>2, <1>3 DEF Right

LEMMA TypeOKInit == Init => TypeOK
<1> SUFFICES ASSUME Init PROVE TypeOK
  OBVIOUS
<1>1. NoEntries \in Windows
  BY DEF NoEntries, Windows, EntrySets
<1>2. << >> \in Seq(Debits) /\ Len(<< >>) = 0
  BY EmptySeq
<1> QED
  BY <1>1, <1>2 DEF Init, TypeOK

LEMMA TypeOKStep == TypeOK /\ [Next]_vars => TypeOK'
<1> SUFFICES ASSUME TypeOK, [Next]_vars PROVE TypeOK'
  OBVIOUS
<1> USE DEF TypeOK
<1>0. NoEntries \in Windows
  BY DEF NoEntries, Windows, EntrySets
<1>1. CASE Tick
  BY <1>1 DEF Tick, process, history
<1>2. CASE Reboot
  BY <1>2 DEF Reboot, process, history
<1>3. ASSUME NEW a \in Agents, Check(a) PROVE TypeOK'
  <2>1. Kept(entries[a]) \in EntrySets
    BY DEF Kept, Windows, EntrySets
  <2>2. entries' = [entries EXCEPT ![a] = Kept(entries[a])]
    BY <1>3 DEF Check
  <2>3. entries' \in Windows
    BY <2>1, <2>2 DEF Windows
  <2> QED
    BY <1>3, <2>3 DEF Check, history
<1>4. ASSUME NEW a \in Agents, NEW n \in Amounts, Debit(a, n) PROVE TypeOK'
  <2> DEFINE d == [agent |-> a, tokens |-> n, at |-> now]
             e == [id |-> Len(ledger) + 1, ts |-> monotonic]
  <2>1. d \in Debits
    BY DEF Debits
  <2>2. ledger' \in Seq(Debits) /\ Len(ledger') = Len(ledger) + 1
    BY <1>4, <2>1, LedgerGrows DEF Debit
  <2>3. Len(ledger) \in Nat
    BY LenProperties
  <2>4. e \in [id : Ids, ts : 0..Horizon]
    BY <1>4, <2>3 DEF Debit, Ids, monotonic
  <2>5. Kept(entries[a]) \cup {e} \in EntrySets
    BY <2>4 DEF Kept, Windows, EntrySets
  <2>6. entries' \in Windows
    BY <1>4, <2>5 DEF Debit, Windows
  <2> QED
    BY <1>4, <2>2, <2>3, <2>6 DEF Debit
<1>5. CASE SaveBegins
  BY <1>5 DEF SaveBegins, OpenFile
<1>6. CASE StopBegins
  BY <1>6 DEF StopBegins, OpenFile
<1>7. IdsOf(ledger) \subseteq Ids
  BY DebitFields
<1>8. CASE SaveEnds
  BY <1>0, <1>7, <1>8 DEF SaveEnds, SaveOver, End
<1>9. CASE SaveFails
  BY <1>0, <1>7, <1>9 DEF SaveFails, SaveOver, End
<1>10. CASE Crash
  BY <1>0, <1>7, <1>10 DEF Crash, End
<1>11. CASE Start
  <2>1. Restored \in Windows
    BY <1>0 DEF Restored, Kept, Windows, EntrySets
  <2> QED
    BY <1>11, <2>1 DEF Start, history
<1>12. CASE UNCHANGED vars
  BY <1>12 DEF vars, process, history
<1> QED
  BY <1>1, <1>2, <1>3, <1>4, <1>5, <1>6, <1>8, <1>9, <1>10, <1>11, <1>12 DEF Next

(* The accountant, the snapshot and the ledger never leave their types.    *)
THEOREM AccountingTypeCorrect == Spec => []TypeOK
<1> QED
  BY TypeOKInit, TypeOKStep, PTL DEF Spec
-----------------------------------------------------------------------------
(* The inductive invariant *)

LEMMA AccountingInvInit == Init => AccountingInv
<1> SUFFICES ASSUME Init PROVE AccountingInv
  OBVIOUS
<1>1. IdsOf(ledger) = {}
  BY EmptySeq DEF Init, IdsOf
<1> QED
  BY <1>1, TypeOKInit DEF Init, AccountingInv, LedgerInv, WindowInv, FileInv, Right, Readable, NoEntries

(* Genuine entries stay genuine, and debits that are old stay old, when    *)
(* time passes and when a reboot sets the clock of the code back.          *)
LEMMA TimePasses ==
  ASSUME TypeOK, TypeOK', UNCHANGED <<ledger, lost>>, boot' >= boot, now' >= now
  PROVE  /\ \A a \in Agents, S \in EntrySets : \A e \in S : Genuine(a, e) => Genuine(a, e)'
         /\ \A i \in IdsOf(ledger) : Recent(i)' => Recent(i)
<1>1. \A i \in IdsOf(ledger) : ledger[i].at \in Int
  BY DebitFields
<1>2. boot \in Int /\ boot' \in Int /\ now \in Int /\ now' \in Int
  BY DEF TypeOK
<1>3. ASSUME NEW a \in Agents, NEW S \in EntrySets, NEW e \in S, Genuine(a, e)
      PROVE  Genuine(a, e)'
  <2>1. e.ts \in Int /\ ledger[e.id].at \in Int
    BY <1>1, <1>3 DEF EntrySets, Genuine
  <2> QED
    BY <1>2, <1>3, <2>1 DEF Genuine
<1>4. ASSUME NEW i \in IdsOf(ledger), Recent(i)' PROVE Recent(i)
  BY <1>1, <1>2, <1>4 DEF Recent
<1> QED
  BY <1>3, <1>4

(* So what the windows in memory, and those in the file, say of the debits *)
(* stays true when nothing but time and mode changes.                      *)
LEMMA TimeKeepsInv ==
  ASSUME AccountingInv, TypeOK', UNCHANGED <<file, history>>, boot' >= boot, now' >= now
  PROVE  /\ FileInv'
         /\ mode # "down" /\ entries' = entries => WindowInv'
         /\ \A i \in IdsOf(ledger') : ledger'[i].at <= now'
<1> USE DEF AccountingInv, history
<1>1. UNCHANGED <<ledger, lost, covered, saved, file>>
  OBVIOUS
<1>2. /\ \A a \in Agents, S \in EntrySets : \A e \in S : Genuine(a, e) => Genuine(a, e)'
      /\ \A i \in IdsOf(ledger) : Recent(i)' => Recent(i)
  BY <1>1, TimePasses
<1>3. ASSUME Readable PROVE Right(file, covered)'
  BY <1>1, <1>2, <1>3 DEF FileInv, LedgerInv, Right, Has, Readable, TypeOK, Windows
<1>4. FileInv'
  BY <1>1, <1>3 DEF FileInv, Readable
<1>5. ASSUME mode # "down", entries' = entries PROVE WindowInv'
  BY <1>1, <1>2, <1>5 DEF WindowInv, Right, Has, TypeOK, Windows
<1>6. \A i \in IdsOf(ledger) : ledger[i].at \in Int
  BY DebitFields
<1>7. \A i \in IdsOf(ledger') : ledger'[i].at <= now'
  BY <1>1, <1>6 DEF LedgerInv, TypeOK
<1> QED
  BY <1>4, <1>5, <1>7

(* A new debit gets an entry with the current reading of the clock. *)
LEMMA DebitKeepsInv ==
  ASSUME AccountingInv, TypeOK', NEW a \in Agents, NEW n \in Amounts, Debit(a, n)
  PROVE  LedgerInv' /\ WindowInv' /\ FileInv'
<1> USE DEF AccountingInv
<1> DEFINE new == Len(ledger) + 1
           d == [agent |-> a, tokens |-> n, at |-> now]
           e == [id |-> new, ts |-> monotonic]
<1>1. d \in Debits
  BY DEF Debits, TypeOK
<1>2. /\ IdsOf(ledger') = IdsOf(ledger) \cup {new}
      /\ new \notin IdsOf(ledger)
      /\ \A i \in IdsOf(ledger) : ledger'[i] = ledger[i]
      /\ ledger'[new] = d
  <2>1. ledger \in Seq(Debits) /\ ledger' = Append(ledger, d)
    BY DEF Debit, TypeOK
  <2> HIDE DEF d, new
  <2>2. /\ IdsOf(Append(ledger, d)) = IdsOf(ledger) \cup {Len(ledger) + 1}
        /\ Len(ledger) + 1 \notin IdsOf(ledger)
        /\ \A i \in IdsOf(ledger) : Append(ledger, d)[i] = ledger[i]
        /\ Append(ledger, d)[Len(ledger) + 1] = d
    BY <1>1, <2>1, LedgerGrows
  <2> QED
    BY <2>1, <2>2 DEF new
<1>3. UNCHANGED <<mode, now, boot, file, covered, saved, lost>> /\ mode = "up"
  BY DEF Debit
<1>4. LedgerInv'
  BY <1>2, <1>3 DEF LedgerInv, TypeOK
<1>5. Right(entries, IdsOf(ledger) \ lost) /\ entries \in Windows
  BY <1>3 DEF WindowInv, TypeOK
<1>6. /\ new \notin lost /\ new \notin covered
      /\ monotonic <= now /\ now <= monotonic + boot
  BY <1>2 DEF LedgerInv, monotonic, TypeOK
<1> DEFINE kept == [b \in Agents |-> IF b \in {a} THEN Kept(entries[b]) ELSE entries[b]]
<1>7. kept \in Windows /\ Right(kept, IdsOf(ledger) \ lost)
  BY <1>5, EvictionKeepsRight
<1>8. /\ entries' \in Windows
      /\ \A b \in Agents : entries'[b] = kept[b] \cup (IF b = a THEN {e} ELSE {})
  BY <1>5 DEF Debit, Windows, TypeOK
<1>9. Right(entries, IdsOf(ledger) \ lost)'
  <2>1. ASSUME NEW b \in Agents, NEW f \in entries'[b] PROVE Genuine(b, f)'
    <3>1. CASE f \in kept[b]
      BY <1>2, <1>3, <1>7, <3>1 DEF Right, Genuine
    <3>2. CASE b = a /\ f = e
      BY <1>2, <1>3, <1>6, <3>2 DEF Genuine
    <3> QED
      BY <1>8, <3>1, <3>2
  <2>2. ASSUME NEW i \in IdsOf(ledger) \ lost, Recent(i)' PROVE Has(entries, i)'
    <3>1. Has(kept, i)
      BY <1>2, <1>3, <1>7, <2>2 DEF Right, Recent
    <3>2. ledger[i].agent \in Agents
      BY DebitFields
    <3> QED
      BY <1>2, <1>8, <3>1, <3>2 DEF Has
  <2>3. ASSUME NEW i, i = new PROVE Has(entries, i)'
    <3>1. e \in entries'[a] /\ e.id = new
      BY <1>8
    <3>2. ledger'[i].agent = a
      BY <1>2, <2>3
    <3> QED
      BY <2>3, <3>1, <3>2 DEF Has
  <2> QED
    BY <1>2, <1>3, <2>1, <2>2, <2>3 DEF Right
<1>10. FileInv'
  <2>1. \A b \in Agents : \A f : Genuine(b, f) => Genuine(b, f)'
    BY <1>2, <1>3 DEF Genuine
  <2>2. \A i \in covered : (Recent(i)' <=> Recent(i)) /\ (Has(file, i)' <=> Has(file, i))
    BY <1>2, <1>3 DEF Recent, Has, LedgerInv
  <2> QED
    BY <1>3, <2>1, <2>2 DEF FileInv, Readable, Right
<1> QED
  BY <1>3, <1>4, <1>9, <1>10 DEF WindowInv

(* The process ends, and what the file does not account for is lost. *)
LEMMA EndKeepsLedger ==
  ASSUME AccountingInv, NEW cov, cov \subseteq IdsOf(ledger) \ lost, End(cov),
         covered' = cov, UNCHANGED <<ledger, now>>
  PROVE  LedgerInv' /\ WindowInv' /\ IdsOf(ledger) \ lost' = cov
BY DEF AccountingInv, End, LedgerInv, WindowInv

LEMMA AccountingInvStep == AccountingInv /\ [Next]_vars => AccountingInv'
<1> SUFFICES ASSUME AccountingInv, [Next]_vars PROVE AccountingInv'
  OBVIOUS
<1> USE DEF AccountingInv
<1>0. TypeOK'
  BY TypeOKStep
<1>1. CASE Tick
  <2>1. UNCHANGED <<process, file, history>> /\ boot' >= boot /\ now' >= now
    BY <1>1 DEF Tick, TypeOK
  <2> QED
    BY <1>0, <2>1, TimeKeepsInv DEF process, history, LedgerInv, WindowInv
<1>2. CASE Reboot
  <2>1. UNCHANGED <<process, file, history>> /\ boot' >= boot /\ now' >= now /\ mode = "down"
    BY <1>2 DEF Reboot, TypeOK
  <2> QED
    BY <1>0, <2>1, TimeKeepsInv DEF process, history, LedgerInv, WindowInv
<1>3. ASSUME NEW a \in Agents, Check(a) PROVE AccountingInv'
  <2> DEFINE kept == [b \in Agents |-> IF b \in {a} THEN Kept(entries[b]) ELSE entries[b]]
  <2>1. /\ entries' = kept /\ mode = "up"
        /\ UNCHANGED <<mode, now, boot, file, ledger, covered, saved, lost>>
    BY <1>3 DEF Check, history, TypeOK, Windows
  <2>2. Right(kept, IdsOf(ledger) \ lost)
    BY <2>1, EvictionKeepsRight DEF WindowInv, TypeOK
  <2>3. WindowInv'
    BY <2>1, <2>2 DEF WindowInv, Right, Has, Genuine, Recent
  <2> QED
    BY <1>0, <2>1, <2>3 DEF LedgerInv, FileInv, Right, Has, Genuine, Recent, Readable
<1>4. ASSUME NEW a \in Agents, NEW n \in Amounts, Debit(a, n) PROVE AccountingInv'
  BY <1>0, <1>4, DebitKeepsInv
<1>5. CASE SaveBegins \/ StopBegins
  <2>1. /\ covered' = {} /\ file' = Torn
        /\ mode = "up" /\ mode' # "down"
        /\ UNCHANGED <<entries, now, boot, ledger, saved, lost>>
    BY <1>5 DEF SaveBegins, StopBegins, OpenFile
  <2> QED
    BY <1>0, <2>1 DEF LedgerInv, WindowInv, FileInv, Right, Has, Genuine, Recent, Readable
<1>6. CASE SaveEnds
  <2> DEFINE cov == IdsOf(ledger) \ lost
  <2>1. /\ file' = entries /\ covered' = cov /\ saved' = cov /\ mode # "down"
        /\ UNCHANGED <<now, boot, ledger>>
    BY <1>6 DEF SaveEnds, SaveOver
  <2>2. Right(entries, cov)
    BY <2>1 DEF WindowInv
  <2>3. lost' = lost /\ LedgerInv' /\ WindowInv'
    <3>1. CASE mode' = "up" /\ UNCHANGED <<entries, lost>>
      BY <2>1, <3>1 DEF LedgerInv, WindowInv, Right, Has, Genuine, Recent
    <3>2. CASE End(cov)
      BY <2>1, <3>2, EndKeepsLedger DEF End, LedgerInv
    <3> QED
      BY <1>6, <3>1, <3>2 DEF SaveEnds, SaveOver
  <2>4. Readable'
    BY <2>1, UnreadableAssumption DEF Readable, TypeOK
  <2>5. \A b \in Agents : \A f \in entries[b] : f.id \in cov
    BY <2>2 DEF Right, Genuine
  <2>6. Right(file, covered)'
    BY <2>1, <2>2, <2>3 DEF Right, Has, Genuine, Recent
  <2> QED
    BY <1>0, <2>1, <2>3, <2>4, <2>5, <2>6 DEF FileInv
<1>7. CASE SaveFails \/ Crash
  <2>1. UNCHANGED <<file, covered, saved, now, boot, ledger>>
    BY <1>7 DEF SaveFails, SaveOver, Crash
  <2>2. CASE mode # "down" /\ mode' = "up" /\ UNCHANGED <<entries, lost>>
    BY <1>0, <2>1, <2>2 DEF LedgerInv, WindowInv, FileInv, Right, Has, Genuine, Recent, Readable
  <2>3. CASE End(covered)
    <3>1. LedgerInv' /\ WindowInv'
      BY <2>1, <2>3, EndKeepsLedger DEF LedgerInv
    <3>2. \A b, f : Genuine(b, f) /\ f.id \in covered => Genuine(b, f)'
      BY <2>1, <2>3 DEF Genuine, End
    <3>3. FileInv'
      BY <2>1, <3>2 DEF FileInv, Right, Has, Recent, Readable
    <3> QED
      BY <1>0, <3>1, <3>3
  <2> QED
    BY <1>7, <2>2, <2>3 DEF SaveFails, SaveOver, Crash
<1>8. CASE Start
  <2>1. /\ UNCHANGED <<now, boot, file, ledger, covered, saved, lost>>
        /\ mode = "down" /\ mode' = "up" /\ entries' = Restored
    BY <1>8 DEF Start, history
  <2>2. Right(Restored, covered)
    <3>1. CASE Readable
      <4>1. file \in Windows
        BY <3>1 DEF TypeOK, Readable
      <4>2. Restored = [b \in Agents |-> IF b \in Agents THEN Kept(file[b]) ELSE file[b]]
        BY <3>1 DEF Restored, Readable
      <4> QED
        BY <3>1, <4>1, <4>2, EvictionKeepsRight DEF FileInv, LedgerInv
    <3>2. CASE ~Readable
      BY <3>2 DEF FileInv, Right, Restored, Readable, NoEntries
    <3> QED
      BY <3>1, <3>2
  <2>3. IdsOf(ledger) \ lost = covered
    BY <2>1 DEF LedgerInv
  <2> QED
    BY <1>0, <2>1, <2>2, <2>3
       DEF LedgerInv, WindowInv, FileInv, Right, Has, Genuine, Recent, Readable
<1>9. CASE UNCHANGED vars
  <2>1. UNCHANGED <<process, file, history>> /\ boot' >= boot /\ now' >= now
    BY <1>9 DEF vars, TypeOK
  <2> QED
    BY <1>0, <2>1, TimeKeepsInv DEF process, history, LedgerInv, WindowInv
<1> QED
  BY <1>1, <1>2, <1>3, <1>4, <1>5, <1>6, <1>7, <1>8, <1>9 DEF Next

(* The invariant is about the ledger that a correct window agrees with. *)
LEMMA RightWindowsCount == AccountingInv => CountedExactly
<1> SUFFICES ASSUME AccountingInv, mode \in {"up", "saving"}, NEW a \in Agents
             PROVE  LET counted == {e.id : e \in Kept(entries[a])}
                    IN  Due(a) \subseteq counted /\ (boot = 0 => counted = Due(a))
  BY DEF CountedExactly
<1> DEFINE counted == {e.id : e \in Kept(entries[a])}
<1>1. TypeOK /\ Right(entries, IdsOf(ledger) \ lost) /\ entries[a] \in EntrySets
  BY DEF AccountingInv, WindowInv, TypeOK, Windows
<1>2. ASSUME NEW i \in Due(a) PROVE i \in counted
  <2>1. i \in IdsOf(ledger) \ lost /\ ledger[i].agent = a /\ Recent(i)
    BY DEF Due, Recent
  <2>2. PICK e \in entries[a] : e.id = i
    BY <1>1, <2>1 DEF Right, Has
  <2>3. Genuine(a, e)
    BY <1>1 DEF Right
  <2>4. e \in Kept(entries[a])
    BY <1>1, <2>1, <2>2, <2>3, EntryStaysWhileDue
  <2> QED
    BY <2>2, <2>4
<1>3. ASSUME boot = 0, NEW e \in Kept(entries[a]) PROVE e.id \in Due(a)
  <2>1. e \in entries[a] /\ Genuine(a, e) /\ e.ts >= now - boot - Window
    BY <1>1, KeptIsSubset DEF Right, Kept, monotonic
  <2>2. /\ ledger[e.id].at \in Int /\ e.ts \in Int /\ now \in Int
    BY <1>1, <2>1, DebitFields DEF Genuine, EntrySets, TypeOK
  <2> QED
    BY <1>3, <2>1, <2>2 DEF Genuine, Due
<1> QED
  BY <1>2, <1>3

(* No eviction, failed write, crash, restart or reboot makes a window miss *)
(* a debit it should count; and while the host has not been rebooted it    *)
(* counts nothing else.                                                    *)
THEOREM WindowsAreExact == Spec => []CountedExactly
<1>1. Spec => []AccountingInv
  BY AccountingInvInit, AccountingInvStep, PTL DEF Spec
<1> QED
  BY <1>1, RightWindowsCount, PTL

(* Unless the file is torn a running gateway counts every recent debit of  *)
(* the last complete snapshot, however often it died and came back.        *)
THEOREM SavedDebitsAreKept == Spec => []SavedDebitsSurvive
<1>1. Spec => []AccountingInv
  BY AccountingInvInit, AccountingInvStep, PTL DEF Spec
<1>2. AccountingInv => SavedDebitsSurvive
  <2> SUFFICES ASSUME AccountingInv, mode = "up", file # Torn,
                      NEW i \in saved, now - ledger[i].at <= Window
               PROVE  \E e \in Kept(entries[ledger[i].agent]) : e.id = i
    BY DEF SavedDebitsSurvive
  <2>1. TypeOK /\ Right(entries, IdsOf(ledger) \ lost) /\ i \in IdsOf(ledger) \ lost
    BY DEF AccountingInv, LedgerInv, WindowInv, FileInv
  <2>2. ledger[i].agent \in Agents /\ entries[ledger[i].agent] \in EntrySets
    BY <2>1, DebitFields DEF TypeOK, Windows
  <2>3. PICK e \in entries[ledger[i].agent] : e.id = i
    BY <2>1 DEF Right, Recent, Has
  <2>4. Genuine(ledger[i].agent, e)
    BY <2>1, <2>2 DEF Right
  <2>5. e \in Kept(entries[ledger[i].agent])
    BY <2>1, <2>2, <2>3, <2>4, EntryStaysWhileDue DEF Recent
  <2> QED
    BY <2>3, <2>5
<1> QED
  BY <1>1, <1>2, PTL
-----------------------------------------------------------------------------
(* Sums over finite sets.  Total(w, S) is MapThenSumSet of the weights w   *)
(* with the function it recurs on brought to the surface.  The lemmas go   *)
(* by minimal counterexamples: a non-empty set of subsets of a finite set  *)
(* has a smallest one.                                                     *)
Pick(s) == CHOOSE x \in s : TRUE

IsSum(g, w, S) ==
  g = [s \in SUBSET S |-> IF s = {} THEN 0 ELSE w[Pick(s)] + g[s \ {Pick(s)}]]

Total(w, S) == (CHOOSE g : IsSum(g, w, S))[S]

LEMMA SmallestSubset ==
  ASSUME NEW S, IsFiniteSet(S), NEW Bad, Bad \subseteq SUBSET S, Bad # {}
  PROVE  \E T \in Bad : \A U \in SUBSET T : U # T => U \notin Bad
<1>1. FiniteSubsetsOf(S) = SUBSET S
  BY FS_FiniteSubsetsOfFinite
<1>2. IsWellFoundedOn(StrictSubsetOrdering(S), SUBSET S)
  BY <1>1, FS_StrictSubsetOrderingWellFounded
<1>3. PICK T \in Bad : \A U \in Bad : <<U, T>> \notin StrictSubsetOrdering(S)
  BY <1>2, WFMin
<1> QED
  BY <1>3 DEF StrictSubsetOrdering

LEMMA PickIsIn ==
  ASSUME NEW s, s # {} PROVE Pick(s) \in s
BY DEF Pick

(* All functions that recur as IsSum says agree where both are defined. *)
LEMMA SumsAgree ==
  ASSUME NEW w, NEW S, IsFiniteSet(S), NEW g, IsSum(g, w, S),
         NEW T, NEW h, IsSum(h, w, T)
  PROVE  \A u \in SUBSET S : u \in SUBSET T => g[u] = h[u]
<1> DEFINE Bad == {u \in SUBSET S : u \in SUBSET T /\ g[u] # h[u]}
<1> SUFFICES ASSUME Bad # {} PROVE FALSE
  OBVIOUS
<1>0. Bad \subseteq SUBSET S
  OBVIOUS
<1>1. PICK u \in Bad : \A v \in SUBSET u : v # u => v \notin Bad
  <2> HIDE DEF Bad
  <2> QED
    BY <1>0, SmallestSubset
<1>2. u = {} => g[u] = 0 /\ h[u] = 0
  BY <1>1 DEF IsSum
<1>3. u # {} => /\ g[u] = w[Pick(u)] + g[u \ {Pick(u)}]
                /\ h[u] = w[Pick(u)] + h[u \ {Pick(u)}]
  BY <1>1 DEF IsSum
<1>4. u # {} => g[u \ {Pick(u)}] = h[u \ {Pick(u)}]
  BY <1>1, PickIsIn
<1> QED
  BY <1>1, <1>2, <1>3, <1>4

(* And there is one for every finite set. *)
LEMMA SumExists ==
  ASSUME NEW w, NEW S, IsFiniteSet(S)
  PROVE  IsSum(CHOOSE g : IsSum(g, w, S), w, S)
<1> DEFINE Bad == {u \in SUBSET S : ~\E g : IsSum(g, w, u)}
<1> SUFFICES ASSUME Bad # {} PROVE FALSE
  BY DEF Bad
<1>0. Bad \subseteq SUBSET S
  OBVIOUS
<1>1. PICK T \in Bad : \A u \in SUBSET T : u # T => u \notin Bad
  <2> HIDE DEF Bad
  <2> QED
    BY <1>0, SmallestSubset
<1> DEFINE G(u) == CHOOSE g : IsSum(g, w, u)
           smaller == {u \in SUBSET T : u # T}
           new == [s \in SUBSET T |->
                     IF s = {} THEN 0 ELSE w[Pick(s)] + Total(w, s \ {Pick(s)})]
<1>2. ASSUME NEW u \in smaller PROVE IsSum(G(u), w, u) /\ Total(w, u) = G(u)[u]
  BY <1>1 DEF Total
<1>3. ASSUME NEW u \in smaller PROVE new[u] = Total(w, u)
  <2>0. G(u)[u] = IF u = {} THEN 0 ELSE w[Pick(u)] + G(u)[u \ {Pick(u)}]
    <3> HIDE DEF G
    <3> QED
      BY <1>2 DEF IsSum
  <2>1. CASE u = {}
    BY <1>2, <2>0, <2>1
  <2>2. CASE u # {}
    <3> DEFINE v == u \ {Pick(u)}
    <3>1. v \in smaller /\ v \in SUBSET u
      BY <2>2, PickIsIn
    <3>2. IsFiniteSet(u)
      BY FS_Subset
    <3>3. G(u)[v] = G(v)[v]
      BY <1>2, <3>1, <3>2, SumsAgree
    <3>4. G(u)[u] = w[Pick(u)] + G(u)[v]
      BY <2>0, <2>2
    <3>5. new[u] = w[Pick(u)] + Total(w, v)
      BY <2>2
    <3> HIDE DEF new, G
    <3> QED
      BY <1>2, <3>1, <3>3, <3>4, <3>5
  <2> QED
    BY <2>1, <2>2
<1>4. ASSUME NEW s \in SUBSET T, s # {} PROVE s \ {Pick(s)} \in smaller
  BY <1>4, PickIsIn
<1>5. \A s \in SUBSET T : s # {} => Total(w, s \ {Pick(s)}) = new[s \ {Pick(s)}]
  BY <1>3, <1>4
<1>6. new = [s \in SUBSET T |-> IF s = {} THEN 0 ELSE w[Pick(s)] + new[s \ {Pick(s)}]]
  <2> DEFINE also == [s \in SUBSET T |-> IF s = {} THEN 0 ELSE w[Pick(s)] + new[s \ {Pick(s)}]]
  <2>1. \A s \in SUBSET T : new[s] = also[s]
    BY <1>5
  <2> QED
    BY <2>1
<1> HIDE DEF new
<1>7. IsSum(new, w, T)
  BY <1>6 DEF IsSum
<1> QED
  BY <1>1, <1>7

(* Hence a sum is that of the picked element and of the others. *)
LEMMA TotalRecurs ==
  ASSUME NEW w, NEW S, IsFiniteSet(S)
  PROVE  /\ S = {} => Total(w, S) = 0
         /\ S # {} => Total(w, S) = w[Pick(S)] + Total(w, S \ {Pick(S)})
<1> DEFINE G(u) == CHOOSE g : IsSum(g, w, u)
           v == S \ {Pick(S)}
<1>1. IsFiniteSet(v) /\ v \in SUBSET S
  BY FS_RemoveElement
<1>2. IsSum(G(S), w, S) /\ IsSum(G(v), w, v)
  BY <1>1, SumExists
<1>3. G(S)[v] = G(v)[v]
  BY <1>1, <1>2, SumsAgree
<1>4. G(S)[S] = IF S = {} THEN 0 ELSE w[Pick(S)] + G(S)[v]
  BY <1>2 DEF IsSum
<1>5. Total(w, S) = G(S)[S] /\ Total(w, v) = G(v)[v]
  BY DEF Total
<1> HIDE DEF G
<1> QED
  BY <1>3, <1>4, <1>5

LEMMA TotalIsNat ==
  ASSUME NEW w, NEW S, IsFiniteSet(S), \A x \in S : w[x] \in Nat
  PROVE  Total(w, S) \in Nat
<1> DEFINE Bad == {u \in SUBSET S : Total(w, u) \notin Nat}
<1> SUFFICES ASSUME Bad # {} PROVE FALSE
  OBVIOUS
<1>0. Bad \subseteq SUBSET S
  OBVIOUS
<1>1. PICK u \in Bad : \A v \in SUBSET u : v # u => v \notin Bad
  <2> HIDE DEF Bad
  <2> QED
    BY <1>0, SmallestSubset
<1>2. IsFiniteSet(u)
  BY FS_Subset
<1>3. u # {} /\ Total(w, u) = w[Pick(u)] + Total(w, u \ {Pick(u)})
  <2>1. Total(w, {}) = 0
    BY FS_EmptySet, TotalRecurs
  <2> QED
    BY <1>2, <2>1, TotalRecurs
<1>4. Pick(u) \in u
  BY <1>3, PickIsIn
<1>5. Total(w, u \ {Pick(u)}) \in Nat
  BY <1>1, <1>4
<1> QED
  BY <1>3, <1>4, <1>5

(* And of any element and the others, not only of the picked one. *)
LEMMA TotalSplits ==
  ASSUME NEW w, NEW S, IsFiniteSet(S), \A x \in S : w[x] \in Nat, NEW i \in S
  PROVE  Total(w, S) = w[i] + Total(w, S \ {i})
<1> DEFINE Splits(u) == \A x \in u : Total(w, u) = w[x] + Total(w, u \ {x})
           Bad == {u \in SUBSET S : ~Splits(u)}
<1> SUFFICES ASSUME Bad # {} PROVE FALSE
  OBVIOUS
<1>0. Bad \subseteq SUBSET S
  OBVIOUS
<1>1. PICK u \in Bad : \A v \in SUBSET u : v # u => v \notin Bad
  <2> HIDE DEF Bad
  <2> QED
    BY <1>0, SmallestSubset
<1>2. PICK x \in u : Total(w, u) # w[x] + Total(w, u \ {x})
  OBVIOUS
<1> DEFINE y == Pick(u)
<1>3. IsFiniteSet(u) /\ y \in u
  BY FS_Subset, PickIsIn
<1>4. Total(w, u) = w[y] + Total(w, u \ {y})
  BY <1>2, <1>3, TotalRecurs
<1>5. x # y
  BY <1>2, <1>4
<1>6. Splits(u \ {x}) /\ Splits(u \ {y})
  BY <1>1, <1>2, <1>3
<1>7. /\ Total(w, u \ {x}) = w[y] + Total(w, (u \ {x}) \ {y})
      /\ Total(w, u \ {y}) = w[x] + Total(w, (u \ {y}) \ {x})
  BY <1>2, <1>3, <1>5, <1>6
<1> HIDE DEF y
<1> DEFINE rest == (u \ {x}) \ {y}
<1>8. rest = (u \ {y}) \ {x} /\ IsFiniteSet(rest) /\ rest \subseteq S
  BY <1>3, FS_RemoveElement
<1>9. Total(w, rest) \in Nat /\ w[x] \in Nat /\ w[y] \in Nat
  BY <1>2, <1>3, <1>8, TotalIsNat
<1> HIDE DEF rest
<1>10. /\ Total(w, u \ {x}) = w[y] + Total(w, rest)
       /\ Total(w, u \ {y}) = w[x] + Total(w, rest)
  BY <1>7, <1>8 DEF rest
<1> QED
  BY <1>2, <1>4, <1>9, <1>10

(* If the elements of D stand for different elements of S of the same      *)
(* weights, D weighs no more than S.                                       *)
LEMMA TotalAtMost ==
  ASSUME NEW D, IsFiniteSet(D), NEW S, IsFiniteSet(S),
         NEW v, NEW w, \A x \in S : w[x] \in Nat,
         NEW f \in [D -> S],
         \A i, j \in D : f[i] = f[j] => i = j,
         \A i \in D : v[i] = w[f[i]]
  PROVE  Total(v, D) <= Total(w, S)
<1> DEFINE Into(E, T) == \A i \in E : f[i] \in T
           Bad == {E \in SUBSET D : ~\A T \in SUBSET S : Into(E, T) => Total(v, E) <= Total(w, T)}
<1> SUFFICES ASSUME Bad # {} PROVE FALSE
  OBVIOUS
<1>0. Bad \subseteq SUBSET D
  OBVIOUS
<1>1. PICK E \in Bad : \A F \in SUBSET E : F # E => F \notin Bad
  <2> HIDE DEF Bad
  <2> QED
    BY <1>0, SmallestSubset
<1>2. PICK T \in SUBSET S : Into(E, T) /\ ~(Total(v, E) <= Total(w, T))
  OBVIOUS
<1>3. IsFiniteSet(E) /\ IsFiniteSet(T) /\ (\A x \in T : w[x] \in Nat)
  BY FS_Subset
<1>4. Total(w, T) \in Nat
  BY <1>3, TotalIsNat
<1>5. E # {}
  <2> SUFFICES ASSUME E = {} PROVE FALSE
    OBVIOUS
  <2>1. Total(v, {}) = 0
    BY FS_EmptySet, TotalRecurs
  <2>2. Total(v, E) <= Total(w, T)
    BY <1>4, <2>1
  <2> QED
    BY <1>2, <2>2
<1> DEFINE i == Pick(E)
<1>6. i \in E /\ f[i] \in T
  BY <1>2, <1>5, PickIsIn
<1>7. Total(v, E) = v[i] + Total(v, E \ {i})
  BY <1>3, <1>5, TotalRecurs
<1>8. Total(w, T) = w[f[i]] + Total(w, T \ {f[i]})
  BY <1>3, <1>6, TotalSplits
<1> HIDE DEF i
<1>9. Into(E \ {i}, T \ {f[i]})
  BY <1>2, <1>6
<1>10. Total(v, E \ {i}) <= Total(w, T \ {f[i]})
  BY <1>1, <1>6, <1>9
<1>11. /\ Total(w, T \ {f[i]}) \in Nat /\ v[i] = w[f[i]] /\ v[i] \in Nat
  BY <1>3, <1>6, FS_RemoveElement, TotalIsNat
<1>12. Total(v, E \ {i}) \in Nat
  <2>1. IsFiniteSet(E \ {i})
    BY <1>3, FS_RemoveElement
  <2>2. \A j \in E \ {i} : v[j] \in Nat
    BY <1>2, <1>3
  <2> QED
    BY <2>1, <2>2, TotalIsNat
<1> HIDE DEF Into
<1> QED
  BY <1>2, <1>7, <1>8, <1>10, <1>11, <1>12

(* The sums of the model are totals: of what is counted for an agent, and  *)
(* of what is due.                                                         *)
Cost(S) == [e \in S |-> ledger[e.id].tokens]

Tokens == [i \in IdsOf(ledger) |-> ledger[i].tokens]

DueTokens(a) == MapThenSumSet(LAMBDA i : ledger[i].tokens, Due(a))

LEMMA UsageIsTotal ==
  ASSUME NEW a PROVE Usage(a) = Total(Cost(Kept(entries[a])), Kept(entries[a]))
<1> DEFINE S == Kept(entries[a])
           Adds(g) == g = [s \in SUBSET S |->
                        IF s = {} THEN 0 ELSE ledger[Pick(s).id].tokens + g[s \ {Pick(s)}]]
<1>1. Usage(a) = (CHOOSE g : Adds(g))[S]
  BY DEF Usage, MapThenSumSet, MapThenFoldSet, Pick
<1> HIDE DEF S
<1>2. \A s \in SUBSET S : s # {} => Cost(S)[Pick(s)] = ledger[Pick(s).id].tokens
  BY PickIsIn DEF Cost
<1>3. ASSUME NEW g
      PROVE  [s \in SUBSET S |->
                IF s = {} THEN 0 ELSE ledger[Pick(s).id].tokens + g[s \ {Pick(s)}]]
           = [s \in SUBSET S |->
                IF s = {} THEN 0 ELSE Cost(S)[Pick(s)] + g[s \ {Pick(s)}]]
  BY <1>2
<1>4. \A g : Adds(g) <=> IsSum(g, Cost(S), S)
  BY <1>3 DEF IsSum
<1> HIDE DEF Adds
<1>5. (CHOOSE g : Adds(g)) = (CHOOSE g : IsSum(g, Cost(S), S))
  BY <1>4, Zenon
<1> QED
  BY <1>1, <1>5 DEF Total, S

LEMMA DueIsTotal ==
  ASSUME NEW a PROVE DueTokens(a) = Total(Tokens, Due(a))
<1> DEFINE S == Due(a)
           Adds(g) == g = [s \in SUBSET S |->
                        IF s = {} THEN 0 ELSE ledger[Pick(s)].tokens + g[s \ {Pick(s)}]]
<1>0. S \subseteq IdsOf(ledger)
  BY DEF Due
<1>1. DueTokens(a) = (CHOOSE g : Adds(g))[S]
  BY DEF DueTokens, MapThenSumSet, MapThenFoldSet, Pick
<1> HIDE DEF S
<1>2. \A s \in SUBSET S : s # {} => Tokens[Pick(s)] = ledger[Pick(s)].tokens
  BY <1>0, PickIsIn DEF Tokens
<1>3. ASSUME NEW g
      PROVE  [s \in SUBSET S |->
                IF s = {} THEN 0 ELSE ledger[Pick(s)].tokens + g[s \ {Pick(s)}]]
           = [s \in SUBSET S |->
                IF s = {} THEN 0 ELSE Tokens[Pick(s)] + g[s \ {Pick(s)}]]
  BY <1>2
<1>4. \A g : Adds(g) <=> IsSum(g, Tokens, S)
  BY <1>3 DEF IsSum
<1> HIDE DEF Adds
<1>5. (CHOOSE g : Adds(g)) = (CHOOSE g : IsSum(g, Tokens, S))
  BY <1>4, Zenon
<1> QED
  BY <1>1, <1>5 DEF Total, S

(* A window is finite, and its entries have weights. *)
LEMMA WindowIsFinite ==
  ASSUME TypeOK, NEW S \in EntrySets
  PROVE  IsFiniteSet(S)
<1> DEFINE All == Ids \X (0..Horizon)
           f == [e \in S |-> <<e.id, e.ts>>]
<1>1. IsFiniteSet(All)
  <2>1. IsFiniteSet(Ids) /\ IsFiniteSet(0..Horizon)
    BY FS_Interval DEF Ids
  <2> QED
    BY <2>1, FS_Product
<1>2. \A e \in S : e = [id |-> e.id, ts |-> e.ts] /\ e.id \in Ids /\ e.ts \in 0..Horizon
  BY DEF EntrySets
<1>3. f \in Injection(S, All)
  <2>1. f \in [S -> All]
    BY <1>2
  <2>2. ASSUME NEW d \in S, NEW e \in S, f[d] = f[e] PROVE d = e
    BY <1>2, <2>2
  <2> HIDE DEF f, All
  <2> QED
    BY <2>1, <2>2 DEF Injection, IsInjective
<1> HIDE DEF f, All
<1> QED
  BY <1>1, <1>3, FS_Injection

LEMMA TokensAreNat ==
  ASSUME TypeOK, NEW i \in IdsOf(ledger)
  PROVE  ledger[i].tokens \in Nat
<1>1. ledger[i] \in Debits
  BY ElementOfSeq, LenProperties DEF TypeOK, IdsOf
<1> QED
  BY <1>1 DEF Debits

(* What is due weighs no more than what is counted, since every debit due  *)
(* has an entry; and as much, if nothing else is counted.  Without a       *)
(* reboot the timestamp of an entry is the time of its debit, so no debit  *)
(* is counted twice.                                                       *)
LEMMA UsageMatches ==
  ASSUME AccountingInv, mode = "up", NEW a \in Agents
  PROVE  /\ Usage(a) \in Nat /\ DueTokens(a) \in Nat
         /\ DueTokens(a) <= Usage(a)
         /\ boot = 0 => Usage(a) <= DueTokens(a)
<1> DEFINE K == Kept(entries[a])
           D == Due(a)
<1>1. TypeOK /\ Right(entries, IdsOf(ledger) \ lost) /\ entries[a] \in EntrySets
  BY DEF AccountingInv, WindowInv, TypeOK, Windows
<1>2. D \subseteq {e.id : e \in K} /\ (boot = 0 => {e.id : e \in K} = D)
  BY RightWindowsCount DEF CountedExactly
<1>3. \A e \in K : Genuine(a, e) /\ e \in [id : Ids, ts : 0..Horizon]
  BY <1>1, KeptIsSubset DEF Right, EntrySets
<1>4. IsFiniteSet(K)
  <2>1. K \in EntrySets
    BY <1>1, KeptIsSubset DEF EntrySets
  <2> QED
    BY <1>1, <2>1, WindowIsFinite
<1>5. D \subseteq IdsOf(ledger) /\ IsFiniteSet(D)
  <2>1. IsFiniteSet(IdsOf(ledger))
    BY <1>1, FS_Interval, LenProperties DEF TypeOK, IdsOf
  <2>2. D \subseteq IdsOf(ledger)
    BY DEF Due
  <2> QED
    BY <2>1, <2>2, FS_Subset
<1>6. \A i \in IdsOf(ledger) : Tokens[i] \in Nat
  BY <1>1, TokensAreNat DEF Tokens
<1>7. \A e \in K : /\ e.id \in IdsOf(ledger)
                   /\ Cost(K)[e] = Tokens[e.id] /\ Cost(K)[e] \in Nat
  BY <1>3, <1>6 DEF Genuine, Cost, Tokens
<1>8. Usage(a) = Total(Cost(K), K) /\ DueTokens(a) = Total(Tokens, D)
  BY UsageIsTotal, DueIsTotal
<1> HIDE DEF K, D
<1>9. Usage(a) \in Nat /\ DueTokens(a) \in Nat
  BY <1>4, <1>5, <1>6, <1>7, <1>8, TotalIsNat
<1>10. DueTokens(a) <= Usage(a)
  <2> DEFINE f == [i \in D |-> CHOOSE e \in K : e.id = i]
  <2>1. \A i \in D : f[i] \in K /\ f[i].id = i
    BY <1>2
  <2>2. f \in [D -> K]
    BY <2>1
  <2> HIDE DEF f
  <2>3. /\ \A i, j \in D : f[i] = f[j] => i = j
        /\ \A i \in D : Tokens[i] = Cost(K)[f[i]]
    BY <1>7, <2>1
  <2>4. Total(Tokens, D) <= Total(Cost(K), K)
    BY <1>4, <1>5, <1>7, <2>2, <2>3, TotalAtMost
  <2> QED
    BY <1>8, <2>4
<1>11. ASSUME boot = 0 PROVE Usage(a) <= DueTokens(a)
  <2> DEFINE f == [e \in K |-> e.id]
  <2>1. f \in [K -> D]
    BY <1>2, <1>11
  <2>2. \A e \in K : e.ts = ledger[e.id].at
    <3>1. \A e \in K : e.ts \in Int /\ ledger[e.id].at \in Int
      BY <1>1, <1>3, DebitFields DEF Genuine
    <3> QED
      BY <1>3, <1>11, <3>1 DEF Genuine
  <2>3. ASSUME NEW d \in K, NEW e \in K, d.id = e.id PROVE d = e
    BY <1>3, <2>2, <2>3
  <2>4. /\ \A d, e \in K : f[d] = f[e] => d = e
        /\ \A e \in K : Cost(K)[e] = Tokens[f[e]]
    BY <1>7, <2>3
  <2> HIDE DEF f
  <2>5. Total(Cost(K), K) <= Total(Tokens, D)
    BY <1>4, <1>5, <1>6, <2>1, <2>4, TotalAtMost
  <2> QED
    BY <1>8, <2>5
<1> QED
  BY <1>9, <1>10, <1>11

(* A request that check_budget lets through fits into the budget with all  *)
(* debits that are due, for any number of agents, debits and amounts; and  *)
(* until the host is rebooted every request that fits is let through.      *)
THEOREM ChecksAreTruthful == Spec => []BudgetIsTruthful
<1>1. Spec => []AccountingInv
  BY AccountingInvInit, AccountingInvStep, PTL DEF Spec
<1>2. AccountingInv => BudgetIsTruthful
  <2> SUFFICES ASSUME AccountingInv, mode = "up", NEW a \in Agents, NEW n \in Amounts
               PROVE  LET fits == DueTokens(a) + n <= Budget
                      IN  /\ HasBudget(a, n) => fits
                          /\ boot = 0 /\ fits => HasBudget(a, n)
    BY DEF BudgetIsTruthful, DueTokens
  <2>1. n \in Nat /\ Budget \in Nat
    OBVIOUS
  <2> QED
    BY <2>1, UsageMatches DEF HasBudget
<1> QED
  BY <1>1, <1>2, PTL
=============================================================================
