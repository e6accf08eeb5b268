----------------------------- MODULE Rendezvous -----------------------------
(***************************************************************************)
(* Rendezvous hashing (affinity/scheduler.py): every (session, backend)    *)
(* pair has a score, and a session goes to the candidate that scores       *)
(* highest for it.                                                         *)
(***************************************************************************)
EXTENDS Integers

CONSTANTS
  Sessions,   \* session ids
  Backends,   \* backend ids
  MaxScore,   \* the largest score, 2^256 - 1 for SHA-256
  Score       \* Score[s][b]: _hrw_score of session s and backend b

(* The hash of a session never gives two backends the same score. *)
ASSUME ScoreAssumption ==
  /\ MaxScore \in Nat
  /\ Score \in [Sessions -> [Backends -> 0..MaxScore]]
  /\ \A s \in Sessions : \A a, b \in Backends : Score[s][a] = Score[s][b] => a = b

(* b is the candidate max() returns: none of the others scores higher. *)
Wins(s, b, candidates) ==
  b \in candidates /\ \A c \in candidates : Score[s][c] <= Score[s][b]

(* _select_by_hrw *)
Winner(s, candidates) == CHOOSE b \in candidates : Wins(s, b, candidates)
=============================================================================
