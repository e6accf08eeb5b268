----------------------------- MODULE MCAffinity -----------------------------
EXTENDS Affinity, TLC

CONSTANTS s1, s2, big0, small0, small1, big, small

MCTierOf == (big0 :> big) @@ (small0 :> small) @@ (small1 :> small)

(* The two sessions prefer different backends of the small tier. *)
MCScore == (s1 :> ((big0 :> 1) @@ (small0 :> 3) @@ (small1 :> 2)))
             @@ (s2 :> ((big0 :> 1) @@ (small0 :> 2) @@ (small1 :> 3)))

Symmetry == Permutations(Callers)
=============================================================================
