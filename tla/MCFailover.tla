----------------------------- MODULE MCFailover -----------------------------
EXTENDS Failover, TLC

CONSTANTS small0, small1, s1

(* The session prefers small0. *)
MCScore == s1 :> ((small0 :> 2) @@ (small1 :> 1))

MCMaxOverlap == (small0 :> 1) @@ (small1 :> 2)
=============================================================================
