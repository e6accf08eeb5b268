----------------------------- MODULE MCGateway -----------------------------
EXTENDS Gateway, TLC

CONSTANTS big0, small0, small1

MCTiers == {Big, Small}

(* One backend with one slot per tier: three requests are more than both   *)
(* take.                                                                   *)
MCPairTierOf      == (big0 :> Big) @@ (small0 :> Small)
MCPairMaxInflight == (big0 :> 1) @@ (small0 :> 1)
MCPairCapacity    == (Big :> 1) @@ (Small :> 1)

(* A small tier of two backends, as in configs/gateway.yaml. *)
MCTrioTierOf      == (big0 :> Big) @@ (small0 :> Small) @@ (small1 :> Small)
MCTrioMaxInflight == (big0 :> 1) @@ (small0 :> 1) @@ (small1 :> 1)

MCCapacity == (Big :> 1) @@ (Small :> 2)
=============================================================================
