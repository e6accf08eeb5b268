------------------------------ MODULE MCHealth ------------------------------
EXTENDS Health, TLC

CONSTANTS quick, slow

MCBackends == {quick, slow}

(* The probes of quick end within the interval; those of slow may not. *)
MCMaxOverlap == (quick :> 1) @@ (slow :> 3)
=============================================================================
