---------------------------- MODULE MCAdmission ----------------------------
EXTENDS Admission, TLC

CONSTANTS big, small

MCTiers == {big, small}
MCCapacity == (big :> 1) @@ (small :> 2)
=============================================================================
