---------------------------- MODULE MCAccounting ----------------------------
EXTENDS Accounting, TLC

Symmetry == Permutations(Agents)
=============================================================================
