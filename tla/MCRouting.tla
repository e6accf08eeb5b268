----------------------------- MODULE MCRouting -----------------------------
EXTENDS Routing, TLC

Symmetry == Permutations(Callers) \cup Permutations(Keys)
=============================================================================
