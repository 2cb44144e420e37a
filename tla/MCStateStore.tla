---------------------------- MODULE MCStateStore ----------------------------
\* StateStore on small instances.
EXTENDS StateStore, TLC

Symmetry == Permutations(Instances) \cup Permutations(Keys)
=============================================================================
