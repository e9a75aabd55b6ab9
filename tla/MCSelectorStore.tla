---------------------------- MODULE MCSelectorStore ----------------------------
EXTENDS SelectorStore, TLC

Symmetry ==
  Permutations(Threads) \cup Permutations(Places) \cup
  Permutations(Groups) \cup Permutations(Rules)
=============================================================================
