---------------------------- MODULE MCNccSession ----------------------------
EXTENDS NccSession, TLC

Symmetry ==
  Permutations(Pairs) \cup Permutations(Requests) \cup Permutations(Roles)
    \cup Permutations(Branches)
=============================================================================
