---------------------------- MODULE MCMeCache ----------------------------
EXTENDS MeCache, TLC

CONSTANTS u1, u2, s1, s2

Symmetry == Permutations(Users) \cup Permutations(Slots)
============================================================================
