------------------------- MODULE MCRefreshSessions -------------------------
EXTENDS RefreshSessions, TLC

CONSTANTS u1, u2, v1, v2, i1, i2, i3, i4, s1, s2

Symmetry == Permutations(Users) \cup Permutations(Ids) \cup Permutations(Slots) \cup Permutations(Visitors)
============================================================================
