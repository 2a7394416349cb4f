--------------------------- MODULE MCOpenIdLogin ---------------------------
EXTENDS OpenIdLogin, TLC

CONSTANTS x1, x2, p1, p2, c1, c2, s1, s2

Symmetry == Permutations(People) \cup Permutations(Providers) \cup Permutations(Clients)
                \cup Permutations(Slots)
============================================================================
