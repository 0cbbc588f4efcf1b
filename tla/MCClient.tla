------------------------------ MODULE MCClient ------------------------------
EXTENDS Client, TLC

CONSTANTS s1, s2, k1, k2, k3

One == {s1}
Both == {s1, s2}
Two == {k1, k2}
Three == {k1, k2, k3}

ConnSymmetry == Permutations(Conns)
=============================================================================
