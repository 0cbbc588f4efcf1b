------------------------------ MODULE MCServer ------------------------------
EXTENDS Server, TLC

CONSTANTS k1, k2, i1, i2, a, none, noHost, noAuth, noUser, p

Two == {k1, k2}
OneId == {i1}
TwoIds == {i1, i2}

Host == HTTPTunnel([Host |-> [host |-> a, port |-> none], Auth |-> noAuth])

\* A client asks for a host, for a listener, or for both.
Both == {{Host, ListenTunnel(p)}}
AnyBatch == Both \cup {{Host}, {ListenTunnel(p)}}

ConnSymmetry == Permutations(Conns)
=============================================================================
