--------------------------- MODULE MCRaftElection ---------------------------
EXTENDS RaftElection, TLC

CONSTANTS p1, p2, p3

MCPeer == {p1, p2, p3}
MCSymmetry == Permutations(MCPeer)
=============================================================================
