---------------------------- MODULE MCServerGrp ----------------------------
EXTENDS ServerGrp

CONSTANTS s1, s2, x, r1

MCSrv == {s1, s2}
MCItem == {x}
MCReq == {r1}
MCSymmetry == Permutations(MCSrv)
=============================================================================
