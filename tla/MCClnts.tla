------------------------------ MODULE MCClnts ------------------------------
EXTENDS Clnts

CONSTANTS c1, s1, s2, r1, x

MCClnt == {c1}
MCServer == {s1, s2}
MCEnd == MCClnt \X MCServer
MCReq == {r1}
MCArgs == {x}
=============================================================================
