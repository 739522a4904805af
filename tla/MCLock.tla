------------------------------- MODULE MCLock -------------------------------
EXTENDS Lock

CONSTANTS k, c1, c2, t1, t2, t3

MCKey == {k}
MCTwo == {c1, c2}
MCValue3 == {"", t1, t2, t3}
=============================================================================
