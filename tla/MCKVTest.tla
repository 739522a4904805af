------------------------------ MODULE MCKVTest ------------------------------
EXTENDS KVTest

CONSTANTS k0, k1

MCKey == {k0, k1}
MCClient == 0..NClnt
MCKeyOf == [c \in Clnt |-> IF c = 0 THEN k0 ELSE k1]

\* JSON of at most one entry per round of each client.
MCEntry == Clnt \X (0 .. NClnt * MaxIter)
MCValue == {NoValue} \cup UNION {[1..n -> MCEntry] : n \in 0 .. NClnt * MaxIter}
=============================================================================
