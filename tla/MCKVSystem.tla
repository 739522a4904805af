----------------------------- MODULE MCKVSystem -----------------------------
EXTENDS KVSystem, TLC

CONSTANTS k, c1, c2, v, s1, s2

MCKey == {k}
MCTwo == {c1, c2}
MCValue == {"", v}
MCVersions == {0, 1}
MCOneValue == {""}
MCOne == {c1}
MCNone == {}
MCOneSlot == [c \in MCTwo |-> {s1}]
MCTwoSlots == [c \in MCTwo |-> IF c = c1 THEN {s1, s2} ELSE {s1}]
=============================================================================
