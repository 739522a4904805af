--------------------------- MODULE MCRaftHarness ---------------------------
EXTENDS RaftHarness

MCCommitted == [n \in Index |-> IF n = 1 THEN "x" ELSE "y"]
MCCleaner == (Srv \X (1..MaxInst)) \cup {Tester, Signal}
=============================================================================
