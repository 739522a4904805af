SPECIFICATION ElectionSpec
CONSTANTS
    p1 = p1
    p2 = p2
    p3 = p3
    Peer <- MCPeer
    NoPeer = NoPeer
    MaxTerm = 2
    MaxElections = 2
INVARIANT OneLeaderPerTerm
CHECK_DEADLOCK FALSE
