SPECIFICATION ElectionSpec
CONSTANTS
    p1 = p1
    p2 = p2
    p3 = p3
    Peer <- MCPeer
    NoPeer = NoPeer
    MaxTerm = 2
    MaxElections = 2
SYMMETRY MCSymmetry
INVARIANTS ElectionInv OneWinnerPerTerm
PROPERTY TermsAndLeaders
CHECK_DEADLOCK FALSE
