SPECIFICATION Spec
CONSTANTS
    s1 = s1
    s2 = s2
    x = x
    r1 = r1
    Srv <- MCSrv
    Item <- MCItem
    Req <- MCReq
    MaxServers = 3
INVARIANTS IndInv AckedIsDurable
PROPERTY PartitionSplits
SYMMETRY MCSymmetry
