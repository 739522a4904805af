SPECIFICATION Spec
CONSTANTS
    c1 = c1
    s1 = s1
    s2 = s2
    r1 = r1
    x = x
    Clnt <- MCClnt
    End <- MCEnd
    Server <- MCServer
    Req <- MCReq
    Args <- MCArgs
    Reply <- MCArgs
    NoEnd = NoEnd
    NoServer = NoServer
    NoArgs = NoArgs
    NoReplyMsg = NoReplyMsg
    MaxServers = 3
CHECK_DEADLOCK FALSE
INVARIANTS IndInv OkMeansExecuted NeverDeletedTwice
PROPERTIES ReachesOnlyAllowed DeletedEndsAreDead CallReturns
