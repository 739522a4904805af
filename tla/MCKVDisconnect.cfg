SPECIFICATION FairSpec
CONSTANTS
    k = k
    c1 = c1
    c2 = c2
    v = v
    s1 = s1
    s2 = s2
    Key <- MCKey
    NoValue = ""
    Client <- MCTwo
    Value <- MCOneValue
    Unreliable = TRUE
    Disconnectable <- MCOne
    Slot <- MCTwoSlots
    MaxOps = 1
    PutVersions <- MCVersions
INVARIANTS IndInv AtMostOnce VerdictHolds
CHECK_DEADLOCK FALSE
PROPERTY OpReturns
