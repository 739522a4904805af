SPECIFICATION Spec
CONSTANTS
    k = k
    c1 = c1
    c2 = c2
    v = v
    s1 = s1
    s2 = s2
    Key <- MCKey
    NoValue = ""
    Client <- MCTwo
    Value <- MCValue
    Unreliable = TRUE
    Disconnectable <- MCNone
    Slot <- MCOneSlot
    MaxOps = 2
    PutVersions <- MCVersions
INVARIANT NoKeyHolds
PROPERTY Linearizable
CHECK_DEADLOCK FALSE
