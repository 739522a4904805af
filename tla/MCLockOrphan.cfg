SPECIFICATION FairSpec
CONSTANTS
    k = k
    c1 = c1
    c2 = c2
    t1 = t1
    t2 = t2
    t3 = t3
    Key <- MCKey
    NoValue = ""
    LockKey = k
    Client <- MCTwo
    Value <- MCValue3
    Unreliable = TRUE
    MaxAcquires = 2

PROPERTY SomebodyAcquires
CHECK_DEADLOCK FALSE
