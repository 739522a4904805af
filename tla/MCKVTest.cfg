SPECIFICATION Spec
CONSTANTS
    k0 = k0
    k1 = k1
    NClnt = 2
    MaxIter = 2
    MaxMaybe = 2
    Key <- MCKey
    Value <- MCValue
    NoValue = NoValue
    Client <- MCClient
    SharedKey = k0
    KeyOf <- MCKeyOf
    Unreliable = TRUE
INVARIANTS ChecksPass HistoryAccepted OkPutIsRead
PROPERTY TestEnds
CHECK_DEADLOCK FALSE
