SPECIFICATION Spec
CONSTANTS
    a = a
    b = b
    c = c
    d = d
    NShards = 7
    Gid = {1, 2, 3, 4}
    ServerList <- MCServerList
    MaxGroups = 2
    MaxNum = 3
INVARIANTS ChangedConfigIsGood ServersDisjoint
PROPERTY MovesAsFewAsPossible
CHECK_DEADLOCK FALSE
