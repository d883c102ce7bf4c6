SPECIFICATION FairSpec
CONSTANTS
    Reads = {r1, r2}
    Users = {u1, u2}
    None = none
    PoolMax = 3
    MaxConns = 6
PROPERTIES KillsOwnStatement ReadsEnd
CHECK_DEADLOCK FALSE
