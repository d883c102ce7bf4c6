SPECIFICATION FairSpec
CONSTANTS
    Reads = {r1, r2}
    Users = {u1}
    None = none
    PoolMax = 2
    MaxConns = 5
PROPERTIES SessionWorks
CHECK_DEADLOCK FALSE
