SPECIFICATION Spec
CONSTANTS
    Commands = {p1}
    Cancels = {}
    NoCommand = none
    MaxConns = 3
    MaxRuns = 4
    MaxFaults = 2
    Jobs <- LongJobs
INVARIANT MarkFollowsServer
PROPERTIES LossIsToldFirst BodiesStartInPickedDatabase
CHECK_DEADLOCK FALSE
