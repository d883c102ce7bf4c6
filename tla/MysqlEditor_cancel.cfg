SPECIFICATION FairSpec
CONSTANTS
    Commands = {p1, p2}
    Cancels = {x1}
    NoCommand = none
    MaxConns = 2
    MaxRuns = 2
    MaxFaults = 1
    Jobs <- CancelJobs
INVARIANTS NothingRunsAfterClose
PROPERTIES CancelIsReported CloseEndsCommands
CHECK_DEADLOCK FALSE
