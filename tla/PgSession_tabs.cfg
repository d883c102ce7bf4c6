SPECIFICATION FairSpec
CONSTANTS
    Tasks = {t1, t2}
    Nobody = nobody
    MaxConns = 4
    MaxRuns = 3
    MaxFaults = 1
    Jobs <- TabJobs
INVARIANTS RunsStayInTransaction ExplainLeavesNothing
PROPERTIES NoTransactionIsReplaced LossIsToldFirst CommitIsTrue ExplainKeepsWork CloseEndsConnections
CHECK_DEADLOCK FALSE
