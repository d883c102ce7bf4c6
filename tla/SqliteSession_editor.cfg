SPECIFICATION FairSpec
CONSTANTS
    Tasks = {p1, p2}
    Saves = {q1}
    Cancels = {x1}
    Nobody = nobody
    MaxRuns = 3
    MaxOthers = 1
    Jobs <- EditorJobs
INVARIANTS NobodyKeepsTheFile
PROPERTIES SavesLeaveTransaction BusySaveNamesEditor CancelStopsScript CancelEndsScript
CHECK_DEADLOCK FALSE
