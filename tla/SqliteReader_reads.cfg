SPECIFICATION SqliteFairSpec
CONSTANTS
    Readers = {r1, r2, r3}
    Nobody = nobody
    MaxOpens = 2
INVARIANTS ClosedReaderAnswersNothing
PROPERTY ReadersEnd
CHECK_DEADLOCK FALSE
