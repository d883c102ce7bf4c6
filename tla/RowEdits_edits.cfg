SPECIFICATION Spec
CONSTANTS
    k1 = k1
    k2 = k2
    k3 = k3
    r1 = r1
    r2 = r2
    r3 = r3
    r4 = r4
    Keys = {k1, k2, k3}
    Rows = {r1, r2, r3, r4}
    KeyOf <- TwinKeys
    Batch = 2
    MaxItems = 3
    MaxOther = 2
INVARIANTS AllOrNothing AnswerIsTrue
CHECK_DEADLOCK FALSE
