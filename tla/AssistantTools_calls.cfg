SPECIFICATION ToolsSpec
CONSTANTS
    Calls = {k1, k2}
    Chats = {c1, c2}
    Sessions = {s1, s2}
    None = none
    MaxEndings = 2
INVARIANTS NoQueryUnasked TurnedDownStaysDown LeftHasDecliner CallsEndBeforeSession
SYMMETRY ToolSymmetry
CHECK_DEADLOCK FALSE
