SPECIFICATION Spec
CONSTANTS
    Names = {c, d}
    None = none
    MaxChanges = 1
    MaxCopies = 2
    MaxOther = 1
CONSTRAINT Apart
INVARIANTS CopiesOnlyAdd
PROPERTIES OnlyWhatIsAsked
CHECK_DEADLOCK FALSE
