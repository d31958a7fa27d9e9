SPECIFICATION Spec
CONSTANTS
    Keys = {k1, k2}
    Inputs <- AllInputs
    Absent = Absent
CHECK_DEADLOCK FALSE
INVARIANTS
    TypeOK
    SelectionSent
    NullsAsAsked
    PathsAgree
    FailsIfContradictory
