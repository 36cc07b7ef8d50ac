SPECIFICATION Spec
CONSTANTS
    Request = {r1, r2}
    Key = {k1}
    NoKey = NoKey
    Account = {a1}
    Cleaner = {c1}
    Nothing = Nothing
    MaxEvents = 1
SYMMETRY Symmetry
INVARIANTS
    AnsweredTaskRecorded
    NoLostWake
    StatusMatchesOutcome
PROPERTIES
    AnsweredKeyCreatesNothing
    FinishedNotReopened
CHECK_DEADLOCK FALSE
