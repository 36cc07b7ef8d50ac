SPECIFICATION Spec
CONSTANTS
    Account = {1, 2, 3}
    Prio = {1}
    Space <- FullOrRoomy
    MinFree = 2
    NearFree = 2
    MaxDay = 0
    Submission = {s1, s2, s3, s4}
    Nobody = Nobody
    Need <- NoNeed
    Answers = {"ok"}
    InitialRows <- EqualTables
    CursorMod = 6
    Attempts = 3
    MaxEvents = 0
SYMMETRY Symmetry
INVARIANT EvenRotation
CHECK_DEADLOCK FALSE
