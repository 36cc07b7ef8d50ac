SPECIFICATION Spec
CONSTANTS
    Account = {1, 2}
    Prio = {1}
    Space <- FullOrRoomy
    MinFree = 2
    NearFree = 2
    MaxDay = 0
    Submission = {s1, s2}
    Nobody = Nobody
    Need <- NoNeed
    Answers = {"ok", "quota", "rate", "proxy"}
    InitialRows <- OperatorTables
    CursorMod = 2
    Attempts = 3
    MaxEvents = 1
SYMMETRY Symmetry
INVARIANTS
    LockGuardsAccount
    SteadyAccountsCalled
    AcknowledgedTaskReturned
    StatusHasCause
CHECK_DEADLOCK FALSE
