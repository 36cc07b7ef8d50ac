SPECIFICATION FairSpec
CONSTANTS
    Account = {1, 2}
    Prio = {1}
    Space <- AnySpace
    MinFree = 2
    NearFree = 2
    MaxDay = 1
    Submission = {s1, s2}
    Nobody = Nobody
    Need <- OneNeed
    Answers = {"ok", "quota", "proxy", "network", "other"}
    InitialRows <- TightTables
    CursorMod = 2
    Attempts = 3
    MaxEvents = 0
INVARIANTS
    TypeOK
    CountOfTheDay
PROPERTIES
    OneVisitPerAccount
    SubmissionReturns
    ExhaustedAccountRecovers
CHECK_DEADLOCK FALSE
