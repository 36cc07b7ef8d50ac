SPECIFICATION FairSpec
CONSTANTS
    Request = {r1, r2}
    Key = {}
    NoKey = NoKey
    Account = {a1, a2}
    Cleaner = {c1}
    Nothing = Nothing
    MaxEvents = 0
INVARIANTS
    TypeOK
PROPERTIES
    EndNoticed
    ExpiredTaskCleaned
CHECK_DEADLOCK FALSE
