SPECIFICATION FairSpec
CONSTANTS
    Request = {r1, r2}
    Key = {k1}
    NoKey = NoKey
    Account = {a1}
    Cleaner = {c1}
    Nothing = Nothing
    MaxEvents = 0
INVARIANTS
    OneTaskPerKey
CHECK_DEADLOCK FALSE
