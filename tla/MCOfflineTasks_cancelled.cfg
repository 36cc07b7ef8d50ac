SPECIFICATION FairSpec
CONSTANTS
    Request = {r1}
    Key = {k1}
    NoKey = NoKey
    Account = {a1}
    Cleaner = {c1}
    Nothing = Nothing
    MaxEvents = 1
PROPERTIES
    CancelledStays
CHECK_DEADLOCK FALSE
