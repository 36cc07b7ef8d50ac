SPECIFICATION FairSpec
CONSTANTS
    Call = {c1, c2}
    None = None
    InitialRows <- Rows
    MaxTokens = 3
    MaxEvents = 0
PROPERTIES
    CallReturns
CHECK_DEADLOCK FALSE
