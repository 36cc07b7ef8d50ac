SPECIFICATION Spec
CONSTANTS
    Call = {c1, c2}
    None = None
    InitialRows <- Rows
    MaxTokens = 3
    MaxEvents = 1
SYMMETRY Symmetry
INVARIANTS
    TypeOK
    MutexGuardsTokens
    RefusedTokenNotReused
    LoneClientStored
CHECK_DEADLOCK FALSE
