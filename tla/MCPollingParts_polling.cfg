SPECIFICATION PollersSpec
CONSTANTS
    MaxCalls = 2
    MaxRows = 2
    StartRows <- SomeRows
    Filter = {"ALL", "RUNNING"}
    MaxOverviewActs = 2
    MaxChecks = 3
    MaxTasks = 2
    Limit = 2
    MaxWatchActs = 2
INVARIANTS
    OnePollingLoop
PROPERTIES
    UndisturbedEndNoticed
    OverviewCatchesUp
CHECK_DEADLOCK FALSE
