SPECIFICATION FairSpec
CONSTANTS
    Programs     = {"web", "demo"}
    NumWorkers   = 2
    Conns        = {c1, c2, c3}
    NoConn       = NoConn
    Derived      = TRUE
    Throwing     = {c3}
    SetUpMayFail = TRUE
    PollMayFail  = TRUE
INVARIANTS TypeOK WorkersOutlived EarlyTasksEnd
PROPERTY QuitEnds
