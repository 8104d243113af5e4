SPECIFICATION Spec
CONSTANTS
    Programs     = {"web"}
    NumWorkers   = 2
    Conns        = {c1, c2}
    NoConn       = NoConn
    Derived      = FALSE
    Throwing     = {}
    SetUpMayFail = FALSE
    PollMayFail  = FALSE
INVARIANT TasksKeepCallbacks
