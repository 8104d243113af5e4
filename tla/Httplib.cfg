SPECIFICATION FairSpec
CONSTANTS
    c1 = c1
    c2 = c2
    Conns          = {c1, c2}
    NoConn         = NoConn
    Base           = {b1}
    Dynamic        = {d1}
    Pieces         <- Requests
    KEEP_ALIVE_MAX = 2
    AcceptMayFail  = TRUE
    MayStop        = TRUE
INVARIANTS TypeOK ThreadsAccounted NoJobAsleep RepliesInStep
PROPERTIES ToldBeforeClosed ImplementsTaskQueue EveryoneLetGo ListenReturns
