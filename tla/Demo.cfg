SPECIFICATION FairSpec
CONSTANTS
    c1 = c1
    c2 = c2
    Conns       = {c1, c2}
    Workers     = {w1, w2}
    FDs         = {f1, f2}
    Listen      = Listen
    Garbage     = Garbage
    NoConn      = NoConn
    NoTask      = NoTask
    BUFFER_SIZE = 3
    MAX_EVENTS  = 1
    HeaderEnd   <- MCHeaderEnd
    ClientBytes <- MCClientBytes
    AddMayFail  = TRUE
INVARIANTS TypeOK OwnDescriptor ContextsAccounted
PROPERTY WholeRequestAnswered
