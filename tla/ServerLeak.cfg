SPECIFICATION Spec
CONSTANTS
    c1 = c1
    c2 = c2
    Conns       = {c1}
    Workers     = {w1, w2}
    FDs         = {f1}
    Listen      = Listen
    NoConn      = NoConn
    NoFd        = NoFd
    BUFFER_SIZE = 4
    MAX_EVENTS  = 1
    HeaderEnd   <- MCHeaderEnd
    ClientBytes <- MCClientBytes
    Throwing    = {}
    AddMayFail  = FALSE
INVARIANT ReclaimedWhenClosed
