SPECIFICATION FairSpec
CONSTANTS
    c1 = c1
    c2 = c2
    Conns       = {c1, c2}
    Workers     = {w1, w2}
    FDs         = {f1}
    Listen      = Listen
    NoConn      = NoConn
    NoFd        = NoFd
    BUFFER_SIZE = 3
    MAX_EVENTS  = 1
    HeaderEnd   <- MCHeaderEnd
    ClientBytes <- MCFewBytes
    Throwing    = {}
    AddMayFail  = FALSE
PROPERTIES RequestAnswered GoneClientClosed EventuallyAccepted
