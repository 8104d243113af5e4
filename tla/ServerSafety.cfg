SPECIFICATION Spec
CONSTANTS
    c1 = c1
    c2 = c2
    Conns       = {c1, c2}
    Workers     = {w1, w2}
    FDs         = {f1, f2}
    Listen      = Listen
    NoConn      = NoConn
    NoFd        = NoFd
    BUFFER_SIZE = 4
    MAX_EVENTS  = 2
    HeaderEnd   <- MCHeaderEnd
    ClientBytes <- MCClientBytes
    Throwing    = {c1}
    AddMayFail  = TRUE
SYMMETRY Symmetry
INVARIANTS TypeOK HandledOnce NeverForgotten OwnDescriptor RefBalance NoDangling NothingLost
PROPERTY ImplementsConnectionLife
