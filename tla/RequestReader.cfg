SPECIFICATION Spec
CONSTANTS
    CR = CR
    LF = LF
    SP = SP
    NUL = NUL
    p = p
    Letters     = {p}
    LineLength  = 6
    TailLength  = 1
    BUFFER_SIZE = 10
    Streams     <- MCStreams
    IndexPaths  <- MCIndexPaths
    DataPaths   <- MCDataPaths
INVARIANTS TypeOK AnsweredForItsRequest DecidedAtHeaderEnd
