SPECIFICATION Spec
CONSTANTS
    Threads = {t1}
    CHUNK = 3
    MaxChunks = 2
    Null = Null
    Wild = Wild
    Leftover <- AsItComes
INVARIANT OnlyRequestedMemory
