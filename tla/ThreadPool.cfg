SPECIFICATION FairSpec
CONSTANTS
    NumWorkers = 2
    Submitters = {s1, s2}
    Detached   = {}
    Jobs       = {j1, j2, j3, j4}
    NoJob      = NoJob
INVARIANTS TypeOK ExactlyOnce WorkConserving StopReachesWorkers DrainedAtExit
PROPERTIES DestructorReturns ImplementsTaskQueue
