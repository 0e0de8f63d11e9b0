SPECIFICATION FairSpec
CONSTANTS
    j1 = j1
    j2 = j2
    j3 = j3
    terminate = terminate
    Jobs <- ThreeJobs
    Terminate <- terminate
    MaxThreads = 3
INVARIANTS
    WorkConserving
    FreedIsUnused
    JoinDrains
PROPERTIES
    ImplementsJobService
    JoinReturns
    EveryJobIsHandled
CHECK_DEADLOCK FALSE
