SPECIFICATION Spec
CONSTANTS
    Programs <- MCPrograms
    Messages <- MCMessages
    K <- MCK
    UserFns <- MCUserFns
    StackBuf = 1
    StackStep = 2
    Behind <- MCBehind
    MaxRuns = 2
INVARIANTS
    RunsThePlainProgram
    AccessIsCoherent
    ResultIsMeaning
    StackFits
CHECK_DEADLOCK FALSE
