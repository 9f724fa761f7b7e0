SPECIFICATION FairSpec
CONSTANTS
    u1 = u1
    Requests = {r1, r2}
    Uids = {u1}
    NoRequest = NoRequest
    NoUid = NoUid
    Commands <- MixedCommands
    MaxCrashes = 1
INVARIANTS
    MutexDiscipline
    
    NoResurrection
    FailedInstallIsForgotten
    ReportIsTruthful
PROPERTIES
    ImplementsRegister
    EveryRequestEnds
    EveryCheckerEnds
CHECK_DEADLOCK FALSE
