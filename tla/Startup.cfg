SPECIFICATION FairSpec
CONSTANTS
    a1 = a1
    a2 = a2
    a3 = a3
    Scripts = {s1, s2}
    Agents = {a1, a2, a3}
    Actions <- Commands
    Pid <- Pids
    Overlaps <- UninstallOverlap
    Ports <- AnyPort
    NoAgent = NoAgent
    Foreign = Foreign
    Tries = 2
    MaxCrashes = 1
CHECK_DEADLOCK FALSE
INVARIANTS
    TypeOK
    
    StopLeavesNothing
    TimeoutLeavesNothing
    RestartFailureIsTrue
    UninstallIsFinal
PROPERTIES
    ScriptsEnd
