SPECIFICATION Spec
CONSTANTS
    a1 = a1
    a2 = a2
    a3 = a3
    Scripts = {s1, s2}
    Agents = {a1, a2}
    Actions <- OnlyStart
    Pid <- Pids
    Overlaps <- NoOverlap
    Ports <- AnyPort
    NoAgent = NoAgent
    Foreign = Foreign
    Tries = 1
    MaxCrashes = 0
CHECK_DEADLOCK FALSE
PROPERTIES
    SuccessIsTrue
