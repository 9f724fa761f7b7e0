SPECIFICATION FairSpec
CONSTANTS
    Pods = {p1, p2}
    Data = {d1, d2}
    Links = {}
    NoData = NoData
    NoLink = NoLink
    Reporters = {r1}
    MaxChanges = 3
    MaxFailures = 1
    MaxCrashes = 1
CHECK_DEADLOCK FALSE
INVARIANTS
    KeyOnlyIsCurrent
    LiveIsNotReportedGone
PROPERTIES
    
    LiveConverges
    GoneConverges
