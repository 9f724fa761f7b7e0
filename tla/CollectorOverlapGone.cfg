SPECIFICATION Spec
CONSTANTS
    Pods = {p1}
    Data = {d1}
    Links = {s1}
    NoData = NoData
    NoLink = NoLink
    Reporters = {r1, r2}
    MaxChanges = 1
    MaxFailures = 0
    MaxCrashes = 0
CHECK_DEADLOCK FALSE
INVARIANTS
    LiveIsNotReportedGone
