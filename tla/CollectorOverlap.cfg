SPECIFICATION Spec
CONSTANTS
    Pods = {p1}
    Data = {d1, d2}
    Links = {s1}
    NoData = NoData
    NoLink = NoLink
    Reporters = {r1, r2}
    MaxChanges = 2
    MaxFailures = 1
    MaxCrashes = 1
CHECK_DEADLOCK FALSE
SYMMETRY OverlapSymmetry
INVARIANTS
    CacheMatchesServer
