SPECIFICATION MCSpec
CONSTANTS
    v1 = v1
    v2 = v2
    v3 = v3
    a0 = a0
    a1 = a1
    a2 = a2
    Requests = {r1, r2}
    Workloads <- HandlerWorkloads
    MaxRequests = 3
    Versions = {v1, v2, v3}
    Kind <- ChartKinds
    Truncated = Truncated
    Experiments = {"x1", "x2"}
    Rbac <- RbacParts
    NoVersion = NoVersion
    Builds <- BuildKinds
    Attempts = 2
    Flags <- DefaultApp
    Default <- DefaultApp
    None = None
    Main = Main
    MaxCrashes = 1
CHECK_DEADLOCK FALSE
INVARIANTS
    TypeOK
    IndexIsBacked
    
    
    EngineHasRights
    FileIsOneRecord
PROPERTIES
    EngineIsReported
