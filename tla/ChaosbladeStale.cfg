SPECIFICATION Spec
CONSTANTS
    u1 = u1
    Requests = {r1, r2}
    Uids = {u1}
    NoRequest = NoRequest
    NoUid = NoUid
    Commands <- RunningCommands
    MaxCrashes = 0
INVARIANTS
    StoppedIsDeleted
CHECK_DEADLOCK FALSE
