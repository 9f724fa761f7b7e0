SPECIFICATION SessionFairSpec
CONSTANTS
    Senders = {Heartbeat}
    MaxRestarts = 1
    MaxSignals = 2
CHECK_DEADLOCK FALSE
INVARIANTS
    SignedWithOneRegistration
    CidIsMissedOnce
PROPERTIES
    RegisteredIsHeard
    TerminationEnds
