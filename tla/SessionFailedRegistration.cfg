SPECIFICATION SessionFairSpec
CONSTANTS
    Senders = {Heartbeat}
    MaxRestarts = 0
    MaxSignals = 0
CHECK_DEADLOCK FALSE
PROPERTIES
    FailedRegistrationExits
