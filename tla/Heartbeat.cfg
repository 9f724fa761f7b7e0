SPECIFICATION MonitorFairSpec
CONSTANTS
    Cap = 6
    StopThreshold = 3
    StartThreshold = 2
    MaxBeats = 4
INVARIANT
    MonitorTypeOK
PROPERTY
    ImplementsVerdict
    
    RecoveryIsNoticed
