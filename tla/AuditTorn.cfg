CONSTANTS
    RotationSize = 2
    Retention = 1
    SameSecond = FALSE
    MaxRecords = 3
    Horizon = 2
    MaxFaults = 1
SPECIFICATION Spec
PROPERTY WritesAreNeverLost
CHECK_DEADLOCK FALSE
