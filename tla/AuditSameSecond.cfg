CONSTANTS
    RotationSize = 2
    Retention = 2
    SameSecond = TRUE
    MaxRecords = 6
    Horizon = 2
    MaxFaults = 0
SPECIFICATION Spec
PROPERTY NothingLost
CHECK_DEADLOCK FALSE
