CONSTANTS
    RotationSize = 2
    Retention = 1
    SameSecond = FALSE
    MaxRecords = 6
    Horizon = 4
    MaxFaults = 2
SPECIFICATION Spec
INVARIANTS
    ChronologicalFiles
    OrphansNeedFaults
PROPERTIES
    NothingLost
CHECK_DEADLOCK FALSE
