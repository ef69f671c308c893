CONSTANTS
    n1 = n1
    n2 = n2
    n3 = n3
    x = x
    Pc = Pc
    Mark = Mark
    Notes <- MCWritable
    Writable <- MCWritable
    Ids <- MCIds
    MaxCalls = 2
    MaxEdits = 1
    MaxFaults = 1
SPECIFICATION Spec
PROPERTY NeverWriteOnConflictedTree
CHECK_DEADLOCK FALSE
