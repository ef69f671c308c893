CONSTANTS
    f1 = f1
    f2 = f2
    main = main
    topic = topic
    Files <- MCFiles
    Tracked <- MCTracked
    Branches <- MCBranches
    Main = main
    Detached = Detached
    MaxCalls = 1
    MaxOthers = 4
    MaxFaults = 0
SPECIFICATION Spec
PROPERTY PushesCurrentBranch
CHECK_DEADLOCK FALSE
