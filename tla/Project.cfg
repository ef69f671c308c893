CONSTANTS
    f1 = f1
    f2 = f2
    main = main
    topic = topic
    Files <- MCFiles
    Tracked <- MCTracked
    Branches <- MCBranches
    Main = main
    Detached = Detached
    MaxCalls = 2
    MaxOthers = 2
    MaxFaults = 1
SPECIFICATION FairSpec
INVARIANTS
    TypeOK
    CommitsOnlyItsPaths
    PolicyKept
    AnswersAreTrue
PROPERTIES
    StagingKept
    EditsSurvive
    HistoryOnlyGrows
    ToolsReturn
CHECK_DEADLOCK FALSE
