CONSTANTS
    r1 = r1
    r2 = r2
    r3 = r3
    None = None
    Requests <- MCRequests
    AuditReads = FALSE
    MaxPerMinute = 2
    Window = 1
    Horizon = 2
    MaxFaults = 1
SPECIFICATION FairSpec
INVARIANTS
    TypeOK
    WindowBound
    AnswersAreAudited
    ChangesAreAudited
PROPERTIES
    RefusedOnlyWhenFull
    RequestsAnswered
CHECK_DEADLOCK FALSE
