CONSTANTS
    Names <- MCNames
    Places <- MCPlaces
    Texts <- MCTexts
    Requests <- MCRequests
    Root <- MCRoot
    LogRoots <- MCLogRoots
    WriteDirs <- MCWriteDirs
    Trees <- MCTrees
    MaxHops = 4
    MaxCalls = 1
    MaxChanges = 1
SPECIFICATION FairSpec
INVARIANTS
    TypeOK
    StaysInside
    VerdictsAreRight
    ListingAgreesWithGuard
PROPERTIES
    MadeInside
    CallsEnd
CHECK_DEADLOCK FALSE
