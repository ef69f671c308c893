CONSTANTS
    Broad <- MCBroad
    System <- MCSystem
    Devices <- MCDevices
    OfSystem <- MCOfSystem
    BigR <- MCBigR
    SmallR <- MCSmallR
    Commands <- MCCommands
    Whitelists <- MCWhitelists
    Notes <- MCNotes
    Hits <- MCHits
    Reports <- MCReports
    Bare <- MCBare
    Heads <- MCHeads
    Units <- MCUnits
    UnitList <- MCUnitList
    Most = 2
    MaxChanges = 1
SPECIFICATION Spec
INVARIANTS
    DeniedStaysDenied
    StatusIsTrue
    NothingHidden
CHECK_DEADLOCK FALSE
