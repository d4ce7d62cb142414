SPECIFICATION Spec
CONSTANTS
    Err = Err
    Unasked = Unasked
    NoFile = NoFile
    Vts <- MCVts
    CheckOpts <- MCCheckOpts
    Sessions <- MCSessions
    EntryFiles <- MCFiles
    OnPath = {"wm"}
    OddNames = {"o d d"}
    Altered <- MCAltered
    AlteredNames <- MCAlteredNames
    Parts <- MCParts
    NotRead = NotRead
    Starts <- MCStarts
    StartModes <- MCModes
    ManagerXcds <- MCXcds
    Logins <- MCLogins
INVARIANTS
    StartTypeOK
    VerdictJustified
    ProbesConnected
    RefusalTouchesNothing
    AnchorReady
    LoginPairConsistent
    UnitsRoundTrip
CHECK_DEADLOCK FALSE
