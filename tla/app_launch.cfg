SPECIFICATION Spec
CONSTANTS
    DataDirs <- MCDataDirs
    Executables = {"app"}
    UrlArgs = {"http:two"}
    Requests <- MCRequests
    Hexes = {"h1", "h2"}
    Shapes <- MCShapes
    Desktops <- MCDesktops
    MaxUnits = 1
INVARIANTS
    OkMeansAll
    ArgumentsDelivered
    FirstEntryWins
    UnitNamesFit
CHECK_DEADLOCK FALSE
