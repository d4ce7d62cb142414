SPECIFICATION Spec
CONSTANTS
    Scanners = {s1, s2}
    Paths <- MCPaths
    Dir <- MCDir
    Id <- MCId
    Contents <- MCContents
    Edits <- MCEdits
    Starts <- MCStarts
    Lists <- MCLists
    Programs <- MCPrograms
    Xcd = {"here"}
    Opts <- MCOpts
    Times = {1, 2}
    Apart = TRUE
INVARIANTS
    ScanTypeOK
    CacheTruthful
    NoTerminalOverlooked
CHECK_DEADLOCK FALSE
SYMMETRY Symmetric
