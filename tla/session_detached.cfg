SPECIFICATION FairSpec
CONSTANTS
    Names = {"WAYLAND_DISPLAY", "FOO"}
    Values = {"a", "b", ""}
    Empty = ""
    Absent = Absent
    SESSION_SPECIFIC = {}
    ALWAYS_EXPORT = {}
    NEVER_EXPORT_BASE = {}
    ALWAYS_UNSET_BASE = {"WAYLAND_DISPLAY"}
    ALWAYS_CLEANUP_BASE = {"WAYLAND_DISPLAY"}
    NEVER_CLEANUP = {}
    Gens = {g1, g2}
    NoGen = NoGen
    NoFile = NoFile
    WaitVars = {"WAYLAND_DISPLAY"}
    Broker = TRUE
    Detached = TRUE
    InitialEnvs <- NoInitialEnv
    LoaderEnvs <- FooLoaderEnv
    CompositorEnvs = {}
    FinalizeEnvs <- SocketFinalizeEnvs
INVARIANTS
    OneGenerationOnFile
PROPERTY
    StopCompletes
