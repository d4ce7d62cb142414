SPECIFICATION Spec
CONSTANTS
    Names = {"PATH", "WAYLAND_DISPLAY", "SSH_AUTH_SOCK", "FOO"}
    Values = {"a", "b", ""}
    Empty = ""
    Absent = Absent
    SESSION_SPECIFIC = {}
    ALWAYS_EXPORT = {"PATH"}
    NEVER_EXPORT_BASE = {}
    ALWAYS_UNSET_BASE = {"WAYLAND_DISPLAY"}
    ALWAYS_CLEANUP_BASE = {"PATH", "WAYLAND_DISPLAY"}
    NEVER_CLEANUP = {"SSH_AUTH_SOCK"}
    Gens = {g1, g2}
    NoGen = NoGen
    NoFile = NoFile
    WaitVars = {"WAYLAND_DISPLAY"}
    Broker = FALSE
    Detached = FALSE
    InitialEnvs <- OneInitialEnv
    LoaderEnvs <- OneLoaderEnv
    CompositorEnvs <- MCCompositorEnvs
    FinalizeEnvs <- MCFinalizeEnvs
INVARIANT
    CleanupKeepsPreexisting
