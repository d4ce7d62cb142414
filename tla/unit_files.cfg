SPECIFICATION Spec
CONSTANTS
    Runs = {r1}
    Static = {"wm.service"}
    Dropins = {"wm.d/50_custom.conf", "slice-tweak.conf"}
    Contents = {"v1", "v2"}
    NoFile = NoFile
    Keep = Keep
    Configs <- OneCompositor
    RemovalMarks <- AllOrTweaks
    ForeignContents = {"v2"}
INVARIANTS
    FilesTypeOK
    ManifestTruthful
    FailedBatchLeavesNothing
    StartFindsItsUnits
PROPERTY
    ForeignFilesKept
