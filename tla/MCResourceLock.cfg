CONSTANTS
    a = a
    b = b
    c1 = c1
    c2 = c2
    Packages <- MCPackages
    BinaryKinds <- MCBinaryKinds
    Commits <- MCCommits
    Names = {"x", "y"}
    Platforms = {"linux", "windows"}
    Archs = {"amd64"}
    Versions = {"", "1"}
    None = None
SPECIFICATION MCSpec
INVARIANTS
    RecordsCurrent
    OneRecordPerTarget
    CompleteIsRestorable
PROPERTIES
    OthersKept
