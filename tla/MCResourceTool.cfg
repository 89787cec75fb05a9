CONSTANTS
    Threads <- MCThreads
    Tool <- MCTool
    URLs <- MCURLs
    Bytes <- MCBytes
    None = None
    Free = Free
    Unset = Unset
    NoBase = NoBase
    Data <- MCData
    Offers <- MCOffers
    Folded <- MCFolded
    MaxFiles = 4
    MaxBytes = 10
    MaxRecords = 2
    LockTargets = {"linux-x86"}
    TargetOf <- MCTargetOf
    Wrap = 32
    IncludeDirName <- MCIncludeDirName
    NameOrder <- MCNameOrder
    ExtractedPackage <- MCExtractedPackage
    WithInc <- MCWithInc
    ManifestAt <- MCManifestAt
    Project <- MCProject
    Packages <- MCPackages
    Assets <- MCAssets
    Matching <- MCMatching
    RuntimeVersions <- MCVersions
    Manifests <- MCManifests
    Disks <- MCDisks
    Starts <- MCStarts
    LoadOptions <- MCLoadOptions
    Specs <- MCSpecs
    MaxOps = 2
    MaxChanges = 1
    MaxShared = 2
SPECIFICATION MCSpec
INVARIANTS
    DownloadedOnce
    CloseWaits
    ResolvedRestores
    ResolvedLocks
    InstalledIsLocked
    ExtractedFound
    DirectFirst
    NothingOutside
PROPERTIES
    CallsEnd
CHECK_DEADLOCK FALSE
