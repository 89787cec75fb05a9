CONSTANTS
    a = a
    b = b
    Callers <- MCCallers
    MaxFiles = 4
    MaxBytes = 3
    Folded <- MCFolded
    Data <- MCData
    Vendors <- MCVendors
    Versions <- MCVersions
    StagingName <- MCStagingName
    BackupName <- MCBackupName
    Secure <- MCSecure
    Locals <- MCLocals
    Indexes <- MCIndexes
    Options <- MCOptions
    Targets <- MCTargets
SYMMETRY Symmetry
SPECIFICATION Spec
INVARIANTS
    PinnedVersionsStay
