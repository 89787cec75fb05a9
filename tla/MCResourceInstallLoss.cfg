CONSTANTS
    a = a
    b = b
    f1 = f1
    f2 = f2
    f3 = f3
    d1 = d1
    d2 = d2
    Absent = Absent
    Directory = Directory
    Dangling = Dangling
    Old = Old
    Installers <- MCInstallers
    Files <- MCFiles
    Dirs <- MCDirs
    ParentOf <- MCParentOf
    Entries <- MCEntries
SPECIFICATION MCSpec
INVARIANT FailedCommitKeepsFiles
CHECK_DEADLOCK FALSE
