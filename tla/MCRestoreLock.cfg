CONSTANTS
    Keys <- MCKeys
    Names <- MCNames
    SchemeOf <- MCSchemeOf
    Constraints = {"", ":1"}
    Commits = {"old", "new"}
    None = None
    Repos = {1, 2, 3}
    RepoOf <- MCRepoOf
SPECIFICATION MCSpec
INVARIANTS
    LoadsBack
    
    DependenciesFirst
    RestoreInstalls
PROPERTIES
    RestoreReturns
CHECK_DEADLOCK FALSE
