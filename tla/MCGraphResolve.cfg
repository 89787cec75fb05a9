CONSTANTS
    a = a
    b = b
    c = c
    d = d
    Ids <- MCIds
    Constraints = {"", ":1"}
    NoParent = NoParent
    MaxPackages = 3
    MaxDepth = 2
SPECIFICATION MCSpec
INVARIANTS
    TypeOK
    ResolvesClosure
    ConflictIsReal
    EdgesAgree
    Reproducible
    FreshLockIsCurrent
PROPERTIES
    Terminates
CHECK_DEADLOCK FALSE
