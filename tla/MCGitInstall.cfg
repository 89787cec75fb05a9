CONSTANTS
    p1 = p1
    p2 = p2
    Procs <- MCProcs
    None = None
    MaxCalls = 2
    MaxFaults = 1
    MaxCrashes = 1
    MaxEdits = 1
SPECIFICATION MCSpec
INVARIANTS
    ReportedIsLocked
    OldKept
    FailureRestores
    UndisturbedSucceeds
PROPERTIES
    EditsStay
CHECK_DEADLOCK FALSE
