CONSTANTS
    p1 = p1
    p2 = p2
    t1 = t1
    t2 = t2
    t3 = t3
    x = x
    y = y
    None = None
    Unchecked = Unchecked
    Free = Free
    Concurrent = FALSE
    Procs <- MCProcs
    Threads <- MCThreads
    ProcOf <- MCProcOf
    Artifacts <- MCArtifacts
SPECIFICATION MCSpec
INVARIANT ListComplete
CHECK_DEADLOCK FALSE
