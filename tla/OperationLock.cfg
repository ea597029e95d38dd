SPECIFICATION LockSpec
CONSTANTS
    c1 = c1
    c2 = c2
    c3 = c3
    c4 = c4
    p1 = p1
    p2 = p2
    p3 = p3
    h1 = h1
    h2 = h2
    NoOne = NoOne
    Contenders <- MCContenders
    Procs <- MCProcs
    ProcOf <- MCProcOf
    HostOf <- MCHostOf
SYMMETRY MCSymmetry
INVARIANTS
    MutexUnlessClearersOverlap
    NoLeakedLock
PROPERTY
    HolderKeepsFile
\* Every lock object is used once, so the model ends when all have been.
CHECK_DEADLOCK FALSE
