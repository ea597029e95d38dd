SPECIFICATION FairSpec
CONSTANTS
    r1 = r1
    r2 = r2
    p1 = p1
    p2 = p2
    cpu = cpu
    latency = latency
    Free = Free
    Runs <- MCRuns
    Procs <- MCProcs
    ProcOf <- MCProcOf
    ScenarioOf <- MCScenarioOf
    Scenarios <- MCScenarios
INVARIANTS
    FaultAccountedFor
    StatusHonest
PROPERTY
    LockReleased
\* Every run ends, and so does the model.
CHECK_DEADLOCK FALSE
