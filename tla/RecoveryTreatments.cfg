SPECIFICATION TreatmentsSpec
CONSTANTS
    r1 = r1
    r2 = r2
    cpu = cpu
    delay = delay
    Runs <- MCRuns
    Scenarios <- MCScenarios
    Actions <- MCActions
    Repeats = 1
    Baseline = 1
    Scaled = 3
INVARIANTS
    InjectedFaultAccountedFor
    MeasuredOwnEffect
\* Every matrix ends, and so does the model.
CHECK_DEADLOCK FALSE
SYMMETRY RunSymmetry
