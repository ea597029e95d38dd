SPECIFICATION FairSpec
CONSTANTS
    Benchmarks = {b1}
    Comparisons = {c1}
    Clients = {k1}
    Repetitions = 1
    NoJob = NoJob
INVARIANTS
    ResultMeansNoChild
PROPERTIES
    RefinesLifecycle
    StartedJobEnds
