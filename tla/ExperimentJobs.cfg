SPECIFICATION Spec
CONSTANTS
    Jobs = {j1, j2}
    Clients = {k1}
    Repetitions = 1
    MaxEvents = 1
    NoJob = NoJob
SYMMETRY MCSymmetry
INVARIANTS
    OpenJobHasOwner
    NoDeleteUnderWorker
PROPERTY
    RefinesLifecycle
