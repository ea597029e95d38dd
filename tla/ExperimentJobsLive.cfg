SPECIFICATION FairSpec
CONSTANTS
    Jobs = {j1}
    Clients = {k1, k2}
    Repetitions = 2
    MaxEvents = 1
    NoJob = NoJob
PROPERTIES
    SignalledNeverCompletes
    WorkerEnds
    TerminalStreamEnds
