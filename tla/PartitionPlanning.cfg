CONSTANTS
    c1 = c1  c2 = c2  a = a  b = b  slow = slow  m = m  good = good  unobserved = unobserved
    NoLimit = NoLimit  NoModel = NoModel  NoReport = NoReport
    Callers <- MCCallers
    Submissions <- MCSubmissions
    SupportedModes <- MCSupportedModes
    Context <- MCContext
    LegacyVersion = 1
    Devices <- MCDevices
    FailedLinks <- MCLinks
    Registry <- MCRegistry
    Rankings <- MCRankings
    Weight <- MCWeight
    ForbiddenBoundaries = {2}
    Grain = 4
    Second = 1000
    LatencyReference = 50
    TransferReference = 40
    MaxReplanAttempts = 2
    MaxRoots = 1
    MaxForked = 4
SPECIFICATION PlanningSpec
SYMMETRY Sym
CHECK_DEADLOCK FALSE
INVARIANTS
    AgentAgreesWithValidator
    BlockedMeansInfeasible
    ExclusionsHold
    ReplansBounded
    SavedRespectsDevices
