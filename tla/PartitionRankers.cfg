CONSTANTS
    p1 = p1  p2 = p2  p3 = p3  p4 = p4  p6 = p6  p7 = p7  p8 = p8
    j1 = j1  j2 = j2
    Plans <- MCPlans
    Plan <- MCPlan
    Builds <- MCBuilds
    Rewards = {0, 2}
    FeatureOrder = {1, 2, 3, 4, 5, 6}
    Features <- MCFeatures
    MaxError = 1
    MinCorrelation = 3
    Processes = {j1, j2}
    Datasets = {"d1"}
    Versions = {"v1"}
    MinSamples = 4
    MinGroups = 2
    GuardSamples = 3
    GuardGroups = 2
    MinConfidence = 70
    MaxOutside = 20
    NoModel = NoModel  NoFile = NoFile  Idle = Idle  NoResult = NoResult
SPECIFICATION Spec
SYMMETRY Sym
INVARIANTS
    JudgedOnUnseenGroups
    LearnedChoiceTrusted
