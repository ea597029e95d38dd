SPECIFICATION FairSpec
CONSTANTS
  Agents = 2
  Weight <- MCWeight
  VetoScopes <- MCVetoScopes
  ActionSpace <- MCActionSpace
  Proposable <- MCProposable
  MaxProposals = 3
  MaxRounds = 2
  MaxReplan = 1
  MaxLooks = 2
  MinReplicas = 1
  MaxReplicas = 4
  Observable = {2}
  OutsideScales = {2}
  NoAction = NoAction
INVARIANTS DispatchedAsReviewed MutationsBounded RecoveredMeansVerified
PROPERTIES MutationSanctioned Terminates
CHECK_DEADLOCK FALSE
