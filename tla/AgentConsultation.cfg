CONSTANTS
  Panels <- MCPanels
  Cases <- MCCases
  Chats <- MCChats
  CanonicalName <- MCCanonicalName
  MetricPolicy <- MCMetricPolicy
  PreferredAction <- MCPreferredAction
  BySeverity <- MCBySeverity
  DefaultReplicas = 3
  PolicyMaxReplicas = 5
  InfraMax = 5
  CostMax = 3
  MinReplicas = 1
  MaxReplicas = 5
  MaxRounds = 2
  MaxReplan = 1
  MaxRuns = 2
SPECIFICATION Spec
CHECK_DEADLOCK FALSE
INVARIANTS
  VetoHeard
  BudgetKept
  RevisionSettles
