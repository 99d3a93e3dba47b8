SPECIFICATION FairFarmSpec
CONSTANTS
  Expected = 1
  Min = 1
  WaitTicks = 2
  SlackTicks = 2
  JoinBudget = 1
  TeardownThresh = 3
INVARIANTS
  FarmTypeOK
  ServerAfterScheduler
  BuildOnServers
PROPERTIES
  PatientGuard
  GuardsLeave
