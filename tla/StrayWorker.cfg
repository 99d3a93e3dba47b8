SPECIFICATION FairFarmSpec
CONSTANTS
  Expected = 1
  Min = 1
  WaitTicks = 1
  SlackTicks = 1
  JoinBudget = 0
  TeardownThresh = 2
PROPERTIES
  WorkersShutDown
