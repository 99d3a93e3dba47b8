SPECIFICATION FarmSpec
CONSTANTS
  Expected = 2
  Min = 1
  WaitTicks = 1
  SlackTicks = 1
  JoinBudget = 0
  TeardownThresh = 2
INVARIANTS
  ForwardedBeforeRegistered
