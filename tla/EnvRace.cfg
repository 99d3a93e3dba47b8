SPECIFICATION Spec
CONSTANTS
  Expected = 3
  Min = 2
  WaitTicks = 2
  SlackTicks = 2
  JoinBudget = 1
INVARIANTS
  EnvComplete
