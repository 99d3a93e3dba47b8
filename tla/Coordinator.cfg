SPECIFICATION FairSpec
CONSTANTS
  Expected = 3
  Min = 2
  WaitTicks = 2
  SlackTicks = 2
  JoinBudget = 3
INVARIANTS
  TypeOK
  BuildReady
  OutputsReady
  ParentPatient
PROPERTIES
  StepTerminates
