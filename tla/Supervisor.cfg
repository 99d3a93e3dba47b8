SPECIFICATION HelpfulSpec
CONSTANTS
  p1 = p1
  p2 = p2
  Pids <- MCPids
  Nil = Nil
  Threshold = 3
  MinUptime = 2
INVARIANTS
  TypeOK
  AtMostOneServer
  NoOrphan
  ExitNotLost
PROPERTIES
  RestartsJustified
  StartsPaced
  Recovers
  StopTerminates
  SlotSpec
