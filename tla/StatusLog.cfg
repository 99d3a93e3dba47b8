SPECIFICATION StatusLogSpec
CONSTANTS
  Conns = {c1, c2}
  Attempts = 2
  AttemptTime = 1
  Pause = 1
  LogCalls = 2
  CopierCalls = 1
  MayFill = TRUE
SYMMETRY ConnSymmetry
INVARIANTS
  StatusLogTypeOK
  MarkIsSlowest
  NoDialForgotten
  FileKeepsAll
  OutlivesStdout
  FewFailures
PROPERTIES
  ReportSpec
