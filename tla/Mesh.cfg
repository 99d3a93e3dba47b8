SPECIFICATION Spec
CONSTANTS
  WorkerJobs = {1, 2}
  Matrices <- TriedMatrices
  Settings = {"default", "empty", "fixed"}
  Runs = 2
  Tries = 2
  RawNumbers = {0, 1, 2}
INVARIANTS
  MeshTypeOK
  Findable
  OneServer
  JobsArriveHome
