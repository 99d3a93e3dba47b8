SPECIFICATION Spec
CONSTANTS
  Tags <- WithCandidate
  Refs <- MajorRef
  Local = Local
  MaxJobs = 1
INVARIANTS
  PrereleasesExcluded
