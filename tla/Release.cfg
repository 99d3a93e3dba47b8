SPECIFICATION Spec
CONSTANTS
  Tags <- TriedTags
  Refs <- TriedRefs
  Local = Local
  MaxJobs = 2
INVARIANTS
  TypeOK
  RunsWhatItResolved
  EngineWhole
  
  EngineNotNewer
