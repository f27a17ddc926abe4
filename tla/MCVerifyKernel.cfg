SPECIFICATION FairSpec
CONSTANTS
  Commits = 5
  ScanChanges = {1, 3, 4, 5}
  PatchBase = 2
  Compiling = {1, 4, 5}
  Passing = {1, 4}
  SigPipe = FALSE
  CrashPoints <- AllSteps
INVARIANTS
  EvidenceTrue
PROPERTIES
  StaysOnCourse
  RunsComplete
