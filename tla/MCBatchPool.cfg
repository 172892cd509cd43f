SPECIFICATION FairSpec
CONSTANTS
  Runs = 3
  Jobs = 1
INVARIANTS
  AtMostJobs
  ExitLeavesNothing
  RecordedIsFinal
PROPERTIES
  BatchEnds
