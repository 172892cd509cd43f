SPECIFICATION FairSpec
CONSTANTS
  Functions = {"a", "b", "c"}
  Rank <- MCCyclicRank
  Callees <- MCCyclicCallees
  Contracts = {"weak", "strong"}
  InitialFiles <- MCInitialFiles
  Outcomes <- MCCyclicOutcomes
  Jobs = 2
  MaxMergeReruns = 1
  SessionEnds = {TRUE, FALSE}
  MaxForeignEdits = 1
INVARIANTS
  StopsOnlyWhenDone
PROPERTIES
  RunEnds
