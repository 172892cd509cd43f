SPECIFICATION Spec
CONSTANTS
  Functions = {"a", "b", "c"}
  Rank <- MCCyclicRank
  Callees <- MCCyclicCallees
  Contracts = {"weak", "strong"}
  InitialFiles <- MCInitialFiles
  Outcomes <- MCOutcomes
  Jobs = 2
  MaxMergeReruns = 2
  SessionEnds = {FALSE}
  MaxForeignEdits = 0
PROPERTIES
  VerifiedStaysVerified
