SPECIFICATION LogSpec
CONSTANTS
  Functions = {"leaf", "mid", "other"}
  Rank <- MCRank
  Callees <- MCCallees
  Contracts = {"weak", "strong"}
  InitialFiles <- MCInitialFiles
  Outcomes <- MCOutcomes
  Jobs = 1
  MaxMergeReruns = 0
  SessionEnds = {FALSE}
  MaxForeignEdits = 1
  AppendFails = {FALSE}
  MaxRestarts = 0
INVARIANTS
  ExitZeroMeansVerified
