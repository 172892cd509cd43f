SPECIFICATION MCSpec
CONSTANTS
  Functions = {"leaf", "mid", "other"}
  Rank <- MCRank
  Callees <- MCCallees
  Contracts = {"weak", "strong"}
  InitialFiles <- MCInitialFiles
  Outcomes <- MCOutcomes
  Jobs = 2
  MaxMergeReruns = 1
  SessionEnds = {TRUE, FALSE}
  MaxForeignEdits = 1
  AppendFails = {FALSE}
  MaxRestarts = 2
INVARIANTS
  LoggedBeforeDependents
  LoggedPassIsFresh
  NothingLeftUnlessLimited
