SPECIFICATION MCSpec
CONSTANTS
  Functions = {"leaf", "mid", "other"}
  Rank <- MCRank
  Callees <- MCCallees
  Contracts = {"weak", "strong", "odd"}
  InitialFiles <- MCInitialFiles
  Outcomes <- MCOutcomesWithOdd
  Jobs = 2
  MaxMergeReruns = 1
  SessionEnds = {FALSE}
  MaxForeignEdits = 1
INVARIANTS
  ActiveIsLive
  LiveContractsOwned
  CalleesDoneFirst
  VerdictsFresh
PROPERTIES
  VerifiedStaysVerified
  NoLostUpdate
  ImplementsVerifiedFile
