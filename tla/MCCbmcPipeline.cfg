SPECIFICATION FairSpec
CONSTANTS
  Function = "f"
  Callees = {"g", "h"}
  Files <- MCFiles
INVARIANTS
  PassIsEarned
  VacuityIsReal
  EveryCalleeReplaced
PROPERTIES
  RetriesDiffer
  AlwaysAnswers
  ImplementsVerdict
