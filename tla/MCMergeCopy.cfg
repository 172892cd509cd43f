SPECIFICATION Spec
CONSTANTS
  Code <- MCCode
  FalseClauses = {"false"}
  AssumeClauses = {}
  Base <- MCBase
  Sessions = {"f", "g"}
  Insertions <- MCInsertions
  Deletions <- MCDeletions
  Contracts <- MCContracts
  MaxEdits <- MCMaxEdits
  MaxForks <- MCMaxForks
  Needs <- MCNeeds
  Holds = {"ifA", "ifB", "ifC"}
INVARIANTS
  OriginalItemsKept
  OriginalConditionsKept
PROPERTIES
  RulesHoldOverall
  GoodCopiesMerge
  NothingLost
  TakesTheCopy
  RulesDecide
CHECK_DEADLOCK FALSE
