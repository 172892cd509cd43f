SPECIFICATION Spec
CONSTANTS
  Code <- MCCode
  FalseClauses = {"false"}
  AssumeClauses = {}
  Base <- MCBranches
  Sessions = {"f"}
  Insertions <- MCSameInsertions
  Deletions <- MCDeletions
  Contracts <- MCContracts
  MaxEdits <- MCMaxEdits
  MaxForks <- MCMaxForks
  Needs <- MCNeeds
  Holds = {"ifA"}
PROPERTIES
  RulesDecide
CHECK_DEADLOCK FALSE
