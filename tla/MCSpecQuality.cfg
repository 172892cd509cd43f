SPECIFICATION Spec
CONSTANTS
  Function = {"leaf", "mid", "top"}
  Body <- MCBody
  Clauses <- MCClauses
  Callees <- MCCallees
  Answers <- MCAnswers
  Processes = {"eval", "tool"}
  Job <- MCJob
  InitialGraphs <- MCInitialGraphs
  MaxWorkers = 2
INVARIANTS
  VerdictsAreTheirOwn
  StreamIsTrue
  NothingLeftBehind
  CallGraphIsWhole
  RedundancyIsSound
PROPERTIES
  EveryScoringEnds
CHECK_DEADLOCK FALSE
