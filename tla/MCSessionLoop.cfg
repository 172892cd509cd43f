SPECIFICATION FairSpec
CONSTANTS
  MinAttempts = 2
  MaxSessions = 3
  MaxIdleSessions = 1
  MaxMergeReruns = 2
  MaxAdded = 1
INVARIANTS
  LimitIsReported
  AttemptsAddUp
  SessionsAreWorthwhile
PROPERTIES
  AlwaysReturns
