SPECIFICATION FairSpec
CONSTANTS
  MORTALITY = 2
  MaxCalls = 2
  MaxLag = 2
  Faults = {"submit", "db", "restart", "reorg", "best", "finalized"}
  MaxFaults = 1
  MaxSigned = 4
INVARIANTS AnswersAreFinal RetryIsSafe
PROPERTIES EveryCallReturns
CHECK_DEADLOCK FALSE
