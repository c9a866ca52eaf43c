SPECIFICATION FairSpec
CONSTANTS
  Configs <- OneOrThree
  Faulty = {2}
  MaxGmpEvents = 2
  MaxCctpRetry = 1
  BatchSize = 2
  MaxTasks = 7
INVARIANTS NothingLost 
PROPERTIES  MessagesExecuted
CHECK_DEADLOCK FALSE
