SPECIFICATION FairSpec
CONSTANTS
  Configs <- TwoChunks
  Faulty = {}
  MaxGmpEvents = 1
  MaxCctpRetry = 1
  BatchSize = 2
  MaxTasks = 5
PROPERTY EventsReported
CHECK_DEADLOCK FALSE
