SPECIFICATION Spec
CONSTANTS
  Network = {1}
  Shard = {1, 2}
  NetworkOfShard <- OneNetwork
  Message = {1}
  DestNetwork <- ToFirst
  GasCost <- GasOne
  AdminOpGas = 2
  BatchGasLimit = 1
  BatchSize = 1
  DefaultBatchSize = 2
  BatchOffset = 0
  ShardTaskLimit = 2
  MaxTasksPerBlock = 2
  MaxBatchesPerBlock = 2
  Admin = {"remove_task", "stop_network", "sync_network", "restart_batch", "submit_gmp_events"}
  MaxTaskId = 4
  MaxHeight = 8
INVARIANTS
  AssignmentAgrees
  
