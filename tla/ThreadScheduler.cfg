SPECIFICATION FairSpec
CHECK_DEADLOCK FALSE
CONSTANTS
  Tasks <- MCTasks
  Descs <- MCTasks
  Desc <- MCDesc
  Priority <- MCPriority
  Hashing = {"hash1", "hash2"}
  Sync = "sync"
  Unhashed = {"aich1", "aich2"}
  NoTask = "none"
  MaxBound = 1
INVARIANTS
  SchedulerWellFormed
  NoLostWakeup
PROPERTIES
  LastHashCallsSync
  ServiceKept
  QueueDrains
