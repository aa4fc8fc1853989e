SPECIFICATION FairSpec
CONSTANTS
  Kinds <- MCAllKinds
  Queues <- MCQueues
  Pktin <- MCPktin
  Burst = 2
  VecSize = 2
  MaxPkts = 3
  MaxEvents = 2
  MaxInputs = 4
INVARIANTS InOrder NothingLeftBehind
PROPERTIES PacketsDelivered PendingSent LoopStops
CHECK_DEADLOCK FALSE
