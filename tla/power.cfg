SPECIFICATION FairSpec
CONSTANTS
  num_pktin = 2
  Burst = 2
  MaxPkts = 3
  LevelQueues = {2}
INVARIANT SleeperWakes
PROPERTIES PacketsReceived SleepsWhenIdle WorkerStops InterruptServesAll
