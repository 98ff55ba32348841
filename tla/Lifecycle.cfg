SPECIFICATION FairSpec
CONSTANTS
  Configs <- MCConfigs
  MayFail = {"bus"}
  MaxWorkers = 2
  NR_MAX_IO_QUEUE = 2
  IoUnits = {0, 2}
  MaxWrites = 1
  MaxQueueOps = 2
  MaxFlushes = 1
INVARIANTS TypeOK UseOnlyLive FlushInBounds EachFreedOnce
PROPERTIES LoadsAndUnloads
CHECK_DEADLOCK FALSE
