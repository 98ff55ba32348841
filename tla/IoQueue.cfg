SPECIFICATION FairSpec
CONSTANTS
  NR_MAX_PARALLEL_IO = 4
  NrReq = 5
  Latency = {1, 2}
  MaxTime = 2
  FlagStoresMerged = TRUE
INVARIANTS TypeOK DueFirst ListsIntact
PROPERTIES ServiceSpec Completed
