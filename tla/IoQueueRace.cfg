SPECIFICATION Spec
CONSTANTS
  NR_MAX_PARALLEL_IO = 3
  NrReq = 4
  Latency = {0, 1}
  MaxTime = 2
  FlagStoresMerged = FALSE
INVARIANT UpdatedAtOnce
