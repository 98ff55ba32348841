SPECIFICATION FairSpec
CONSTANTS
  nchs = 1
  luns_per_ch = 1
  pgs_per_blk = 3
  blks_per_pl = 3
  gc_thres_lines = 1
  gc_thres_lines_high = 1
  gc_ipc_divisor = 2
  MaxWriteLpns = 2
  HostLpns = {0, 1, 2, 9}
  UNMAPPED_PPA = UNMAPPED_PPA
  INVALID_LPN = INVALID_LPN
  NULL = NULL
INVARIANTS TypeOK LinePartition VictimsReclaimable CurlineNeverNull
PROPERTIES WriteCompletes
