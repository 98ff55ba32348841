SPECIFICATION Spec
CONSTANTS
  nchs = 1
  luns_per_ch = 1
  pgs_per_blk = 2
  blks_per_pl = 3
  gc_thres_lines = 1
  gc_thres_lines_high = 1
  gc_ipc_divisor = 2
  MaxWriteLpns = 1
  HostLpns = {0, 1, 2, 3, 4, 5}
  UNMAPPED_PPA = UNMAPPED_PPA
  INVALID_LPN = INVALID_LPN
  NULL = NULL
INVARIANTS CurlineNeverNull
