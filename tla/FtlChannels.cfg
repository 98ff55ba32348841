SPECIFICATION Spec
CONSTANTS
  nchs = 2
  luns_per_ch = 2
  pgs_per_blk = 1
  blks_per_pl = 3
  gc_thres_lines = 1
  gc_thres_lines_high = 1
  gc_ipc_divisor = 2
  MaxWriteLpns = 2
  HostLpns = {0, 1, 2}
  UNMAPPED_PPA = UNMAPPED_PPA
  INVALID_LPN = INVALID_LPN
  NULL = NULL
INVARIANTS MappingConsistent NoOrphan CountersExact CurlineNeverNull
PROPERTIES NandSpec
