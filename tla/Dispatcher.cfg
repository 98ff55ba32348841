SPECIFICATION FairSpec
CONSTANTS
  tt_luns = 2
  NAND_READ_LATENCY = 1
  NAND_PROG_LATENCY = 1
  NAND_ERASE_LATENCY = 1
  Latencies = {2}
  queue_size = 3
  tt_pgs = 2
  Kinds <- MCKinds
  MaxCommands = 4
  MaxTime = 4
  MaxEvents = 1
  ReuseByHead = FALSE
INVARIANTS TypeOK TransferExact InFlightWholeRounds NoFasterThanFlash
PROPERTIES Served
