SPECIFICATION FairSpec
CONSTANTS
  AdminSqDepth = 4
  AdminCqDepth = 3
  NULL = NULL
  NR_MAX_IO_QUEUE = 1
  IoDepth = 2
  AskQueues = 2
  HostOps = {"async_event", "get_features"}
  MaxCommands = 6
  MaxIo = 2
CHECK_DEADLOCK FALSE
INVARIANTS TypeOK CrashOnlyByRace AdminInOrder QueuesAsHostSees FetchedWerePosted
PROPERTIES HandshakesEnd CommandsServed
