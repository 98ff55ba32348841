SPECIFICATION Spec
CONSTANTS
  w1 = w1
  w2 = w2
  Worker <- BothWorkers
  Poster <- BothWorkers
  QSize = 3
  NrReq = 3
INVARIANT NothingLost
