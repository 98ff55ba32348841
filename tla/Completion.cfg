SPECIFICATION FairSpec
CONSTANTS
  w1 = w1
  w2 = w2
  Worker <- BothWorkers
  Poster <- FirstOnly
  QSize = 3
  NrReq = 7
INVARIANTS TypeOK InterruptComes
PROPERTIES FifoSpec Noticed
