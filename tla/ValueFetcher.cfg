CONSTANTS
  t1 = t1
  t2 = t2
  t3 = t3
  OldTxid = {t1, t2, t3}
  ChannelBufferSize = 1
  MaxBatch = 3
  ParallelRequests = 2
  CommitSize = 2
  MaxHeight = 2
  MaxInputs = 3
  MaxFailures = 1

SPECIFICATION FairSpec
INVARIANTS
  EveryInputGetsItsValue
PROPERTIES
  EveryBlockIsIndexed
