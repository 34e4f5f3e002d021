SPECIFICATION FairSpec
CONSTANTS
  p1 = p1
  p2 = p2
  Producers = {p1, p2}
  Streams = {"response", "log"}
  Shared = {"response"}
  WorkerCount = 2
  QueueSize = 1
  BatchSize = 2
  MaxWrites = 3
CHECK_DEADLOCK FALSE
INVARIANT TypeOK
INVARIANT EachRowOnce
INVARIANT JoinMeansFlushed
INVARIANT OneSharedWriter
PROPERTY EveryRowLeaves
