SPECIFICATION Spec
CONSTANTS
  w1 = w1
  w2 = w2
  Writer = {w1, w2}
  MaxSeq = 4
  MaxPerTx = 2
  CatchUpBatch = 2
  FetchMayFail = TRUE
  MaxDrops = 2
INVARIANTS
  TypeOK
  PublishedAscending
  DeliveredIsPublished
  IdleIsCaughtUp
  OnlyExcusedAreSkipped
PROPERTY ImplementsFeed
CHECK_DEADLOCK FALSE
