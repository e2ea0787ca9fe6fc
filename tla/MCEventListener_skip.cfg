SPECIFICATION Spec
CONSTANTS
  w1 = w1
  w2 = w2
  Writer = {w1, w2}
  MaxSeq = 3
  MaxPerTx = 2
  CatchUpBatch = 2
  FetchMayFail = FALSE
  MaxDrops = 0
INVARIANT PublishesEveryEvent
CHECK_DEADLOCK FALSE
