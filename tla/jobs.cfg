SPECIFICATION Spec

CONSTANTS
  Slots = {1, 2}
  Threads = {1, 2}
  Horses = {1, 2}
  JobIds = {1, 2}
  Users = {"ann"}
  Documents <- Shelf
  Scenarios <- Everyday
  MaxAttempts = 2
  MaxQueueDepth = 2
  PreviewPages = 3
  PreviewStarts = 1
  Month = 1
  Year = 12
  PoolWords = 2
  Per100k = 2

INVARIANTS
  TypeOK
  QuotaHolds
  OneRowPerDocument
  ChargedOnce
  DeferredIsPaid
  
  ShownIsServed
  HistoryIsServed
  CopiesAgree

PROPERTY PaidJobEnds

CHECK_DEADLOCK FALSE
