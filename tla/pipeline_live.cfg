SPECIFICATION FairSpec

CONSTANTS
  h1 = h1
  h2 = h2
  w1 = w1
  w2 = w2
  Handlers = {h1, h2}
  Procs = {1}
  ProcOf <- OneProcess
  Workers = {w1}
  MaxBatches = 2
  InflightCap = 1
  BufferCap = 1
  MaxChunkRetries = 1
  MaxAttempts = 2
  InlineMax = 0
  Forking = FALSE
  FaultKinds = {"parse", "finalize", "cleanup"}
  MaxFaults = 2
  MaxResubmits = 0

INVARIANTS
  BatchDecidedOnce
  JobIsMoving

PROPERTIES
  Terminates

CHECK_DEADLOCK FALSE
