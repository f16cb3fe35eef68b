SPECIFICATION Spec

CONSTANTS
  h1 = h1
  h2 = h2
  w1 = w1
  w2 = w2
  Handlers = {h1}
  Procs = {1}
  ProcOf <- OneProcess
  Workers = {w1}
  MaxBatches = 1
  InflightCap = 1
  BufferCap = 1
  MaxChunkRetries = 0
  MaxAttempts = 3
  InlineMax = 0
  Forking = TRUE
  FaultKinds = {}
  MaxFaults = 0
  MaxResubmits = 1

INVARIANTS
  JobIsMoving

CHECK_DEADLOCK FALSE
