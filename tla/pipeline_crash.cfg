SPECIFICATION Spec

CONSTANTS
  h1 = h1
  h2 = h2
  w1 = w1
  w2 = w2
  Handlers = {h1, h2}
  Procs = {1, 2}
  ProcOf <- TwoProcesses
  Workers = {w1, w2}
  MaxBatches = 2
  InflightCap = 2
  BufferCap = 1
  MaxChunkRetries = 0
  MaxAttempts = 2
  InlineMax = 1
  Forking = TRUE
  FaultKinds = {"finalize", "kill", "rqkill", "ttl"}
  MaxFaults = 2
  MaxResubmits = 1

INVARIANTS
  TypeOK
  NoPartialCompletion
  FinalizeExclusive
  CompletedIsFinal
  ChargedOnce

CHECK_DEADLOCK FALSE
