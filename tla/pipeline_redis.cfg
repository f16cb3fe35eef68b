SPECIFICATION Spec

CONSTANTS
  h1 = h1
  h2 = h2
  w1 = w1
  w2 = w2
  Handlers = {h1, h2}
  Procs = {1}
  ProcOf <- OneProcess
  Workers = {w1}
  MaxBatches = 2
  InflightCap = 1
  BufferCap = 1
  MaxChunkRetries = 1
  MaxAttempts = 2
  InlineMax = 1
  Forking = TRUE
  FaultKinds = {"redis", "reply"}
  MaxFaults = 2
  MaxResubmits = 1

INVARIANTS
  NeverOverCounted
  SlotsAccounted
  NoPartialCompletion
  BatchExclusive

CHECK_DEADLOCK FALSE

SYMMETRY Symmetric
