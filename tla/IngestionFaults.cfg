SPECIFICATION Spec
CONSTANTS
  a = a
  b = b
  w1 = w1
  w2 = w2
  Docs = {a}
  Chunks <- MCOneChunk
  Workers = {w1, w2}
  MaxRetries = 1
  Faults = {"commit", "child", "worker"}
  MaxFaults = 2
INVARIANTS
  ReadyAccountsForChunks
  ProcessingIsWork
PROPERTIES
  SettlesUnlessStranded
  ChunksSettle
CHECK_DEADLOCK FALSE
