SPECIFICATION Spec
CONSTANTS
  a = a
  b = b
  w1 = w1
  w2 = w2
  Docs = {a, b}
  Chunks <- MCOneChunk
  Workers = {w1, w2}
  MaxRetries = 1
  Faults = {}
  MaxFaults = 0
INVARIANTS
  TypeOK
  NoWorkWithoutObject
  EmbedHasCollection
  OneTaskPerDocument
PROPERTY ImplementsDocumentLife
CHECK_DEADLOCK FALSE
