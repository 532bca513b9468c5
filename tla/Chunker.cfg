SPECIFICATION Spec
CONSTANTS
  MaxTokens = 40
  TextLengths <- MCTextLengths
  SizeArgs <- MCSizeArgs
  OverlapArgs <- MCOverlapArgs
  DefaultSize = 8
  DefaultOverlap = 1
INVARIANTS
  TypeOK
  ChunksWithinBudget
  ChunksTile
  LossBounded
PROPERTY Terminates
CHECK_DEADLOCK FALSE
