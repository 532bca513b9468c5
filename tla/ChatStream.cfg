SPECIFICATION StreamSpec
CONSTANTS
  d1 = d1
  Documents = {d1}
  HitLists <- MCHitLists
  MaxIterations = 2
  ApprovalScore = 7
  MalformedScore = 5
  Scores = {5, 9}
  Healthy = FALSE
  MaxTurns = 2
INVARIANTS
  StreamTypeOK
  
  ShownIsJudged
  SavedWasShown
  
PROPERTY ImplementsTranscript
CHECK_DEADLOCK FALSE
