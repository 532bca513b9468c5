SPECIFICATION Spec
CONSTANTS
  d1 = d1
  d2 = d2
  Documents = {d1, d2}
  HitLists <- MCHitLists
  MaxIterations = 3
  ApprovalScore = 7
  MalformedScore = 5
  Scores = {6, 7, 9}
  Healthy = TRUE
  MaxTurns = 2
PROPERTY EveryRouteEnds
CHECK_DEADLOCK FALSE
