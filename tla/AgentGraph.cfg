SPECIFICATION Spec
CONSTANTS
  d1 = d1
  d2 = d2
  Documents = {d1, d2}
  HitLists <- MCHitLists
  MaxIterations = 3
  ApprovalScore = 7
  MalformedScore = 5
  Scores = {6, 7, 9}
  Healthy = FALSE
  MaxTurns = 2
INVARIANTS
  TypeOK
  LoopBudget
  ShippedIsJudged
  FeedbackIsCurrent
PROPERTIES
  Termination
  ImplementsReviewLoop
CHECK_DEADLOCK FALSE
