SPECIFICATION Spec
CONSTANTS
  MaxSubmits = 3
  MaxBlocks = 2
INVARIANTS
  TypeOK
  OwnConversation
  AnswerUnderQuestion
CHECK_DEADLOCK FALSE
