CONSTANTS
  Kinds <- Requests
  Sends = 2
  Early = 1
  Answers = 2
SPECIFICATION FairSpec
PROPERTIES
  AnswerIsWhole
CHECK_DEADLOCK FALSE
