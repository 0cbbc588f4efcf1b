CONSTANTS
  Kinds <- Connections
  Sends = 2
  Early = 1
  Answers = 2
SPECIFICATION FairSpec
PROPERTIES
  GoneIsOver
CHECK_DEADLOCK FALSE
