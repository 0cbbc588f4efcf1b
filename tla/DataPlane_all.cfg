CONSTANTS
  Kinds <- AllKinds
  Sends = 2
  Early = 1
  Answers = 2
SPECIFICATION FairSpec
INVARIANTS
  TypeOK
  ServiceEndDelivers
PROPERTIES
  ImplementsPipe
  
  ClientEnds
  ChunksArrive
  AnswersArrive
CHECK_DEADLOCK FALSE
