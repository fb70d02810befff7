SPECIFICATION FairSpec
CONSTANTS
  Requests <- SomeRequests
  HeaderNames <- SomeNames
  Statuses <- SomeStatuses
  MaxRead = 2
  BodySize = 2
  MaxHops = 3
  MaxPerforms = 2
INVARIANTS
  TypeOK
  AnswerIsWhole
  UploadInOrder
  
PROPERTIES
  PerformEnds
CHECK_DEADLOCK FALSE
